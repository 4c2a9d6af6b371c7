---------------------------- MODULE MembershipProofs ----------------------------
(***************************************************************************)
(* Theorems about Membership for every number of users, spaces, invites    *)
(* and requests, and every max_uses.                                       *)
(***************************************************************************)
EXTENDS Membership, FiniteSetTheorems, TLAPS

\* What a request has, phase by phase.
RequestOK(q) ==
    /\ q \in Request
    /\ q.pc \in {"count", "user", "use", "token", "verify", "consume", "purge", "space", "owner",
                 "target", "actor", "kick", "current", "change", "issue", "space?", "join"}
          => q.actor \in Users
    /\ q.pc \in {"target", "actor", "kick", "current", "change"} => q.target \in Users
    /\ q.pc \in {"owner", "target", "actor", "kick", "current", "change", "close", "issue",
                 "space?", "join"} => q.space \in Spaces
    /\ q.pc \in {"count", "user"} => q.code \in Codes
    /\ q.pc \in {"use", "revoke", "space?", "join", "spend"} => q.code \in Invites
    /\ q.pc \in {"verify", "consume"} => q.token \in Requests
    /\ q.pc \in {"actor", "kick"} => q.seen \in {"member", "admin"}
    /\ q.pc \in {"current", "change"} => q.new \in {"member", "admin"}

RequestsOK == req \in [Requests -> Request] /\ \A r \in Requests : RequestOK(req[r])
AccountsOK ==
    /\ users \in [Users -> {"absent", "active", "deleted"}]
    /\ admins \subseteq Users /\ verified \subseteq Users
    /\ tokens \in [Users -> SUBSET Requests]
    /\ stuck \subseteq Users /\ adminLeft \in BOOLEAN
SpacesOK ==
    /\ spaces \in [Spaces -> Space]
    /\ role \in [Spaces -> [Users -> Roles \cup {"none"}]]
    /\ raced \subseteq Requests
InvitesOK ==
    /\ invites \in [Invites -> Invite]
    /\ admitted \in [Invites -> Nat] /\ lost \in [Invites -> Nat]
Types == RequestsOK /\ AccountsOK /\ SpacesOK /\ InvitesOK

LEMMA TypesMean == Types => TypeOK
BY DEF Types, TypeOK, RequestsOK, AccountsOK, SpacesOK, InvitesOK
--------------------------------------------------------------------------------
(***************************************************************************)
(* Steps.  A step changes one request, and goes on with it or starts it.   *)
(***************************************************************************)
Others(r) == \A x \in Requests : x # r => req'[x] = req[x]
Onward(r, phase) ==
    /\ Others(r) /\ req' \in [Requests -> Request]
    /\ req'[r].pc = phase /\ req'[r].actor = req[r].actor
    /\ req'[r].target = req[r].target /\ req'[r].space = req[r].space
    /\ req'[r].code = req[r].code /\ req'[r].seen = req[r].seen
    /\ req'[r].new = req[r].new /\ req'[r].first = req[r].first
    /\ req'[r].token = req[r].token
Begun(r, q) == Others(r) /\ req' \in [Requests -> Request] /\ req'[r] = q /\ RequestOK(q)

LEMMA GotoOnward ==
    ASSUME req \in [Requests -> Request], NEW r \in Requests, NEW phase \in Phases, Goto(r, phase)
    PROVE  Onward(r, phase)
BY DEF Goto, Request, Others, Onward

LEMMA StartBegun ==
    ASSUME req \in [Requests -> Request], NEW r \in Requests, NEW q, RequestOK(q), Start(r, q)
    PROVE  Begun(r, q)
BY DEF Start, Others, Begun, RequestOK

LEMMA OnwardOK ==
    ASSUME RequestsOK, NEW r \in Requests, NEW phase, Onward(r, phase),
           \/ phase = "done"
           \/ req[r].pc = "count" /\ phase = "user"
           \/ req[r].pc = "user" /\ phase = "use" /\ req[r].code # Bootstrap
           \/ req[r].pc \in {"user", "use", "purge"} /\ phase = "token"
           \/ req[r].pc = "verify" /\ phase = "consume"
           \/ req[r].pc = "owner" /\ phase = "defaults"
           \/ req[r].pc = "actor" /\ phase = "kick"
           \/ req[r].pc = "current" /\ phase = "change"
           \/ req[r].pc = "space?" /\ phase = "join"
           \/ req[r].pc = "join" /\ phase = "spend"
    PROVE  RequestOK(req'[r])
<1>1. RequestOK(req[r]) /\ req'[r] \in Request
  BY DEF RequestsOK, Onward
<1>. QED  BY <1>1 DEF Onward, RequestOK, Codes

\* A request is started with what it needs.
LEMMA CheckCodeStarts ==
    ASSUME RequestsOK, NEW r \in Requests, NEW u \in Users, NEW c \in Codes,
           CheckCode(r, u, c)
    PROVE  /\ Others(r) /\ req' \in [Requests -> Request] /\ RequestOK(req'[r])
           /\ req'[r].pc = "count" /\ req'[r].actor = u /\ req'[r].code = c
<1> DEFINE q == [NoRequest EXCEPT !.pc = "count", !.actor = u, !.code = c]
<1>1. q \in Request /\ q.pc = "count" /\ q.actor = u /\ q.code = c
  BY DEF NoRequest, Request, Phases, Roles, Codes
<1>2. RequestOK(q)
  BY <1>1 DEF RequestOK, Codes
<1>3. Start(r, q) /\ req \in [Requests -> Request]
  BY DEF CheckCode, RequestsOK
<1> HIDE DEF q
<1>. QED  BY <1>1, <1>2, <1>3, StartBegun DEF Begun

LEMMA FindTokenStarts ==
    ASSUME RequestsOK, NEW r \in Requests, NEW u \in Users, NEW t \in Requests,
           FindToken(r, u, t)
    PROVE  /\ Others(r) /\ req' \in [Requests -> Request] /\ RequestOK(req'[r])
           /\ req'[r].pc = "verify" /\ req'[r].actor = u /\ req'[r].token = t
<1> DEFINE q == [NoRequest EXCEPT !.pc = "verify", !.actor = u, !.token = t]
<1>1. q \in Request /\ q.pc = "verify" /\ q.actor = u /\ q.token = t
  BY DEF NoRequest, Request, Phases, Roles, Codes
<1>2. RequestOK(q)
  BY <1>1 DEF RequestOK, Codes
<1>3. Start(r, q) /\ req \in [Requests -> Request]
  BY DEF FindToken, RequestsOK
<1> HIDE DEF q
<1>. QED  BY <1>1, <1>2, <1>3, StartBegun DEF Begun

LEMMA FindUnverifiedStarts ==
    ASSUME RequestsOK, NEW r \in Requests, NEW u \in Users,
           FindUnverified(r, u)
    PROVE  /\ Others(r) /\ req' \in [Requests -> Request] /\ RequestOK(req'[r])
           /\ req'[r].pc = "purge" /\ req'[r].actor = u
<1> DEFINE q == [NoRequest EXCEPT !.pc = "purge", !.actor = u]
<1>1. q \in Request /\ q.pc = "purge" /\ q.actor = u
  BY DEF NoRequest, Request, Phases, Roles, Codes
<1>2. RequestOK(q)
  BY <1>1 DEF RequestOK, Codes
<1>3. Start(r, q) /\ req \in [Requests -> Request]
  BY DEF FindUnverified, RequestsOK
<1> HIDE DEF q
<1>. QED  BY <1>1, <1>2, <1>3, StartBegun DEF Begun

LEMMA BeginDeleteStarts ==
    ASSUME RequestsOK, NEW r \in Requests, NEW u \in Users, NEW s \in Spaces,
           BeginDelete(r, s, u)
    PROVE  /\ Others(r) /\ req' \in [Requests -> Request] /\ RequestOK(req'[r])
           /\ req'[r].pc = "close" /\ req'[r].actor = u /\ req'[r].space = s
<1> DEFINE q == [NoRequest EXCEPT !.pc = "close", !.actor = u, !.space = s]
<1>1. q \in Request /\ q.pc = "close" /\ q.actor = u /\ q.space = s
  BY DEF NoRequest, Request, Phases, Roles, Codes
<1>2. RequestOK(q)
  BY <1>1 DEF RequestOK, Codes
<1>3. Start(r, q) /\ req \in [Requests -> Request]
  BY DEF BeginDelete, RequestsOK
<1> HIDE DEF q
<1>. QED  BY <1>1, <1>2, <1>3, StartBegun DEF Begun

LEMMA BeginKickStarts ==
    ASSUME RequestsOK, NEW r \in Requests, NEW u \in Users, NEW t \in Users, NEW s \in Spaces,
           BeginKick(r, s, u, t)
    PROVE  /\ Others(r) /\ req' \in [Requests -> Request] /\ RequestOK(req'[r])
           /\ req'[r].pc = "target" /\ req'[r].actor = u
           /\ req'[r].target = t /\ req'[r].space = s
<1> DEFINE q == [NoRequest EXCEPT !.pc = "target", !.actor = u, !.target = t, !.space = s]
<1>1. q \in Request /\ q.pc = "target" /\ q.actor = u /\ q.target = t /\ q.space = s
  BY DEF NoRequest, Request, Phases, Roles, Codes
<1>2. RequestOK(q)
  BY <1>1 DEF RequestOK, Codes
<1>3. Start(r, q) /\ req \in [Requests -> Request]
  BY DEF BeginKick, RequestsOK
<1> HIDE DEF q
<1>. QED  BY <1>1, <1>2, <1>3, StartBegun DEF Begun

LEMMA BeginChangeStarts ==
    ASSUME RequestsOK, NEW r \in Requests, NEW u \in Users, NEW t \in Users, NEW s \in Spaces, NEW new \in {"member", "admin"},
           BeginChange(r, s, u, t, new)
    PROVE  /\ Others(r) /\ req' \in [Requests -> Request] /\ RequestOK(req'[r])
           /\ req'[r].pc = "current" /\ req'[r].actor = u
           /\ req'[r].target = t /\ req'[r].space = s /\ req'[r].new = new
<1> DEFINE q == [NoRequest EXCEPT !.pc = "current", !.actor = u, !.target = t,
                           !.space = s, !.new = new]
<1>1. q \in Request /\ q.pc = "current" /\ q.actor = u /\ q.target = t /\ q.space = s /\ q.new = new
  BY DEF NoRequest, Request, Phases, Roles, Codes
<1>2. RequestOK(q)
  BY <1>1 DEF RequestOK, Codes
<1>3. Start(r, q) /\ req \in [Requests -> Request]
  BY DEF BeginChange, RequestsOK
<1> HIDE DEF q
<1>. QED  BY <1>1, <1>2, <1>3, StartBegun DEF Begun

LEMMA BeginInviteStarts ==
    ASSUME RequestsOK, NEW r \in Requests, NEW u \in Users, NEW s \in Spaces,
           BeginInvite(r, s, u)
    PROVE  /\ Others(r) /\ req' \in [Requests -> Request] /\ RequestOK(req'[r])
           /\ req'[r].pc = "issue" /\ req'[r].actor = u /\ req'[r].space = s
<1> DEFINE q == [NoRequest EXCEPT !.pc = "issue", !.actor = u, !.space = s]
<1>1. q \in Request /\ q.pc = "issue" /\ q.actor = u /\ q.space = s
  BY DEF NoRequest, Request, Phases, Roles, Codes
<1>2. RequestOK(q)
  BY <1>1 DEF RequestOK, Codes
<1>3. Start(r, q) /\ req \in [Requests -> Request]
  BY DEF BeginInvite, RequestsOK
<1> HIDE DEF q
<1>. QED  BY <1>1, <1>2, <1>3, StartBegun DEF Begun

LEMMA BeginRevocationStarts ==
    ASSUME RequestsOK, NEW r \in Requests, NEW u \in Users, NEW i \in Invites,
           BeginRevocation(r, i, u)
    PROVE  /\ Others(r) /\ req' \in [Requests -> Request] /\ RequestOK(req'[r])
           /\ req'[r].pc = "revoke" /\ req'[r].actor = u /\ req'[r].code = i
<1> DEFINE q == [NoRequest EXCEPT !.pc = "revoke", !.actor = u, !.code = i]
<1>1. q \in Request /\ q.pc = "revoke" /\ q.actor = u /\ q.code = i
  BY DEF NoRequest, Request, Phases, Roles, Codes
<1>2. RequestOK(q)
  BY <1>1 DEF RequestOK, Codes
<1>3. Start(r, q) /\ req \in [Requests -> Request]
  BY DEF BeginRevocation, RequestsOK
<1> HIDE DEF q
<1>. QED  BY <1>1, <1>2, <1>3, StartBegun DEF Begun

LEMMA FindInviteStarts ==
    ASSUME RequestsOK, NEW r \in Requests, NEW u \in Users, NEW i \in Invites, invites[i].space \in Spaces,
           FindInvite(r, i, u)
    PROVE  /\ Others(r) /\ req' \in [Requests -> Request] /\ RequestOK(req'[r])
           /\ req'[r].pc = "space?" /\ req'[r].actor = u
           /\ req'[r].code = i /\ req'[r].space = invites[i].space
<1> DEFINE q == [NoRequest EXCEPT !.pc = "space?", !.actor = u, !.code = i,
                           !.space = invites[i].space]
<1>1. q \in Request /\ q.pc = "space?" /\ q.actor = u /\ q.code = i /\ q.space = invites[i].space
  BY DEF NoRequest, Request, Phases, Roles, Codes
<1>2. RequestOK(q)
  BY <1>1 DEF RequestOK, Codes
<1>3. Start(r, q) /\ req \in [Requests -> Request]
  BY DEF FindInvite, RequestsOK
<1> HIDE DEF q
<1>. QED  BY <1>1, <1>2, <1>3, StartBegun DEF Begun

\* A token that expires leaves everything else as it is.
Stepping == \E r \in Requests : Step(r)
Expiring == \E u \in Users, t \in Requests : TokenExpires(u, t)
untouched == <<users, admins, verified, spaces, role, invites, req, admitted, lost, raced, adminLeft>>

LEMMA NextSteps == [Next]_mvars => Stepping \/ UNCHANGED untouched
<1>1. UNCHANGED mvars => UNCHANGED untouched
  BY DEF mvars, untouched
<1>2. ASSUME NEW u \in Users, NEW t \in Requests, TokenExpires(u, t)
      PROVE  UNCHANGED untouched
  BY <1>2 DEF TokenExpires, inviteVars, untouched
<1>. QED  BY <1>1, <1>2 DEF Next, Stepping

LEMMA NextTokens == [Next]_mvars => Stepping \/ Expiring \/ UNCHANGED <<tokens, stuck>>
BY DEF Next, Stepping, Expiring, mvars

\* Where a step leads, and from which action a request has its phase.
Goes(r, phases) ==
    /\ Others(r) /\ req' \in [Requests -> Request] /\ RequestOK(req'[r])
    /\ req'[r].pc \in phases
Arrives(r) ==
    /\ Others(r) /\ req' \in [Requests -> Request] /\ RequestOK(req'[r])
    /\ \/ req'[r].pc \in {"idle", "done", "defaults", "space", "revoke", "close"}
       \/ req'[r].pc = "count" /\ Register(r)
       \/ req'[r].pc = "user" /\ CountIsZero(r)
       \/ req'[r].pc = "use" /\ RegisterUser(r)
       \/ req'[r].pc = "token" /\ (RegisterUser(r) \/ CountUse(r) \/ PurgeTokens(r))
       \/ req'[r].pc = "verify" /\ VerifyEmail(r)
       \/ req'[r].pc = "consume" /\ MarkVerified(r)
       \/ req'[r].pc = "purge" /\ ResendVerification(r)
       \/ req'[r].pc = "owner" /\ StoreSpace(r)
       \/ req'[r].pc = "target" /\ KickMember(r)
       \/ req'[r].pc = "actor" /\ ReadTargetRole(r)
       \/ req'[r].pc = "kick" /\ (ReadTargetRole(r) \/ ReadActorRole(r))
       \/ req'[r].pc = "current" /\ ChangeMemberRole(r)
       \/ req'[r].pc = "change" /\ ReadCurrentRole(r)
       \/ req'[r].pc = "issue" /\ CreateInvite(r)
       \/ req'[r].pc = "space?" /\ JoinViaInvite(r)
       \/ req'[r].pc = "join" /\ CheckJoin(r)
       \/ req'[r].pc = "spend" /\ JoinSpace(r)

LEMMA GotoGoes ==
    ASSUME RequestsOK, NEW r \in Requests, NEW phase \in Phases, Goto(r, phase),
           \/ phase = "done"
           \/ req[r].pc = "count" /\ phase = "user"
           \/ req[r].pc = "user" /\ phase = "use" /\ req[r].code # Bootstrap
           \/ req[r].pc \in {"user", "use", "purge"} /\ phase = "token"
           \/ req[r].pc = "verify" /\ phase = "consume"
           \/ req[r].pc = "owner" /\ phase = "defaults"
           \/ req[r].pc = "actor" /\ phase = "kick"
           \/ req[r].pc = "current" /\ phase = "change"
           \/ req[r].pc = "space?" /\ phase = "join"
           \/ req[r].pc = "join" /\ phase = "spend"
    PROVE  Goes(r, {phase}) /\ Onward(r, phase)
BY GotoOnward, OnwardOK DEF RequestsOK, Goes, Onward

LEMMA AccountingArrives ==
    ASSUME RequestsOK, NEW r \in Requests, Accounting(r)
    PROVE  Arrives(r)
<1> USE DEF At
<1>0. RequestOK(req[r]) /\ req \in [Requests -> Request] /\ req[r] \in Request
  BY DEF RequestsOK
<1>1. CASE Register(r)
  BY <1>1, CheckCodeStarts DEF Register, Arrives
<1>2. CASE CountIsZero(r)
  <2> DEFINE first == (CountUsers = 0)
  <2>0. first \in BOOLEAN /\ req' = [req EXCEPT ![r].pc = "user", ![r].first = first]
    BY <1>2 DEF CountIsZero
  <2> HIDE DEF first
  <2>1. req' = [req EXCEPT ![r] = [req[r] EXCEPT !.pc = "user", !.first = first]]
    BY <1>0, <2>0
  <2>2. RequestOK([req[r] EXCEPT !.pc = "user", !.first = first])
    <3>1. [req[r] EXCEPT !.pc = "user", !.first = first] \in Request
      BY <1>0, <2>0 DEF Request, Phases
    <3>. QED  BY <1>0, <1>2, <3>1 DEF CountIsZero, RequestOK, Request
  <2>3. req'[r].pc = "user"
    BY <1>0, <2>1 DEF Request
  <2>. QED  BY <1>0, <1>2, <2>1, <2>2, <2>3 DEF Arrives, Others, RequestOK
<1>3. CASE RegisterUser(r)
  <2>1. Goes(r, {"token"}) \/ Goes(r, {"use"})
    BY <1>3, GotoGoes DEF RegisterUser, Phases, RequestsOK
  <2>. QED  BY <1>3, <2>1 DEF Arrives, Goes
<1>4. CASE CountUse(r)
  <2>1. Goes(r, {"token"}) \/ Goes(r, {"done"})
    BY <1>4, GotoGoes DEF CountUse, Phases, RequestsOK
  <2>. QED  BY <1>4, <2>1 DEF Arrives, Goes
<1>5. CASE StoreToken(r) \/ ConsumeToken(r)
  <2>1. Goes(r, {"done"})
    BY <1>5, GotoGoes DEF StoreToken, ConsumeToken, Phases, RequestsOK
  <2>. QED  BY <2>1 DEF Arrives, Goes
<1>6. CASE VerifyEmail(r)
  BY <1>6, FindTokenStarts DEF VerifyEmail, Arrives
<1>7. CASE MarkVerified(r)
  <2>1. Goes(r, {"consume"})
    BY <1>7, GotoGoes DEF MarkVerified, Phases, RequestsOK
  <2>. QED  BY <1>7, <2>1 DEF Arrives, Goes
<1>8. CASE ResendVerification(r)
  BY <1>8, FindUnverifiedStarts DEF ResendVerification, Arrives
<1>9. CASE PurgeTokens(r)
  <2>1. Goes(r, {"token"})
    BY <1>9, GotoGoes DEF PurgeTokens, Phases, RequestsOK
  <2>. QED  BY <1>9, <2>1 DEF Arrives, Goes
<1>10. CASE DeleteCurrentUser(r)
  <2>1. PICK u \in Users : Start(r, [NoRequest EXCEPT !.pc = "done", !.actor = u])
    BY <1>10 DEF DeleteCurrentUser, Active
  <2>2. /\ [NoRequest EXCEPT !.pc = "done", !.actor = u] \in Request
        /\ [NoRequest EXCEPT !.pc = "done", !.actor = u].pc = "done"
    BY DEF NoRequest, Request, Phases
  <2>3. RequestOK([NoRequest EXCEPT !.pc = "done", !.actor = u])
    BY <2>2 DEF RequestOK
  <2>. QED  BY <1>0, <2>1, <2>2, <2>3, StartBegun DEF Begun, Arrives
<1>. QED  BY <1>1, <1>2, <1>3, <1>4, <1>5, <1>6, <1>7, <1>8, <1>9, <1>10 DEF Accounting

LEMMA GoverningArrives ==
    ASSUME RequestsOK, SpacesOK, NEW r \in Requests, Governing(r)
    PROVE  Arrives(r)
<1> USE DEF At, Known
<1>0. RequestOK(req[r]) /\ req \in [Requests -> Request] /\ req[r] \in Request
  BY DEF RequestsOK
<1>1. CASE CreateSpace(r)
  <2>1. PICK u \in Users : Start(r, [NoRequest EXCEPT !.pc = "space", !.actor = u])
    BY <1>1 DEF CreateSpace
  <2>2. /\ [NoRequest EXCEPT !.pc = "space", !.actor = u] \in Request
        /\ [NoRequest EXCEPT !.pc = "space", !.actor = u].pc = "space"
        /\ [NoRequest EXCEPT !.pc = "space", !.actor = u].actor = u
    BY DEF NoRequest, Request, Phases
  <2>3. RequestOK([NoRequest EXCEPT !.pc = "space", !.actor = u])
    BY <2>2 DEF RequestOK
  <2>. QED  BY <1>0, <2>1, <2>2, <2>3, StartBegun DEF Begun, Arrives
<1>2. CASE StoreSpace(r)
  <2>1. PICK s \in Spaces : req' = [req EXCEPT ![r].pc = "owner", ![r].space = s]
    BY <1>2 DEF StoreSpace
  <2>2. req' = [req EXCEPT ![r] = [req[r] EXCEPT !.pc = "owner", !.space = s]]
    BY <1>0, <2>1
  <2> DEFINE next == [req[r] EXCEPT !.pc = "owner", !.space = s]
  <2>a. req[r].actor \in Users
    BY <1>0, <1>2 DEF StoreSpace, RequestOK
  <2>b. next \in Request
    <3>1. req[r] \in Request /\ "owner" \in Phases
      BY <1>0 DEF Phases
    <3>. QED  BY <3>1 DEF Request
  <2>c. next.pc = "owner" /\ next.space = s /\ next.actor = req[r].actor
    <3>1. req[r] \in Request
      BY <1>0
    <3>. QED  BY <3>1 DEF Request
  <2>3. RequestOK(next)
    <3> HIDE DEF next
    <3> QED
      BY <2>a, <2>b, <2>c DEF RequestOK
  <2>4. req'[r].pc = "owner"
    BY <1>0, <2>1 DEF Request
  <2>. QED  BY <1>0, <1>2, <2>2, <2>3, <2>4 DEF Arrives, Others, RequestOK
<1>3. CASE StoreOwner(r)
  <2>1. Goes(r, {"defaults"})
    BY <1>3, GotoGoes DEF StoreOwner, Phases, RequestsOK
  <2>. QED  BY <2>1 DEF Arrives, Goes
<1>4. CASE EndCreateSpace(r) \/ CloseSpace(r) \/ AdminDeleteSpace(r) \/ KickOut(r) \/ ChangeRole(r)
  <2>1. Goes(r, {"done"})
    BY <1>4, GotoGoes
       DEF EndCreateSpace, CloseSpace, AdminDeleteSpace, KickOut, ChangeRole, Phases, RequestsOK
  <2>. QED  BY <2>1 DEF Arrives, Goes
<1>5. CASE DeleteSpace(r)
  BY <1>5, BeginDeleteStarts DEF DeleteSpace, Arrives
<1>6. CASE KickMember(r)
  BY <1>6, BeginKickStarts DEF KickMember, Arrives
<1>7. CASE ReadTargetRole(r)
  <2> DEFINE ro == GetUserSpaceRole(req[r].space, req[r].target)
             next == IF req[r].actor \in admins THEN "kick" ELSE "actor"
  <2>1. req' = [req EXCEPT ![r] = [req[r] EXCEPT !.seen = ro, !.pc = next]]
    BY <1>0, <1>7 DEF ReadTargetRole
  <2>2. next \in {"kick", "actor"} /\ ro \notin {"none", "owner"}
    BY <1>7 DEF ReadTargetRole
  <2> HIDE DEF ro, next
  <2>3. ro \in Roles => RequestOK([req[r] EXCEPT !.seen = ro, !.pc = next])
    BY <1>0, <1>7, <2>2 DEF ReadTargetRole, RequestOK, Request, Phases, Roles
  <2>4. req'[r].pc = next
    BY <1>0, <2>1 DEF Request
  <2>5. ro \in Roles
    BY <1>0, <1>7, <2>2 DEF ReadTargetRole, GetUserSpaceRole, SpacesOK, RequestOK, ro
  <2>. QED  BY <1>0, <1>7, <2>1, <2>2, <2>3, <2>4, <2>5 DEF Arrives, Others, RequestOK
<1>8. CASE ReadActorRole(r)
  <2>1. Goes(r, {"kick"})
    BY <1>8, GotoGoes DEF ReadActorRole, Phases, RequestsOK
  <2>. QED  BY <1>8, <2>1 DEF Arrives, Goes
<1>9. CASE ChangeMemberRole(r)
  BY <1>9, BeginChangeStarts DEF ChangeMemberRole, Arrives
<1>10. CASE ReadCurrentRole(r)
  <2>1. Goes(r, {"change"})
    BY <1>10, GotoGoes DEF ReadCurrentRole, Phases, RequestsOK
  <2>. QED  BY <1>10, <2>1 DEF Arrives, Goes
<1>. QED  BY <1>1, <1>2, <1>3, <1>4, <1>5, <1>6, <1>7, <1>8, <1>9, <1>10 DEF Governing

LEMMA InvitingArrives ==
    ASSUME RequestsOK, InvitesOK, NEW r \in Requests, Inviting(r)
    PROVE  Arrives(r)
<1> USE DEF At, Known
<1>1. CASE CreateInvite(r)
  BY <1>1, BeginInviteStarts DEF CreateInvite, Arrives
<1>2. CASE IssueInvite(r) \/ StoreRevocation(r) \/ AdminRevokeInvite(r)
  <2>1. Goes(r, {"done"})
    BY <1>2, GotoGoes DEF IssueInvite, StoreRevocation, AdminRevokeInvite, Phases, RequestsOK
  <2>. QED  BY <2>1 DEF Arrives, Goes
<1>3. CASE RevokeInvite(r)
  BY <1>3, BeginRevocationStarts DEF RevokeInvite, Arrives
<1>4. CASE JoinViaInvite(r)
  <2>1. PICK i \in Invites, u \in Users : FindInvite(r, i, u)
    BY <1>4 DEF JoinViaInvite
  <2>2. invites[i].space \in Spaces
    BY <2>1 DEF FindInvite, GetInviteByCode, InvitesOK, Invite
  <2>. QED  BY <1>4, <2>1, <2>2, FindInviteStarts DEF Arrives
<1>5. CASE CheckJoin(r)
  <2>1. Goes(r, {"join"})
    BY <1>5, GotoGoes DEF CheckJoin, Phases, RequestsOK
  <2>. QED  BY <1>5, <2>1 DEF Arrives, Goes
<1>6. CASE JoinSpace(r)
  <2>1. Goes(r, {"spend"})
    BY <1>6, GotoGoes DEF JoinSpace, Phases, RequestsOK
  <2>. QED  BY <1>6, <2>1 DEF Arrives, Goes
<1>. QED  BY <1>1, <1>2, <1>3, <1>4, <1>5, <1>6 DEF Inviting

LEMMA StepArrives ==
    ASSUME Types, NEW r \in Requests, Step(r)
    PROVE  Arrives(r)
<1>1. CASE Refused(r)
  <2>1. Goes(r, {"done"})
    BY <1>1, GotoGoes DEF Refused, Phases, Types
  <2>. QED  BY <2>1 DEF Arrives, Goes
<1>. QED  BY <1>1, AccountingArrives, GoverningArrives, InvitingArrives DEF Step, Types

\* Which steps write what.
LEMMA Writers ==
    ASSUME NEW r \in Requests, Step(r)
    PROVE  /\ StoreOwner(r) \/ KickOut(r) \/ ChangeRole(r) \/ JoinSpace(r) \/ role' = role
           /\ KickOut(r) \/ ChangeRole(r) \/ raced' = raced
           /\ StoreSpace(r) \/ CloseSpace(r) \/ AdminDeleteSpace(r) \/ spaces' = spaces
           /\ \/ CountUse(r) \/ IssueInvite(r) \/ StoreRevocation(r) \/ AdminRevokeInvite(r)
              \/ invites' = invites
           /\ RegisterUser(r) \/ JoinSpace(r) \/ admitted' = admitted
           /\ CountUse(r) \/ lost' = lost
           /\ RegisterUser(r) \/ DeleteCurrentUser(r) \/ users' = users
           /\ RegisterUser(r) \/ admins' = admins
           /\ MarkVerified(r) \/ verified' = verified
           /\ StoreToken(r) \/ ConsumeToken(r) \/ PurgeTokens(r) \/ tokens' = tokens
           /\ StoreToken(r) \/ stuck' = stuck
           /\ DeleteCurrentUser(r) \/ adminLeft' = adminLeft
<1> USE DEF rows, accountVars, inviteVars
<1>1. CASE Accounting(r)
  BY <1>1 DEF Accounting, Register, CheckCode, CountIsZero, RegisterUser, CountUse, StoreToken,
              VerifyEmail, FindToken, MarkVerified, ConsumeToken, ResendVerification,
              FindUnverified, PurgeTokens, DeleteCurrentUser
<1>2. CASE Governing(r)
  BY <1>2 DEF Governing, CreateSpace, StoreSpace, StoreOwner, EndCreateSpace, DeleteSpace,
              BeginDelete, CloseSpace, AdminDeleteSpace, KickMember, BeginKick, ReadTargetRole,
              ReadActorRole, KickOut, ChangeMemberRole, BeginChange, ReadCurrentRole, ChangeRole
<1>3. CASE Inviting(r)
  BY <1>3 DEF Inviting, CreateInvite, BeginInvite, IssueInvite, RevokeInvite, BeginRevocation,
              StoreRevocation, AdminRevokeInvite, JoinViaInvite, FindInvite, CheckJoin, JoinSpace
<1>4. CASE Refused(r)
  BY <1>4 DEF Refused
<1>. QED  BY <1>1, <1>2, <1>3, <1>4 DEF Step
--------------------------------------------------------------------------------
(***************************************************************************)
(* Types.                                                                  *)
(***************************************************************************)
LEMMA AccountsType ==
    ASSUME Types, NEW r \in Requests, Step(r)
    PROVE  AccountsOK'
<1> USE DEF At, AccountsOK
<1>0. RequestOK(req[r]) /\ AccountsOK
  BY DEF Types, RequestsOK
<1>1. users' \in [Users -> {"absent", "active", "deleted"}]
  BY <1>0, Writers DEF RegisterUser, CreateUser, DeleteCurrentUser, SoftDeleteUser
<1>2. admins' \subseteq Users
  BY <1>0, Writers DEF RegisterUser, CreateUser, RequestOK
<1>3. verified' \subseteq Users
  BY <1>0, Writers DEF MarkVerified, VerifyUserEmail, Active
<1>4. tokens' \in [Users -> SUBSET Requests]
  BY <1>0, Writers DEF StoreToken, ConsumeToken, PurgeTokens, CreateEmailVerification,
                       DeleteEmailVerification, DeleteUserEmailVerifications, RequestOK
<1>5. stuck' \subseteq Users
  <2>1. CASE StoreToken(r)
    BY <1>0, <2>1 DEF StoreToken, RequestOK
  <2>. QED  BY <1>0, <2>1, Writers
<1>6. adminLeft' \in BOOLEAN
  <2>1. CASE DeleteCurrentUser(r)
    BY <2>1 DEF DeleteCurrentUser
  <2>. QED  BY <1>0, <2>1, Writers
<1>. QED  BY <1>1, <1>2, <1>3, <1>4, <1>5, <1>6

LEMMA SpacesType ==
    ASSUME Types, NEW r \in Requests, Step(r)
    PROVE  SpacesOK'
<1> USE DEF At, SpacesOK
<1>0. RequestOK(req[r]) /\ SpacesOK
  BY DEF Types, RequestsOK
<1>1. spaces' \in [Spaces -> Space]
  <2>1. CASE StoreSpace(r)
    BY <1>0, <2>1 DEF StoreSpace, InsertSpace, Space, RequestOK
  <2>2. CASE CloseSpace(r) \/ AdminDeleteSpace(r)
    <3>1. PICK s \in Spaces : SoftDeleteSpace(s)
      BY <1>0, <2>2 DEF CloseSpace, AdminDeleteSpace, RequestOK
    <3>2. [spaces[s] EXCEPT !.live = FALSE] \in Space
      BY <1>0 DEF Space
    <3>. QED  BY <1>0, <3>1, <3>2 DEF SoftDeleteSpace
  <2>. QED  BY <1>0, <2>1, <2>2, Writers
<1>2. role' \in [Spaces -> [Users -> Roles \cup {"none"}]]
  <2>1. CASE StoreOwner(r) \/ JoinSpace(r)
    <3>1. PICK ro \in Roles : CreateMembership(req[r].space, req[r].actor, ro)
      BY <2>1 DEF StoreOwner, JoinSpace, Roles
    <3>2. req[r].space \in Spaces /\ req[r].actor \in Users
      BY <1>0, <2>1 DEF StoreOwner, JoinSpace, RequestOK
    <3>. QED  BY <1>0, <3>1, <3>2 DEF CreateMembership
  <2>2. CASE KickOut(r)
    BY <1>0, <2>2 DEF KickOut, DeleteMembership, Roles, RequestOK
  <2>3. CASE ChangeRole(r)
    BY <1>0, <2>3 DEF ChangeRole, UpdateMembershipRole, Roles, RequestOK
  <2>. QED  BY <1>0, <2>1, <2>2, <2>3, Writers
<1>3. raced' \subseteq Requests
  BY <1>0, Writers DEF KickOut, ChangeRole, Overlapping
<1>. QED  BY <1>1, <1>2, <1>3

LEMMA InvitesType ==
    ASSUME Types, NEW r \in Requests, Step(r)
    PROVE  InvitesOK'
<1> USE DEF At, InvitesOK
<1>0. RequestOK(req[r]) /\ InvitesOK
  BY DEF Types, RequestsOK
<1>1. invites' \in [Invites -> Invite]
  <2>1. CASE CountUse(r)
    <3>1. req[r].code \in Invites
      BY <1>0, <2>1 DEF CountUse, RequestOK
    <3>2. invites' = invites \/ invites' = [invites EXCEPT ![req[r].code].uses = @ + 1]
      BY <2>1 DEF CountUse, IncrementInviteUses
    <3>3. [invites[req[r].code] EXCEPT !.uses = @ + 1] \in Invite
      BY <1>0, <3>1 DEF Invite
    <3>. QED  BY <1>0, <3>1, <3>2, <3>3
  <2>2. CASE IssueInvite(r)
    <3>1. PICK i \in Invites : InsertInvite(i, req[r].space, req[r].actor)
      BY <2>2 DEF IssueInvite
    <3>2. [NoInvite EXCEPT !.space = req[r].space, !.by = req[r].actor] \in Invite
      BY <1>0, <2>2 DEF IssueInvite, NoInvite, Invite, RequestOK
    <3>. QED  BY <1>0, <3>1, <3>2 DEF InsertInvite
  <2>3. CASE StoreRevocation(r) \/ AdminRevokeInvite(r)
    <3>1. PICK i \in Invites : MarkRevoked(i)
      BY <1>0, <2>3 DEF StoreRevocation, AdminRevokeInvite, RequestOK
    <3>. QED  BY <1>0, <3>1 DEF MarkRevoked, Invite
  <2>. QED  BY <1>0, <2>1, <2>2, <2>3, Writers
<1>2. admitted' \in [Invites -> Nat]
  BY <1>0, Writers DEF RegisterUser, JoinSpace, RequestOK, Codes
<1>3. lost' \in [Invites -> Nat]
  BY <1>0, Writers DEF CountUse, RequestOK
<1>. QED  BY <1>1, <1>2, <1>3

LEMMA NextType ==
    ASSUME Types, [Next]_mvars
    PROVE  Types'
<1>1. ASSUME NEW r \in Requests, Step(r)
      PROVE  Types'
  <2>1. Arrives(r)
    BY <1>1, StepArrives
  <2>2. RequestsOK'
    BY <2>1 DEF Arrives, Others, Types, RequestsOK
  <2>. QED  BY <1>1, <2>2, AccountsType, SpacesType, InvitesType DEF Types
<1>2. CASE UNCHANGED untouched /\ UNCHANGED <<tokens, stuck>>
  BY <1>2 DEF untouched, Types, RequestsOK, AccountsOK, SpacesOK, InvitesOK
<1>3. ASSUME NEW u \in Users, NEW t \in Requests, TokenExpires(u, t), UNCHANGED untouched
      PROVE  Types'
  <2>1. tokens' \in [Users -> SUBSET Requests] /\ stuck' \subseteq Users
    BY <1>3 DEF TokenExpires, DeleteEmailVerification, Types, AccountsOK
  <2>. QED  BY <1>3, <2>1 DEF untouched, Types, RequestsOK, AccountsOK, SpacesOK, InvitesOK
<1>. QED  BY <1>1, <1>2, <1>3, NextSteps, NextTokens DEF Stepping, Expiring

LEMMA InitType == Init => Types
<1> SUFFICES ASSUME Init PROVE Types
  OBVIOUS
<1>1. NoRequest \in Request /\ RequestOK(NoRequest) /\ NoInvite \in Invite
  BY DEF NoRequest, RequestOK, Request, Phases, NoInvite, Invite
<1>2. RequestsOK
  BY <1>1 DEF Init, RequestsOK
<1>3. CASE Fresh
  BY <1>1, <1>2, <1>3 DEF Init, Fresh, Types, AccountsOK, SpacesOK, InvitesOK, Space, Invite
<1>4. CASE Settled
  <2>0. PICK founder \in Users, s0 \in Spaces, issued \in SUBSET Invites, used \in {0, MaxUses} :
          \E others \in SUBSET (Users \ {founder}) :
            /\ users = [u \in Users |-> IF u \in others \cup {founder} THEN "active" ELSE "absent"]
            /\ admins = {founder} /\ verified = others \cup {founder}
            /\ spaces = [s \in Spaces |-> IF s = s0 THEN [owner |-> founder, live |-> TRUE]
                                                    ELSE [owner |-> NoUser, live |-> FALSE]]
            /\ \/ used = 0 /\ role = [s \in Spaces |-> [u \in Users |-> "none"]]
               \/ \E ro \in [others -> {"none", "member", "admin"}] :
                    /\ used <= Cardinality({u \in others : ro[u] = "member"})
                    /\ role = [s \in Spaces |-> [u \in Users |->
                                 IF s # s0 THEN "none"
                                 ELSE IF u = founder THEN "owner"
                                 ELSE IF u \in others THEN ro[u] ELSE "none"]]
            /\ invites = [i \in Invites |-> IF i \in issued
                                              THEN [NoInvite EXCEPT !.space = s0, !.by = founder, !.uses = used]
                                              ELSE NoInvite]
    BY <1>4 DEF Settled
  <2>1. PICK others \in SUBSET (Users \ {founder}) :
        /\ users = [u \in Users |-> IF u \in others \cup {founder} THEN "active" ELSE "absent"]
        /\ admins = {founder} /\ verified = others \cup {founder}
        /\ spaces = [s \in Spaces |-> IF s = s0 THEN [owner |-> founder, live |-> TRUE]
                                                ELSE [owner |-> NoUser, live |-> FALSE]]
        /\ \/ used = 0 /\ role = [s \in Spaces |-> [u \in Users |-> "none"]]
           \/ \E ro \in [others -> {"none", "member", "admin"}] :
                /\ used <= Cardinality({u \in others : ro[u] = "member"})
                /\ role = [s \in Spaces |-> [u \in Users |->
                             IF s # s0 THEN "none"
                             ELSE IF u = founder THEN "owner"
                             ELSE IF u \in others THEN ro[u] ELSE "none"]]
        /\ invites = [i \in Invites |-> IF i \in issued
                                          THEN [NoInvite EXCEPT !.space = s0, !.by = founder, !.uses = used]
                                          ELSE NoInvite]
    BY <2>0
  <2>2. AccountsOK
    BY <2>1 DEF Init, AccountsOK
  <2>3. SpacesOK
    <3>1. spaces \in [Spaces -> Space]
      BY <2>0, <2>1 DEF Space
    <3>2. CASE role = [s \in Spaces |-> [u \in Users |-> "none"]]
      BY <3>1, <3>2 DEF Init, SpacesOK, Roles
    <3>3. ASSUME NEW ro \in [others -> {"none", "member", "admin"}],
                 role = [s \in Spaces |-> [u \in Users |->
                             IF s # s0 THEN "none"
                             ELSE IF u = founder THEN "owner"
                             ELSE IF u \in others THEN ro[u] ELSE "none"]]
          PROVE  SpacesOK
      BY <3>1, <3>3 DEF Init, SpacesOK, Roles
    <3>. QED  BY <2>1, <3>2, <3>3
  <2>4. [NoInvite EXCEPT !.space = s0, !.by = founder, !.uses = used] \in Invite
    <3>1. founder \in Users /\ s0 \in Spaces /\ used \in Nat
      BY <2>0, MembershipAssumption
    <3>. QED  BY <3>1 DEF NoInvite, Invite
  <2>5. InvitesOK
    BY <1>1, <2>1, <2>4 DEF Init, InvitesOK, Invite
  <2>. QED  BY <1>2, <2>2, <2>3, <2>5 DEF Types
<1>. QED  BY <1>3, <1>4 DEF Init

LEMMA TypesHold == Spec => []Types
<1>1. Types /\ [Next]_mvars => Types'
  BY NextType
<1>. QED  BY InitType, <1>1, PTL DEF Spec
--------------------------------------------------------------------------------
(***************************************************************************)
(* Rows.  What a step may do to a membership and to a space.               *)
(***************************************************************************)
LEMMA RowSteps ==
    ASSUME Types, NEW r \in Requests, Step(r), NEW s \in Spaces, NEW u \in Users,
           role'[s][u] # role[s][u]
    PROVE  /\ s = req[r].space
           /\ \/ /\ u = req[r].actor /\ role[s][u] = "none"
                 /\ \/ StoreOwner(r) /\ role'[s][u] = "owner"
                    \/ JoinSpace(r) /\ role'[s][u] = "member"
              \/ u = req[r].target /\ KickOut(r) /\ role'[s][u] = "none"
              \/ /\ u = req[r].target /\ ChangeRole(r)
                 /\ role[s][u] # "none" /\ role'[s][u] \in {"member", "admin"}
<1> USE DEF At
<1>0. RequestOK(req[r]) /\ role \in [Spaces -> [Users -> Roles \cup {"none"}]]
  BY DEF Types, RequestsOK, SpacesOK
<1>1. CASE StoreOwner(r)
  BY <1>0, <1>1 DEF StoreOwner, CreateMembership, RequestOK
<1>2. CASE JoinSpace(r)
  BY <1>0, <1>2 DEF JoinSpace, CreateMembership, RequestOK
<1>3. CASE KickOut(r)
  BY <1>0, <1>3 DEF KickOut, DeleteMembership, RequestOK
<1>4. CASE ChangeRole(r)
  BY <1>0, <1>4 DEF ChangeRole, UpdateMembershipRole, RequestOK
<1>. QED  BY <1>1, <1>2, <1>3, <1>4, Writers

LEMMA NewOwner ==
    ASSUME Types, NEW r \in Requests, Step(r), NEW s \in Spaces, NEW u \in Users,
           role'[s][u] = "owner", role[s][u] # "owner"
    PROVE  StoreOwner(r) /\ s = req[r].space /\ u = req[r].actor
BY RowSteps

\* The owner of a space is written once.
LEMMA SpaceSteps ==
    ASSUME Types, NEW r \in Requests, Step(r), NEW s \in Spaces
    PROVE  \/ spaces'[s].owner = spaces[s].owner
           \/ /\ StoreSpace(r) /\ spaces[s].owner = NoUser
              /\ req'[r].space = s /\ spaces'[s].owner = req[r].actor /\ req[r].actor \in Users
<1> USE DEF At
<1>0. RequestOK(req[r]) /\ spaces \in [Spaces -> Space] /\ req \in [Requests -> Request]
  BY DEF Types, RequestsOK, SpacesOK
<1>1. CASE StoreSpace(r)
  <2>1. PICK s0 \in Spaces : /\ InsertSpace(s0, req[r].actor)
                             /\ req' = [req EXCEPT ![r].pc = "owner", ![r].space = s0]
    BY <1>1 DEF StoreSpace
  <2>2. req'[r].space = s0
    BY <1>0, <2>1 DEF Request
  <2>3. req[r].actor \in Users
    BY <1>0, <1>1 DEF StoreSpace, RequestOK
  <2>. QED  BY <1>0, <1>1, <2>1, <2>2, <2>3 DEF InsertSpace
<1>2. CASE CloseSpace(r)
  BY <1>0, <1>2 DEF CloseSpace, SoftDeleteSpace, Space
<1>3. CASE AdminDeleteSpace(r)
  BY <1>0, <1>3 DEF AdminDeleteSpace, SoftDeleteSpace, Space
<1>. QED  BY <1>1, <1>2, <1>3, Writers

LEMMA HistoryGrows ==
    ASSUME NEW r \in Requests, Step(r)
    PROVE  admins \subseteq admins' /\ raced \subseteq raced'
BY Writers DEF KickOut, ChangeRole, RegisterUser, CreateUser
--------------------------------------------------------------------------------
(***************************************************************************)
(* Kicks and changes.  What such a request has read is still so, unless    *)
(* another changed the row meanwhile.                                      *)
(***************************************************************************)
Kicks == {"target", "actor", "kick"}
ActorRole(r) == role[req[r].space][req[r].actor]
TargetRole(r) == role[req[r].space][req[r].target]
HasRead(r) ==
    r \notin raced =>
        /\ req[r].pc \in Kicks => req[r].actor \in admins \/ ActorRole(r) \in {"admin", "owner"}
        /\ req[r].pc \in {"actor", "kick"} => TargetRole(r) = req[r].seen
        /\ req[r].pc = "change" => TargetRole(r) \in {"member", "admin"}
        /\ req[r].pc = "kick" =>
              req[r].actor \in admins \/ ~(ActorRole(r) = "admin" /\ req[r].seen = "admin")
KickInv == \A r \in Requests : HasRead(r)

\* A row that a request relies on changes only under a request that becomes raced.
LEMMA RowRead ==
    ASSUME Types, NEW r \in Requests, Step(r), NEW x \in Requests, x # r, x \notin raced',
           NEW u \in Users, req[x].space \in Spaces,
           \/ req[x].pc \in Kicks /\ u \in {req[x].actor, req[x].target}
           \/ req[x].pc = "change" /\ u = req[x].target
    PROVE  \/ role[req[x].space][u] = "none"
           \/ role'[req[x].space][u] = role[req[x].space][u]
<1> SUFFICES ASSUME role[req[x].space][u] # "none",
                    role'[req[x].space][u] # role[req[x].space][u]
             PROVE  FALSE
  OBVIOUS
<1>1. req[x].space = req[r].space /\ u = req[r].target /\ (KickOut(r) \/ ChangeRole(r))
  BY RowSteps
<1>2. x \in Overlapping(req[r].space, req[r].target)
  BY <1>1 DEF Overlapping, Kicks, At
<1>. QED  BY <1>1, <1>2 DEF KickOut, ChangeRole

LEMMA KickStep ==
    ASSUME Types, KickInv, NEW r \in Requests, Step(r)
    PROVE  KickInv'
<1> SUFFICES ASSUME NEW x \in Requests, x \notin raced' PROVE HasRead(x)'
  BY DEF KickInv, HasRead
<1> USE DEF At, Kicks
<1>0. /\ Arrives(r) /\ RequestOK(req[x]) /\ HasRead(x) /\ x \notin raced
      /\ admins \subseteq admins'
      /\ role \in [Spaces -> [Users -> Roles \cup {"none"}]]
      /\ req \in [Requests -> Request]
  BY StepArrives, HistoryGrows DEF Types, RequestsOK, SpacesOK, KickInv
<1>1. CASE x # r
  <2>1. req'[x] = req[x]
    BY <1>0, <1>1 DEF Arrives, Others
  <2>2. CASE req[x].pc \in Kicks
    <3>1. req[x].actor \in Users /\ req[x].target \in Users /\ req[x].space \in Spaces
      BY <1>0, <2>2 DEF RequestOK
    <3>2. ActorRole(x) = "none" \/ ActorRole(x)' = ActorRole(x)
      BY <1>1, <2>1, <2>2, <3>1, RowRead DEF ActorRole
    <3>3. TargetRole(x) = "none" \/ TargetRole(x)' = TargetRole(x)
      BY <1>1, <2>1, <2>2, <3>1, RowRead DEF TargetRole
    <3>4. req[x].pc \in {"actor", "kick"} => req[x].seen \in {"member", "admin"}
      BY <1>0 DEF RequestOK
    <3>. QED  BY <1>0, <2>1, <2>2, <3>2, <3>3, <3>4 DEF HasRead
  <2>3. CASE req[x].pc = "change"
    <3>1. req[x].target \in Users /\ req[x].space \in Spaces
      BY <1>0, <2>3 DEF RequestOK
    <3>2. TargetRole(x) = "none" \/ TargetRole(x)' = TargetRole(x)
      BY <1>1, <2>1, <2>3, <3>1, RowRead DEF TargetRole
    <3>. QED  BY <1>0, <2>1, <2>3, <3>2 DEF HasRead
  <2>. QED  BY <2>1, <2>2, <2>3 DEF HasRead
<1>2. CASE x = r
  <2>1. CASE req'[r].pc = "target" /\ KickMember(r)
    <3>1. PICK s \in Spaces, u \in Known, t \in Users : BeginKick(r, s, u, t)
      BY <2>1 DEF KickMember
    <3>2. req'[r].actor = u /\ req'[r].space = s
      BY <1>0, <3>1, BeginKickStarts DEF Types, Known
    <3>3. role' = role /\ admins' = admins
      BY <3>1 DEF BeginKick, rows, accountVars
    <3>4. u \in admins \/ role[s][u] \in {"admin", "owner"}
      BY <3>1 DEF BeginKick, CheckSpacePermission, HasMinRole, GetUserSpaceRole
    <3>. QED  BY <1>2, <2>1, <3>2, <3>3, <3>4 DEF HasRead, ActorRole
  <2>2. CASE req'[r].pc \in {"actor", "kick"} /\ ReadTargetRole(r)
    <3>1. role' = role /\ admins' = admins
      BY <2>2 DEF ReadTargetRole, rows, accountVars
    <3>2. /\ req'[r].actor = req[r].actor /\ req'[r].target = req[r].target
          /\ req'[r].space = req[r].space /\ req'[r].seen = TargetRole(r)
          /\ req'[r].pc = (IF req[r].actor \in admins THEN "kick" ELSE "actor")
      BY <1>0, <2>2 DEF ReadTargetRole, GetUserSpaceRole, TargetRole, Request
    <3>3. req[r].pc = "target"
      BY <2>2 DEF ReadTargetRole
    <3>. QED  BY <1>0, <1>2, <3>1, <3>2, <3>3 DEF HasRead, ActorRole, TargetRole
  <2>3. CASE req'[r].pc = "kick" /\ ReadActorRole(r)
    <3>1. role' = role /\ admins' = admins /\ req[r].pc = "actor"
      BY <2>3 DEF ReadActorRole, rows, accountVars
    <3>2. Onward(r, "kick")
      BY <1>0, <2>3, GotoOnward DEF ReadActorRole, Phases
    <3>3. ~(ActorRole(r) = "admin" /\ req[r].seen = "admin")
      BY <2>3 DEF ReadActorRole, GetUserSpaceRole, ActorRole
    <3>. QED  BY <1>0, <1>2, <3>1, <3>2, <3>3 DEF HasRead, ActorRole, TargetRole, Onward
  <2>4. CASE req'[r].pc = "change" /\ ReadCurrentRole(r)
    <3>1. role' = role
      BY <2>4 DEF ReadCurrentRole, rows
    <3>2. Onward(r, "change")
      BY <1>0, <2>4, GotoOnward DEF ReadCurrentRole, Phases
    <3>3. TargetRole(r) \in {"member", "admin"}
      BY <1>0, <1>2, <2>4 DEF ReadCurrentRole, GetUserSpaceRole, TargetRole, RequestOK, Roles
    <3>. QED  BY <1>2, <3>1, <3>2, <3>3 DEF HasRead, TargetRole, Onward
  <2>5. CASE req'[r].pc \notin {"target", "actor", "kick", "change"}
    BY <1>2, <2>5 DEF HasRead
  <2>. QED  BY <1>0, <2>1, <2>2, <2>3, <2>4, <2>5 DEF Arrives
<1>. QED  BY <1>1, <1>2
--------------------------------------------------------------------------------
(***************************************************************************)
(* Owners.  A space whose owner is not stored yet has none, and one        *)
(* request to store it.                                                    *)
(***************************************************************************)
Unowned(s, table) == \A u \in Users : table[s][u] # "owner"
OwnerInv ==
    /\ \A r \in Requests : req[r].pc = "owner" =>
          spaces[req[r].space].owner = req[r].actor /\ Unowned(req[r].space, role)
    /\ \A r, x \in Requests :
          req[r].pc = "owner" /\ req[x].pc = "owner" /\ req[r].space = req[x].space => r = x
    /\ \A s \in Spaces : spaces[s].owner = NoUser => Unowned(s, role)
    /\ \A s \in Spaces, u \in Users : role[s][u] = "owner" => spaces[s].owner = u

LEMMA OwnerStep ==
    ASSUME Types, OwnerInv, NEW r \in Requests, Step(r)
    PROVE  OwnerInv'
<1>0. Arrives(r) /\ \A x \in Requests : RequestOK(req[x])
  BY StepArrives DEF Types, RequestsOK
<1>1. ASSUME req'[r].pc = "owner"
      PROVE  /\ StoreSpace(r) /\ req'[r].space \in Spaces
             /\ spaces[req'[r].space].owner = NoUser
             /\ spaces'[req'[r].space].owner = req'[r].actor
  <2>1. StoreSpace(r)
    BY <1>0, <1>1 DEF Arrives
  <2>2. PICK s \in Spaces : /\ InsertSpace(s, req[r].actor)
                            /\ req' = [req EXCEPT ![r].pc = "owner", ![r].space = s]
    BY <2>1 DEF StoreSpace
  <2>3. req'[r].space = s /\ req'[r].actor = req[r].actor
    BY <2>2 DEF Types, RequestsOK, Request
  <2>. QED  BY <2>1, <2>2, <2>3 DEF InsertSpace, Types, SpacesOK
\* No owner appears but the one that is stored.
<1>2. ASSUME NEW s \in Spaces, Unowned(s, role), ~(StoreOwner(r) /\ s = req[r].space)
      PROVE  Unowned(s, role')
  BY <1>2, NewOwner DEF Unowned
<1>3. ASSUME NEW x \in Requests, req'[x].pc = "owner"
      PROVE  /\ spaces'[req'[x].space].owner = req'[x].actor
             /\ Unowned(req'[x].space, role')
  <2>1. CASE x = r
    <3>1. /\ StoreSpace(r) /\ req'[r].space \in Spaces
          /\ Unowned(req'[r].space, role)
          /\ spaces'[req'[r].space].owner = req'[r].actor
      BY <1>1, <1>3, <2>1 DEF OwnerInv
    <3>2. ~StoreOwner(r)
      BY <3>1 DEF StoreSpace, StoreOwner, At
    <3>3. role' = role
      BY <3>1 DEF StoreSpace
    <3>. QED  BY <2>1, <3>1, <3>3
  <2>2. CASE x # r
    <3>1. req'[x] = req[x]
      BY <1>0, <2>2 DEF Arrives, Others
    <3>2. /\ spaces[req[x].space].owner = req[x].actor /\ Unowned(req[x].space, role)
          /\ req[x].space \in Spaces /\ req[x].actor \in Users
      BY <1>0, <1>3, <3>1 DEF OwnerInv, RequestOK
    <3>3. spaces'[req[x].space].owner = req[x].actor
      BY <3>2, SpaceSteps, MembershipAssumption
    <3>4. ~(StoreOwner(r) /\ req[x].space = req[r].space)
      BY <1>3, <2>2, <3>1 DEF OwnerInv, StoreOwner, At
    <3>5. Unowned(req[x].space, role')
      BY <1>2, <3>2, <3>4
    <3>. QED  BY <3>1, <3>3, <3>5
  <2>. QED  BY <2>1, <2>2
<1>4. ASSUME NEW x \in Requests, NEW y \in Requests, x # y, req'[x].pc = "owner",
             req'[y].pc = "owner", req'[x].space = req'[y].space
      PROVE  FALSE
  <2>1. CASE x # r /\ y # r
    BY <1>0, <1>4, <2>1 DEF Arrives, Others, OwnerInv
  <2>2. ASSUME NEW z \in Requests, z # r, req'[z].pc = "owner", req'[r].pc = "owner",
               req'[z].space = req'[r].space
        PROVE  FALSE
    <3>1. req'[z] = req[z]
      BY <1>0, <2>2 DEF Arrives, Others
    <3>2. spaces[req[z].space].owner \in Users
      BY <1>0, <2>2, <3>1 DEF OwnerInv, RequestOK
    <3>. QED  BY <1>1, <2>2, <3>1, <3>2, MembershipAssumption
  <2>. QED  BY <1>4, <2>1, <2>2
<1>5. ASSUME NEW s \in Spaces, spaces'[s].owner = NoUser
      PROVE  Unowned(s, role')
  <2>1. spaces[s].owner = NoUser
    BY <1>5, SpaceSteps, MembershipAssumption
  <2>2. ~(StoreOwner(r) /\ s = req[r].space)
    BY <1>0, <2>1, MembershipAssumption DEF StoreOwner, At, OwnerInv, RequestOK
  <2>. QED  BY <1>2, <2>1, <2>2 DEF OwnerInv
<1>6. ASSUME NEW s \in Spaces, NEW u \in Users, role'[s][u] = "owner"
      PROVE  spaces'[s].owner = u
  <2>1. spaces[s].owner = u
    <3>1. CASE role[s][u] = "owner"
      BY <3>1 DEF OwnerInv
    <3>2. CASE role[s][u] # "owner"
      BY <1>6, <3>2, NewOwner DEF StoreOwner, At, OwnerInv
    <3>. QED  BY <3>1, <3>2
  <2>. QED  BY <2>1, SpaceSteps, MembershipAssumption
<1>. QED  BY <1>3, <1>4, <1>5, <1>6 DEF OwnerInv
--------------------------------------------------------------------------------
(***************************************************************************)
(* The rows the server starts with.                                        *)
(***************************************************************************)
LEMMA InitialRows ==
    ASSUME Init
    PROVE  /\ \A r \in Requests : req[r].pc = "idle"
           /\ \A s \in Spaces : spaces[s].owner = NoUser => \A u \in Users : role[s][u] = "none"
           /\ \A s \in Spaces, u \in Users :
                 role[s][u] # "none" => \E v \in Users : role[s][v] = "owner"
           /\ \A s \in Spaces, u \in Users : role[s][u] = "owner" => spaces[s].owner = u
           /\ \A i \in Invites :
                 /\ invites[i].space # NoSpace => invites[i].by \in admins
                 /\ invites[i].space = NoSpace => invites[i].uses = 0
                 /\ invites[i].uses <= MaxUses
           /\ Active = {} \/ admins \cap Active # {}
           /\ Active \subseteq verified
<1>1. \A r \in Requests : req[r].pc = "idle"
  BY DEF Init, NoRequest
<1>2. CASE Fresh
  BY <1>1, <1>2, MembershipAssumption DEF Fresh, Active, NoInvite
<1>3. CASE Settled
  <2>0. PICK founder \in Users, s0 \in Spaces, issued \in SUBSET Invites, used \in {0, MaxUses} :
          \E others \in SUBSET (Users \ {founder}) :
            /\ users = [u \in Users |-> IF u \in others \cup {founder} THEN "active" ELSE "absent"]
            /\ admins = {founder} /\ verified = others \cup {founder}
            /\ spaces = [s \in Spaces |-> IF s = s0 THEN [owner |-> founder, live |-> TRUE]
                                                    ELSE [owner |-> NoUser, live |-> FALSE]]
            /\ \/ used = 0 /\ role = [s \in Spaces |-> [u \in Users |-> "none"]]
               \/ \E ro \in [others -> {"none", "member", "admin"}] :
                    /\ used <= Cardinality({u \in others : ro[u] = "member"})
                    /\ role = [s \in Spaces |-> [u \in Users |->
                                 IF s # s0 THEN "none"
                                 ELSE IF u = founder THEN "owner"
                                 ELSE IF u \in others THEN ro[u] ELSE "none"]]
            /\ invites = [i \in Invites |-> IF i \in issued
                                              THEN [NoInvite EXCEPT !.space = s0, !.by = founder, !.uses = used]
                                              ELSE NoInvite]
    BY <1>3 DEF Settled
  <2>7. \/ role = [x \in Spaces |-> [u \in Users |-> "none"]]
        \/ \E others \in SUBSET (Users \ {founder}) :
            \E ro \in [others -> {"none", "member", "admin"}] :
             role = [x \in Spaces |-> [u \in Users |->
                       IF x # s0 THEN "none"
                       ELSE IF u = founder THEN "owner"
                       ELSE IF u \in others THEN ro[u] ELSE "none"]]
    BY <2>0
  <2>6. spaces[s0].owner = founder
    BY <2>0
  <2>1. ASSUME NEW s \in Spaces, s # s0
        PROVE  spaces[s].owner = NoUser /\ \A u \in Users : role[s][u] = "none"
    <3>1. spaces[s].owner = NoUser
      BY <2>0, <2>1
    <3>2. CASE role = [x \in Spaces |-> [u \in Users |-> "none"]]
      BY <3>1, <3>2
    <3>3. ASSUME NEW others, NEW ro,
                 role = [x \in Spaces |-> [u \in Users |->
                             IF x # s0 THEN "none"
                             ELSE IF u = founder THEN "owner"
                             ELSE IF u \in others THEN ro[u] ELSE "none"]]
          PROVE  \A u \in Users : role[s][u] = "none"
      BY <2>1, <3>3
    <3>. QED  BY <2>7, <3>1, <3>2, <3>3
  <2>2. \/ role[s0][founder] = "owner"
        \/ \A u \in Users : role[s0][u] = "none"
    <3>2. CASE role = [x \in Spaces |-> [u \in Users |-> "none"]]
      BY <3>2
    <3>3. ASSUME NEW others, NEW ro,
                 role = [x \in Spaces |-> [u \in Users |->
                             IF x # s0 THEN "none"
                             ELSE IF u = founder THEN "owner"
                             ELSE IF u \in others THEN ro[u] ELSE "none"]]
          PROVE  role[s0][founder] = "owner"
      BY <3>3
    <3>. QED  BY <2>7, <3>2, <3>3
  <2>8. ASSUME NEW u \in Users, role[s0][u] = "owner"
        PROVE  u = founder
    <3>1. role # [x \in Spaces |-> [v \in Users |-> "none"]]
      BY <2>8
    <3>2. ASSUME NEW others \in SUBSET (Users \ {founder}),
                 NEW ro \in [others -> {"none", "member", "admin"}],
                 role = [x \in Spaces |-> [v \in Users |->
                             IF x # s0 THEN "none"
                             ELSE IF v = founder THEN "owner"
                             ELSE IF v \in others THEN ro[v] ELSE "none"]]
          PROVE  u = founder
      BY <2>8, <3>2
    <3>. QED  BY <2>7, <3>1, <3>2
  <2>3. ASSUME NEW i \in Invites
        PROVE  /\ invites[i].space # NoSpace => invites[i].by \in admins
               /\ invites[i].space = NoSpace => invites[i].uses = 0
               /\ invites[i].uses <= MaxUses
    <3>1. used \in Nat /\ used <= MaxUses /\ s0 # NoSpace
      BY <2>0, MembershipAssumption
    <3>2. \/ invites[i] = NoInvite
          \/ invites[i] = [NoInvite EXCEPT !.space = s0, !.by = founder, !.uses = used]
      BY <2>0
    <3>3. founder \in admins
      BY <2>0
    <3>4. NoInvite.space = NoSpace /\ NoInvite.uses = 0 /\ 0 <= MaxUses
      BY MembershipAssumption DEF NoInvite
    <3>5. /\ [NoInvite EXCEPT !.space = s0, !.by = founder, !.uses = used].space = s0
          /\ [NoInvite EXCEPT !.space = s0, !.by = founder, !.uses = used].by = founder
          /\ [NoInvite EXCEPT !.space = s0, !.by = founder, !.uses = used].uses = used
      BY DEF NoInvite
    <3>. QED  BY <3>1, <3>2, <3>3, <3>4, <3>5
  <2>4. admins \cap Active # {} /\ Active \subseteq verified
    BY <2>0 DEF Active
  <2>5. founder # NoUser /\ founder \in Users
    BY MembershipAssumption
  <2>9. \A s \in Spaces, u \in Users : role[s][u] = "owner" => spaces[s].owner = u
    BY <2>1, <2>6, <2>8
  <2>. QED  BY <1>1, <2>6, <2>1, <2>2, <2>3, <2>4, <2>5, <2>9
<1>. QED  BY <1>2, <1>3 DEF Init

LEMMA KicksHold == Spec => []KickInv
<1>1. Init => KickInv
  BY InitialRows DEF KickInv, HasRead, Kicks
<1>2. Types /\ KickInv /\ [Next]_mvars => KickInv'
  <2>1. Types /\ KickInv /\ Stepping => KickInv'
    BY KickStep DEF Stepping
  <2>2. KickInv /\ UNCHANGED untouched => KickInv'
    BY DEF untouched, KickInv, HasRead, ActorRole, TargetRole
  <2>. QED  BY <2>1, <2>2, NextSteps
<1>. QED  BY TypesHold, <1>1, <1>2, PTL DEF Spec

LEMMA OwnersHold == Spec => []OwnerInv
<1>1. Init => OwnerInv
  BY InitialRows DEF OwnerInv, Unowned
<1>2. Types /\ OwnerInv /\ [Next]_mvars => OwnerInv'
  <2>1. Types /\ OwnerInv /\ Stepping => OwnerInv'
    BY OwnerStep DEF Stepping
  <2>2. OwnerInv /\ UNCHANGED untouched => OwnerInv'
    BY DEF untouched, OwnerInv, Unowned
  <2>. QED  BY <2>1, <2>2, NextSteps
<1>. QED  BY TypesHold, <1>1, <1>2, PTL DEF Spec
--------------------------------------------------------------------------------
\* What a step does to the owners of a space.
OwnersStep ==
    \A s \in Spaces :
       \/ Owners(s)' = Owners(s)
       \/ Owners(s) = {} /\ Owners(s)' = {spaces[s].owner}
       \/ \E r \in raced : /\ req[r].pc \in {"kick", "change"} /\ req[r].space = s
                           /\ Owners(s)' = Owners(s) \ {req[r].target}

LEMMA OwnersChange ==
    ASSUME Types, KickInv, OwnerInv, NEW r \in Requests, Step(r)
    PROVE  OwnersStep
<1> SUFFICES ASSUME NEW s \in Spaces, Owners(s)' # Owners(s)
             PROVE  \/ Owners(s) = {} /\ Owners(s)' = {spaces[s].owner}
                    \/ \E x \in raced : /\ req[x].pc \in {"kick", "change"} /\ req[x].space = s
                                        /\ Owners(s)' = Owners(s) \ {req[x].target}
  BY DEF OwnersStep
<1>0. RequestOK(req[r]) /\ HasRead(r)
  BY DEF Types, RequestsOK, KickInv
<1>1. PICK u \in Users : role'[s][u] # role[s][u] /\ "owner" \in {role'[s][u], role[s][u]}
  BY DEF Owners
<1>2. s = req[r].space
  BY <1>1, RowSteps
<1>3. CASE StoreOwner(r)
  <2>1. Unowned(s, role) /\ spaces[s].owner = req[r].actor /\ req[r].actor \in Users
    BY <1>0, <1>2, <1>3 DEF StoreOwner, At, OwnerInv, RequestOK
  <2>2. \A v \in Users : v # req[r].actor => role'[s][v] = role[s][v]
    BY <1>3, <1>2, RowSteps DEF StoreOwner, KickOut, ChangeRole, At
  <2>3. role'[s][req[r].actor] = "owner"
    BY <1>2, <1>3, <2>1 DEF StoreOwner, CreateMembership, Types, SpacesOK
  <2>. QED  BY <2>1, <2>2, <2>3 DEF Unowned, Owners
<1>4. CASE KickOut(r) \/ ChangeRole(r)
  <2>1. u = req[r].target /\ role'[s][u] # "owner" /\ req[r].pc \in {"kick", "change"}
    BY <1>1, <1>4, RowSteps DEF KickOut, ChangeRole, StoreOwner, JoinSpace, At
  <2>2. \A v \in Users : v # u => role'[s][v] = role[s][v]
    BY <1>4, <2>1, RowSteps DEF KickOut, ChangeRole, StoreOwner, JoinSpace, At
  <2>3. Owners(s)' = Owners(s) \ {u}
    BY <2>1, <2>2 DEF Owners
  <2>4. role[s][u] = "owner"
    BY <1>1, <2>1
  <2>5. r \in raced
    BY <1>0, <1>2, <2>1, <2>4 DEF HasRead, TargetRole, RequestOK
  <2>. QED  BY <1>2, <2>1, <2>3, <2>5
<1>. QED  BY <1>1, <1>3, <1>4, RowSteps

\* A space keeps its owner, whatever the requests in progress do.  It loses it only to
\* a kick or a role change that had read another row of the owner (spaces/service.go:61,
\* 229, 275).
THEOREM OneOwnerHolds == Spec => OneOwner
<1>1. Types /\ KickInv /\ OwnerInv /\ [Next]_mvars => [OwnersStep]_mvars
  <2>1. Types /\ KickInv /\ OwnerInv /\ Stepping => OwnersStep
    BY OwnersChange DEF Stepping
  <2>2. UNCHANGED untouched => OwnersStep
    BY DEF untouched, OwnersStep, Owners
  <2>. QED  BY <2>1, <2>2, NextSteps
<1>2. Spec => [][OwnersStep]_mvars
  BY TypesHold, KicksHold, OwnersHold, <1>1, PTL DEF Spec
<1>. QED  BY <1>2 DEF OneOwner, OwnersStep

\* Who changes a role was, when it was checked, an instance administrator or the owner of
\* the space, and is so for ever.
ChangeInv ==
    \A r \in Requests : req[r].pc \in {"current", "change"} =>
        req[r].actor \in admins \cup {spaces[req[r].space].owner}

LEMMA ChangeStep ==
    ASSUME Types, OwnerInv, ChangeInv, NEW r \in Requests, Step(r)
    PROVE  ChangeInv'
<1>0. /\ Arrives(r) /\ \A x \in Requests : RequestOK(req[x])
      /\ req \in [Requests -> Request] /\ admins \subseteq admins'
  BY StepArrives, HistoryGrows DEF Types, RequestsOK
<1>1. ASSUME NEW s \in Spaces, NEW u \in Users, u \in admins \cup {spaces[s].owner}
      PROVE  u \in admins' \cup {spaces'[s].owner}
  BY <1>0, <1>1, SpaceSteps, MembershipAssumption
<1> SUFFICES ASSUME NEW x \in Requests, req'[x].pc \in {"current", "change"}
             PROVE  req'[x].actor \in admins' \cup {spaces'[req'[x].space].owner}
  BY DEF ChangeInv
<1>2. ASSUME req[x].pc \in {"current", "change"},
             req'[x].actor = req[x].actor, req'[x].space = req[x].space
      PROVE  req'[x].actor \in admins' \cup {spaces'[req'[x].space].owner}
  <2>1. req[x].actor \in Users /\ req[x].space \in Spaces
    BY <1>0, <1>2 DEF RequestOK
  <2>. QED  BY <1>1, <1>2, <2>1 DEF ChangeInv
<1>3. CASE x # r
  BY <1>0, <1>2, <1>3 DEF Arrives, Others
<1>4. CASE x = r /\ ReadCurrentRole(r)
  <2>1. Onward(r, "change") /\ req[r].pc = "current"
    BY <1>0, <1>4, GotoOnward DEF ReadCurrentRole, At, Phases
  <2>. QED  BY <1>2, <1>4, <2>1 DEF Onward
<1>5. CASE x = r /\ ChangeMemberRole(r)
  <2>1. PICK s \in Spaces, u \in Known, t \in Users, new \in {"member", "admin"} :
           BeginChange(r, s, u, t, new)
    BY <1>5 DEF ChangeMemberRole
  <2>2. u \in Users /\ req'[r].actor = u /\ req'[r].space = s
    BY <1>0, <2>1, BeginChangeStarts DEF Types, Known
  <2>3. u \in admins \/ role[s][u] = "owner"
    BY <2>1 DEF BeginChange, CheckSpacePermission, HasMinRole, GetUserSpaceRole
  <2>4. u \in admins \cup {spaces[s].owner}
    BY <2>2, <2>3 DEF OwnerInv
  <2>. QED  BY <1>1, <1>5, <2>2, <2>4
<1>. QED  BY <1>0, <1>3, <1>4, <1>5 DEF Arrives

LEMMA ChangesHold == Spec => []ChangeInv
<1>1. Init => ChangeInv
  BY InitialRows DEF ChangeInv
<1>2. Types /\ OwnerInv /\ ChangeInv /\ [Next]_mvars => ChangeInv'
  <2>1. Types /\ OwnerInv /\ ChangeInv /\ Stepping => ChangeInv'
    BY ChangeStep DEF Stepping
  <2>2. ChangeInv /\ UNCHANGED untouched => ChangeInv'
    BY DEF untouched, ChangeInv
  <2>. QED  BY <2>1, <2>2, NextSteps
<1>. QED  BY TypesHold, OwnersHold, <1>1, <1>2, PTL DEF Spec

KicksStep ==
    \A s \in Spaces, u \in Users :
       role[s][u] # "none" /\ role'[s][u] = "none" =>
         \E r \in Requests :
             /\ At(r, "kick") /\ req'[r].pc = "done"
             /\ req[r].target = u /\ req[r].space = s
             /\ \/ r \in raced
                \/ role[s][u] # "owner" /\ req[r].actor \in admins
                \/ role[s][u] # "owner" /\ GetUserSpaceRole(s, req[r].actor) = "owner"
                \/ role[s][u] = "member" /\ GetUserSpaceRole(s, req[r].actor) = "admin"
ChangesStep ==
    \A s \in Spaces, u \in Users :
       role[s][u] # "none" /\ role'[s][u] \notin {"none", role[s][u]} =>
         \E r \in Requests :
             /\ At(r, "change") /\ req'[r].pc = "done"
             /\ req[r].target = u /\ req[r].space = s /\ req[r].new = role'[s][u]
             /\ req[r].actor \in admins \cup {spaces[s].owner}

LEMMA RolesChange ==
    ASSUME Types, KickInv, ChangeInv, NEW r \in Requests, Step(r)
    PROVE  KicksStep /\ ChangesStep
<1> USE DEF At
<1>0. /\ RequestOK(req[r]) /\ HasRead(r) /\ req \in [Requests -> Request]
      /\ role \in [Spaces -> [Users -> Roles \cup {"none"}]]
  BY DEF Types, RequestsOK, SpacesOK, KickInv
<1>1. ASSUME NEW s \in Spaces, NEW u \in Users, role[s][u] # "none", role'[s][u] = "none"
      PROVE  /\ req[r].pc = "kick" /\ req'[r].pc = "done"
             /\ req[r].target = u /\ req[r].space = s
             /\ \/ r \in raced
                \/ role[s][u] # "owner" /\ req[r].actor \in admins
                \/ role[s][u] # "owner" /\ GetUserSpaceRole(s, req[r].actor) = "owner"
                \/ role[s][u] = "member" /\ GetUserSpaceRole(s, req[r].actor) = "admin"
  <2>1. s = req[r].space /\ u = req[r].target /\ KickOut(r)
    BY <1>1, RowSteps
  <2>2. req[r].pc = "kick" /\ req'[r].pc = "done"
    BY <1>0, <2>1, GotoOnward DEF KickOut, Onward, Phases
  <2>3. req[r].seen \in {"member", "admin"}
    BY <1>0, <2>2 DEF RequestOK
  <2>4. CASE r \notin raced
    <3>1. role[s][u] \in {"member", "admin"} /\ role[s][u] = req[r].seen
      BY <1>0, <2>1, <2>2, <2>3, <2>4 DEF HasRead, TargetRole
    <3>2. \/ req[r].actor \in admins
          \/ /\ GetUserSpaceRole(s, req[r].actor) \in {"admin", "owner"}
             /\ ~(GetUserSpaceRole(s, req[r].actor) = "admin" /\ role[s][u] = "admin")
      BY <1>0, <2>1, <2>2, <2>4, <3>1 DEF HasRead, Kicks, ActorRole, GetUserSpaceRole
    <3>. QED  BY <2>1, <2>2, <3>1, <3>2
  <2>. QED  BY <2>1, <2>2, <2>4
<1>2. ASSUME NEW s \in Spaces, NEW u \in Users, role[s][u] # "none",
             role'[s][u] \notin {"none", role[s][u]}
      PROVE  /\ req[r].pc = "change" /\ req'[r].pc = "done"
             /\ req[r].target = u /\ req[r].space = s /\ req[r].new = role'[s][u]
             /\ req[r].actor \in admins \cup {spaces[s].owner}
  <2>1. s = req[r].space /\ u = req[r].target /\ ChangeRole(r)
    BY <1>2, RowSteps
  <2>2. req[r].pc = "change" /\ req'[r].pc = "done"
    BY <1>0, <2>1, GotoOnward DEF ChangeRole, Onward, Phases
  <2>3. req[r].new = role'[s][u]
    BY <1>0, <1>2, <2>1 DEF ChangeRole, UpdateMembershipRole
  <2>. QED  BY <2>1, <2>2, <2>3 DEF ChangeInv
<1>. QED  BY <1>1, <1>2 DEF KicksStep, ChangesStep

\* Members are removed by who may remove them, and their roles changed by who may change
\* them, whatever other requests do between the check of a request and its write, but for a
\* kick during which a row it had read changed (spaces/service.go:210-290,
\* invites/service.go:114-146).
THEOREM RolesByRightHolds == Spec => RolesByRight
<1>1. Types /\ KickInv /\ ChangeInv /\ [Next]_mvars => [KicksStep]_mvars /\ [ChangesStep]_mvars
  <2>1. Types /\ KickInv /\ ChangeInv /\ Stepping => KicksStep /\ ChangesStep
    BY RolesChange DEF Stepping
  <2>2. UNCHANGED untouched => KicksStep /\ ChangesStep
    BY DEF untouched, KicksStep, ChangesStep
  <2>. QED  BY <2>1, <2>2, NextSteps
<1>2. Spec => [][KicksStep]_mvars /\ [][ChangesStep]_mvars
  BY TypesHold, KicksHold, ChangesHold, <1>1, PTL DEF Spec
<1>3. Spec => KicksByRight
  BY <1>2 DEF KicksByRight, KicksStep
<1>4. Spec => ChangesByOwner
  BY <1>2 DEF ChangesByOwner, ChangesStep
<1>. QED  BY <1>3, <1>4 DEF RolesByRight
--------------------------------------------------------------------------------
(***************************************************************************)
(* Spaces half-made.  A request goes on with the fields it was started     *)
(* with, and an invite stays that of its space.                            *)
(***************************************************************************)
Same(r) ==
    /\ req'[r].actor = req[r].actor /\ req'[r].target = req[r].target
    /\ req'[r].code = req[r].code /\ req'[r].token = req[r].token

LEMMA Keeps ==
    ASSUME Types, NEW r \in Requests, Step(r), req[r].pc # "idle"
    PROVE  /\ Same(r)
           /\ StoreSpace(r) \/ req'[r].space = req[r].space
           /\ CountIsZero(r) \/ req'[r].first = req[r].first
<1> USE DEF At
<1>0. req \in [Requests -> Request]
  BY DEF Types, RequestsOK
<1>1. ASSUME NEW phase \in Phases, Goto(r, phase)
      PROVE  Same(r) /\ req'[r].space = req[r].space /\ req'[r].first = req[r].first
  BY <1>0, <1>1, GotoOnward DEF Same, Onward
<1>2. CASE CountIsZero(r)
  BY <1>0, <1>2 DEF CountIsZero, Same, Request
<1>3. CASE StoreSpace(r)
  <2>1. PICK s \in Spaces : req' = [req EXCEPT ![r].pc = "owner", ![r].space = s]
    BY <1>3 DEF StoreSpace
  <2>2. req[r] \in Request
    BY <1>0
  <2>3. req'[r] = [req[r] EXCEPT !.pc = "owner", !.space = s]
    BY <1>0, <2>1
  <2>4. Same(r) /\ req'[r].first = req[r].first
    BY <2>2, <2>3 DEF Same, Request
  <2>. QED  BY <1>3, <2>4
<1>4. CASE ReadTargetRole(r)
  BY <1>0, <1>4 DEF ReadTargetRole, Same, Request
<1>5. CASE RegisterUser(r) \/ CountUse(r) \/ StoreToken(r) \/ MarkVerified(r) \/ ConsumeToken(r)
           \/ PurgeTokens(r)
  BY <1>1, <1>5 DEF RegisterUser, CountUse, StoreToken, MarkVerified, ConsumeToken, PurgeTokens, Phases
<1>6. CASE StoreOwner(r) \/ EndCreateSpace(r) \/ CloseSpace(r) \/ ReadActorRole(r) \/ KickOut(r)
           \/ ReadCurrentRole(r) \/ ChangeRole(r)
  BY <1>1, <1>6 DEF StoreOwner, EndCreateSpace, CloseSpace, ReadActorRole, KickOut,
                    ReadCurrentRole, ChangeRole, Phases
<1>7. CASE IssueInvite(r) \/ StoreRevocation(r) \/ CheckJoin(r) \/ JoinSpace(r) \/ Refused(r)
  BY <1>1, <1>7 DEF IssueInvite, StoreRevocation, CheckJoin, JoinSpace, Refused, Phases
<1>8. \/ CountIsZero(r) \/ StoreSpace(r) \/ ReadTargetRole(r)
      \/ RegisterUser(r) \/ CountUse(r) \/ StoreToken(r) \/ MarkVerified(r) \/ ConsumeToken(r)
      \/ PurgeTokens(r)
      \/ StoreOwner(r) \/ EndCreateSpace(r) \/ CloseSpace(r) \/ ReadActorRole(r) \/ KickOut(r)
      \/ ReadCurrentRole(r) \/ ChangeRole(r)
      \/ IssueInvite(r) \/ StoreRevocation(r) \/ CheckJoin(r) \/ JoinSpace(r) \/ Refused(r)
  BY DEF Step, Accounting, Governing, Inviting, Register, VerifyEmail, ResendVerification,
         DeleteCurrentUser, CreateSpace, DeleteSpace, AdminDeleteSpace, KickMember,
         ChangeMemberRole, CreateInvite, RevokeInvite, AdminRevokeInvite, JoinViaInvite
<1>. QED  BY <1>2, <1>3, <1>4, <1>5, <1>6, <1>7, <1>8

LEMMA InviteSteps ==
    ASSUME Types, NEW r \in Requests, Step(r), NEW i \in Invites
    PROVE  \/ /\ invites'[i].space = invites[i].space /\ invites'[i].by = invites[i].by
              /\ \/ invites'[i].uses = invites[i].uses
                    /\ ~(CountUse(r) /\ i = req[r].code /\ lost' = lost)
                 \/ /\ CountUse(r) /\ i = req[r].code /\ lost' = lost
                    /\ invites'[i].uses = invites[i].uses + 1
           \/ /\ IssueInvite(r) /\ invites[i].space = NoSpace
              /\ invites'[i].space = req[r].space /\ invites'[i].by = req[r].actor
              /\ invites'[i].uses = 0
<1> USE DEF At
<1>0. invites \in [Invites -> Invite] /\ lost \in [Invites -> Nat] /\ RequestOK(req[r])
  BY DEF Types, RequestsOK, InvitesOK
<1>1. CASE CountUse(r)
  <2>1. req[r].code \in Invites
    BY <1>0, <1>1 DEF CountUse, RequestOK
  <2>2. CASE IncrementInviteUses(req[r].code) /\ UNCHANGED lost
    BY <1>0, <1>1, <2>1, <2>2 DEF IncrementInviteUses, Invite
  <2>3. CASE lost' = [lost EXCEPT ![req[r].code] = @ + 1] /\ UNCHANGED invites
    <3>1. lost'[req[r].code] # lost[req[r].code]
      BY <1>0, <2>1, <2>3
    <3>. QED  BY <2>3, <3>1
  <2>. QED  BY <1>1, <2>2, <2>3 DEF CountUse
<1>2. CASE IssueInvite(r)
  <2>1. PICK j \in Invites : InsertInvite(j, req[r].space, req[r].actor)
    BY <1>2 DEF IssueInvite
  <2>2. /\ [NoInvite EXCEPT !.space = req[r].space, !.by = req[r].actor].space = req[r].space
        /\ [NoInvite EXCEPT !.space = req[r].space, !.by = req[r].actor].by = req[r].actor
        /\ [NoInvite EXCEPT !.space = req[r].space, !.by = req[r].actor].uses = 0
    BY DEF NoInvite
  <2>3. ~CountUse(r)
    BY <1>2 DEF CountUse, IssueInvite
  <2>. QED  BY <1>0, <1>2, <2>1, <2>2, <2>3 DEF InsertInvite, GetInviteByID
<1>3. CASE StoreRevocation(r) \/ AdminRevokeInvite(r)
  <2>1. PICK j \in Invites : MarkRevoked(j)
    BY <1>0, <1>3 DEF StoreRevocation, AdminRevokeInvite, RequestOK
  <2>2. ~CountUse(r)
    BY <1>3 DEF CountUse, StoreRevocation, AdminRevokeInvite
  <2>. QED  BY <1>0, <2>1, <2>2 DEF MarkRevoked, Invite
<1>4. CASE invites' = invites /\ ~CountUse(r)
  BY <1>4
<1>. QED  BY <1>1, <1>2, <1>3, <1>4, Writers

\* A request with an invite's code has found the invite.
CodeInv ==
    /\ \A i \in Invites : invites[i].space = NoSpace => invites[i].uses = 0
    /\ \A r \in Requests :
          req[r].pc \in {"count", "user", "use", "space?", "join", "spend"}
             /\ req[r].code \in Invites => invites[req[r].code].space # NoSpace
    /\ \A r \in Requests :
          req[r].pc \in {"space?", "join"} => req[r].space = invites[req[r].code].space

LEMMA CodeStep ==
    ASSUME Types, CodeInv, NEW r \in Requests, Step(r)
    PROVE  CodeInv'
<1> USE DEF At
<1>0. /\ Arrives(r) /\ \A x \in Requests : RequestOK(req[x])
      /\ invites \in [Invites -> Invite]
  BY StepArrives DEF Types, RequestsOK, InvitesOK
<1>1. \A i \in Invites : invites[i].space # NoSpace => invites'[i].space = invites[i].space
  BY InviteSteps
<1>2. \A i \in Invites : invites'[i].space = NoSpace => invites'[i].uses = 0
  BY <1>0, InviteSteps, MembershipAssumption DEF CodeInv, CountUse, IssueInvite, RequestOK
<1>3. ASSUME NEW x \in Requests, req'[x].code \in Invites,
             req'[x].pc \in {"count", "user", "use", "space?", "join", "spend"}
      PROVE  /\ invites'[req'[x].code].space # NoSpace
             /\ req'[x].pc \in {"space?", "join"} => req'[x].space = invites'[req'[x].code].space
  <2>1. CASE x # r
    BY <1>0, <1>1, <1>3, <2>1 DEF Arrives, Others, CodeInv
  <2>2. CASE x = r /\ Register(r)
    <3>1. PICK u \in Users, c \in Codes : CheckCode(r, u, c)
      BY <2>2 DEF Register
    <3>2. req'[r].code = c /\ req'[r].pc = "count"
      BY <3>1, CheckCodeStarts DEF Types
    <3>3. invites[c].space # NoSpace
      BY <1>3, <2>2, <3>1, <3>2, MembershipAssumption DEF CheckCode, GetInviteByCode
    <3>. QED  BY <1>1, <1>3, <2>2, <3>2, <3>3
  <2>3. CASE x = r /\ JoinViaInvite(r)
    <3>1. PICK i \in Invites, u \in Known : FindInvite(r, i, u)
      BY <2>3 DEF JoinViaInvite
    <3>2. invites[i].space # NoSpace /\ invites[i].space \in Spaces
      BY <1>0, <3>1 DEF FindInvite, GetInviteByCode, Invite
    <3>3. req'[r].code = i /\ req'[r].space = invites[i].space
      BY <3>1, <3>2, FindInviteStarts DEF Types, Known
    <3>. QED  BY <1>1, <2>3, <3>2, <3>3
  <2>4. CASE /\ x = r /\ req[r].pc \in {"count", "user", "space?", "join"}
             /\ req'[r].pc = "join" => req[r].pc = "space?"
             /\ req'[r].pc # "space?"
    <3>1. req'[r].code = req[r].code
      BY <2>4, Keeps DEF Same
    <3>2. req'[r].pc = "join" => req'[r].space = req[r].space
      BY <2>4, Keeps DEF StoreSpace
    <3>. QED  BY <1>0, <1>1, <1>3, <2>4, <3>1, <3>2 DEF CodeInv
  <2>. QED  BY <1>0, <1>3, <2>1, <2>2, <2>3, <2>4
            DEF Arrives, CountIsZero, RegisterUser, CheckJoin, JoinSpace
<1>4. \A x \in Requests : req'[x].pc \in {"space?", "join"} => req'[x].code \in Invites
  BY <1>0 DEF Arrives, Others, RequestOK
<1>. QED  BY <1>2, <1>3, <1>4 DEF CodeInv

LEMMA CodesHold == Spec => []CodeInv
<1>1. Init => CodeInv
  BY InitialRows DEF CodeInv
<1>2. Types /\ CodeInv /\ [Next]_mvars => CodeInv'
  <2>1. Types /\ CodeInv /\ Stepping => CodeInv'
    BY CodeStep DEF Stepping
  <2>2. CodeInv /\ UNCHANGED untouched => CodeInv'
    BY DEF untouched, CodeInv
  <2>. QED  BY <2>1, <2>2, NextSteps
<1>. QED  BY TypesHold, <1>1, <1>2, PTL DEF Spec
--------------------------------------------------------------------------------
\* Covered: the space has an owner, or an invite of an instance administrator.  It is
\* so once somebody may invite, and who removes the owner has been let in.
Good(s) == \E i \in Invites : invites[i].space = s /\ invites[i].by \in admins
Covered(s) == ~Unowned(s, role) \/ Good(s)
HalfInv ==
    /\ \A s \in Spaces, u \in Users : role[s][u] # "none" => Covered(s)
    /\ \A i \in Invites : invites[i].space # NoSpace => Covered(invites[i].space)
    /\ \A r \in Requests :
          req[r].pc = "issue" => req[r].actor \in admins \/ Covered(req[r].space)
    /\ \A r \in Requests : req[r].pc \in {"actor", "kick", "change"} =>
          \/ Good(req[r].space)
          \/ TargetRole(r) # "owner" /\ ~Unowned(req[r].space, role)

LEMMA GoodStays ==
    ASSUME Types, NEW r \in Requests, Step(r), NEW s \in Spaces, Good(s)
    PROVE  Good(s)'
<1>1. PICK i \in Invites : invites[i].space = s /\ invites[i].by \in admins
  BY DEF Good
<1>2. invites'[i].space = s /\ invites'[i].by = invites[i].by
  BY <1>1, InviteSteps, MembershipAssumption
<1>. QED  BY <1>1, <1>2, HistoryGrows DEF Good

LEMMA OwnedStays ==
    ASSUME Types, HalfInv, NEW r \in Requests, Step(r), NEW s \in Spaces, ~Unowned(s, role)
    PROVE  ~Unowned(s, role') \/ Good(s)
<1> SUFFICES ASSUME Unowned(s, role') PROVE Good(s)
  OBVIOUS
<1>1. PICK u \in Users : role[s][u] = "owner" /\ role'[s][u] # "owner"
  BY DEF Unowned
<1>2. s = req[r].space /\ u = req[r].target /\ (KickOut(r) \/ ChangeRole(r))
  BY <1>1, RowSteps
<1>3. req[r].pc \in {"kick", "change"} /\ TargetRole(r) = "owner"
  BY <1>1, <1>2 DEF KickOut, ChangeRole, At, TargetRole
<1>. QED  BY <1>2, <1>3 DEF HalfInv

LEMMA CoveredStays ==
    ASSUME Types, HalfInv, NEW r \in Requests, Step(r), NEW s \in Spaces, Covered(s)
    PROVE  Covered(s)'
<1>1. ~Unowned(s, role') \/ Good(s)
  BY OwnedStays DEF Covered
<1>. QED  BY <1>1, GoodStays DEF Covered, Unowned

LEMMA HalfStep ==
    ASSUME Types, OwnerInv, CodeInv, HalfInv, NEW r \in Requests, Step(r)
    PROVE  HalfInv'
<1> USE DEF At
<1>0. /\ Arrives(r) /\ \A x \in Requests : RequestOK(req[x])
      /\ invites \in [Invites -> Invite]
      /\ role \in [Spaces -> [Users -> Roles \cup {"none"}]]
      /\ req \in [Requests -> Request]
  BY StepArrives DEF Types, RequestsOK, InvitesOK, SpacesOK
<1>1. ASSUME NEW s \in Spaces, NEW u \in Users, role'[s][u] # "none"
      PROVE  Covered(s)'
  <2>1. CASE role[s][u] # "none"
    BY <2>1, CoveredStays DEF HalfInv
  <2>2. CASE role[s][u] = "none" /\ StoreOwner(r) /\ role'[s][u] = "owner"
    BY <2>2 DEF Covered, Unowned
  <2>3. CASE role[s][u] = "none" /\ JoinSpace(r) /\ s = req[r].space
    <3>1. /\ req[r].code \in Invites /\ req[r].space = invites[req[r].code].space
          /\ invites[req[r].code].space # NoSpace
      BY <1>0, <2>3 DEF JoinSpace, CodeInv, RequestOK
    <3>2. Covered(s)
      BY <2>3, <3>1 DEF HalfInv
    <3>. QED  BY <3>2, CoveredStays
  <2>. QED  BY <1>1, <2>1, <2>2, <2>3, RowSteps
<1>2. ASSUME NEW i \in Invites, invites'[i].space # NoSpace, NEW s \in Spaces, s = invites'[i].space
      PROVE  Covered(s)'
  <2>1. CASE invites[i].space = s
    BY <1>2, <2>1, CoveredStays, MembershipAssumption DEF HalfInv
  <2>2. CASE IssueInvite(r) /\ s = req[r].space /\ invites'[i].by = req[r].actor
    <3>1. req[r].actor \in admins \/ Covered(s)
      BY <2>2 DEF IssueInvite, HalfInv
    <3>2. CASE req[r].actor \in admins
      BY <1>2, <2>2, <3>2, HistoryGrows DEF Covered, Good
    <3>. QED  BY <3>1, <3>2, CoveredStays
  <2>. QED  BY <1>2, <2>1, <2>2, InviteSteps
<1>3. ASSUME NEW x \in Requests, req'[x].pc = "issue", NEW s \in Spaces, s = req'[x].space
      PROVE  req'[x].actor \in admins' \/ Covered(s)'
  <2>1. CASE x # r
    BY <1>0, <1>3, <2>1, CoveredStays, HistoryGrows DEF Arrives, Others, HalfInv
  <2>2. CASE x = r /\ CreateInvite(r)
    <3>1. PICK s0 \in Spaces, u \in Known : BeginInvite(r, s0, u)
      BY <2>2 DEF CreateInvite
    <3>2. u \in Users /\ req'[r].actor = u /\ req'[r].space = s0
      BY <3>1, BeginInviteStarts DEF Types, Known
    <3>3. u \in admins \/ role[s][u] # "none"
      BY <1>3, <2>2, <3>1, <3>2 DEF BeginInvite, CheckSpacePermission, HasMinRole, GetUserSpaceRole
    <3>4. u \in admins \/ Covered(s)
      BY <3>2, <3>3 DEF HalfInv
    <3>. QED  BY <2>2, <3>2, <3>4, CoveredStays, HistoryGrows
  <2>. QED  BY <1>0, <1>3, <2>1, <2>2 DEF Arrives
<1>4. ASSUME NEW x \in Requests, req'[x].pc \in {"actor", "kick", "change"},
             NEW s \in Spaces, s = req'[x].space, NEW u \in Users, u = req'[x].target
      PROVE  Good(s)' \/ (role'[s][u] # "owner" /\ ~Unowned(s, role'))
  <2>1. CASE x # r
    <3>1. req'[x] = req[x]
      BY <1>0, <2>1 DEF Arrives, Others
    <3>2. CASE Good(s)
      BY <3>2, GoodStays
    <3>3. CASE ~Good(s)
      <4>1. role[s][u] # "owner" /\ ~Unowned(s, role)
        BY <1>4, <3>1, <3>3 DEF HalfInv, TargetRole
      <4>2. ~Unowned(s, role')
        BY <3>3, <4>1, OwnedStays
      <4>3. ~(StoreOwner(r) /\ s = req[r].space)
        BY <4>1 DEF OwnerInv, StoreOwner
      <4>. QED  BY <4>1, <4>2, <4>3, NewOwner
    <3>. QED  BY <3>2, <3>3
  <2>2. CASE x = r /\ req[r].pc # "idle" /\ role' = role /\ ~StoreSpace(r)
    <3>1. s = req[r].space /\ u = req[r].target
      BY <1>4, <2>2, Keeps DEF Same
    <3>2. CASE req[r].pc \in {"actor", "kick", "change"}
      BY <2>2, <3>1, <3>2, GoodStays DEF HalfInv, TargetRole
    <3>3. CASE role[s][u] \notin {"none", "owner"}
      BY <2>2, <3>3, GoodStays DEF HalfInv, Covered
    <3>4. CASE ReadTargetRole(r) \/ ReadCurrentRole(r)
      BY <3>1, <3>3, <3>4 DEF ReadTargetRole, ReadCurrentRole, GetUserSpaceRole
    <3>5. CASE ReadActorRole(r)
      BY <3>2, <3>5 DEF ReadActorRole
    <3>. QED  BY <1>0, <1>4, <2>2, <3>4, <3>5 DEF Arrives
  <2>3. x = r => req[r].pc # "idle" /\ role' = role /\ ~StoreSpace(r)
    BY <1>0, <1>4 DEF Arrives, ReadTargetRole, ReadCurrentRole, ReadActorRole, StoreSpace, rows
  <2>. QED  BY <2>1, <2>2, <2>3
<1>5. \A i \in Invites : invites'[i].space # NoSpace => invites'[i].space \in Spaces
  BY InvitesType DEF InvitesOK, Invite
<1>6. \A x \in Requests :
        /\ req'[x].pc = "issue" => req'[x].space \in Spaces
        /\ req'[x].pc \in {"actor", "kick", "change"} =>
              req'[x].space \in Spaces /\ req'[x].target \in Users
  BY <1>0 DEF Arrives, Others, RequestOK
<1>. QED  BY <1>1, <1>2, <1>3, <1>4, <1>5, <1>6 DEF HalfInv, Covered, Good, TargetRole, Unowned

LEMMA HalfHolds == Spec => []HalfInv
<1>1. Init => HalfInv
  <2> SUFFICES ASSUME Init PROVE HalfInv
    OBVIOUS
  <2>1. \A s \in Spaces, u \in Users : role[s][u] # "none" => Covered(s)
    BY InitialRows DEF Covered, Unowned
  <2>2. \A i \in Invites : invites[i].space # NoSpace => Covered(invites[i].space)
    BY InitialRows DEF Covered, Good
  <2>. QED  BY <2>1, <2>2, InitialRows DEF HalfInv
<1>2. Types /\ OwnerInv /\ CodeInv /\ HalfInv /\ [Next]_mvars => HalfInv'
  <2>1. Types /\ OwnerInv /\ CodeInv /\ HalfInv /\ Stepping => HalfInv'
    BY HalfStep DEF Stepping
  <2>2. HalfInv /\ UNCHANGED untouched => HalfInv'
    BY DEF untouched, HalfInv, Covered, Good, Unowned, TargetRole
  <2>. QED  BY <2>1, <2>2, NextSteps
<1>. QED  BY TypesHold, OwnersHold, CodesHold, <1>1, <1>2, PTL DEF Spec

\* A space whose creation failed half-way is entered by an instance administrator's
\* invite only (spaces/service.go:61).
THEOREM HalfMadeIsClosedHolds == Spec => []HalfMadeIsClosed
<1>1. HalfInv => HalfMadeIsClosed
  BY DEF HalfInv, Covered, Good, HalfMadeIsClosed, Owners, Unowned, IsUserSpaceMember
<1>. QED  BY HalfHolds, <1>1, PTL
--------------------------------------------------------------------------------
(***************************************************************************)
(* Admissions.  What a step does to the accounts of one invite: a request  *)
(* reads it, drops it, admits by it or counts a use.                       *)
(***************************************************************************)
Holds(q, i) == q.pc \in {"count", "user", "space?", "join"} /\ q.code = i
Counts(q, i) == q.pc \in {"use", "spend"} /\ q.code = i

BooksKept(i) == admitted'[i] = admitted[i] /\ lost'[i] = lost[i] /\ invites'[i].uses = invites[i].uses
Reads(r, i) ==
    /\ ~Holds(req[r], i) /\ ~Counts(req[r], i) /\ Holds(req'[r], i) /\ ~Counts(req'[r], i)
    /\ invites[i].uses < MaxUses /\ BooksKept(i)
Drops(r, i) ==
    /\ Holds(req'[r], i) => Holds(req[r], i)
    /\ Counts(req'[r], i) <=> Counts(req[r], i)
    /\ BooksKept(i)
Admits(r, i) ==
    /\ Holds(req[r], i) /\ ~Counts(req[r], i) /\ ~Holds(req'[r], i) /\ Counts(req'[r], i)
    /\ admitted'[i] = admitted[i] + 1 /\ lost'[i] = lost[i]
    /\ invites'[i].uses = invites[i].uses
CountsOff(r, i) ==
    /\ ~Holds(req[r], i) /\ Counts(req[r], i) /\ ~Holds(req'[r], i) /\ ~Counts(req'[r], i)
    /\ admitted'[i] = admitted[i]
    /\ \/ lost'[i] = lost[i] /\ invites'[i].uses = invites[i].uses + 1
       \/ lost'[i] = lost[i] + 1 /\ invites'[i].uses = invites[i].uses

LEMMA InviteMoves ==
    ASSUME Types, CodeInv, NEW r \in Requests, Step(r), NEW i \in Invites
    PROVE  Reads(r, i) \/ Drops(r, i) \/ Admits(r, i) \/ CountsOff(r, i)
<1> USE DEF At, Holds, Counts
<1>0. /\ Arrives(r) /\ RequestOK(req[r]) /\ req \in [Requests -> Request]
      /\ admitted \in [Invites -> Nat] /\ lost \in [Invites -> Nat]
  BY StepArrives DEF Types, RequestsOK, InvitesOK
<1>1. CASE Register(r)
  <2>1. PICK u \in Users, c \in Codes : CheckCode(r, u, c)
    BY <1>1 DEF Register
  <2>2. req'[r].code = c /\ req'[r].pc = "count" /\ req[r].pc = "idle"
    BY <1>1, <2>1, CheckCodeStarts DEF Types, Register
  <2>3. BooksKept(i)
    BY <2>1 DEF CheckCode, rows, inviteVars, BooksKept
  <2>4. c = i => invites[i].uses < MaxUses
    BY <2>1, MembershipAssumption DEF CheckCode, GetInviteByCode
  <2>. QED  BY <2>2, <2>3, <2>4 DEF Reads, Drops
<1>2. CASE JoinViaInvite(r)
  <2>1. PICK j \in Invites, u \in Known : FindInvite(r, j, u)
    BY <1>2 DEF JoinViaInvite
  <2>2. invites[j].space \in Spaces
    BY <2>1 DEF FindInvite, GetInviteByCode, Invite, Types, InvitesOK
  <2>3. req'[r].code = j /\ req'[r].pc = "space?" /\ req[r].pc = "idle"
    BY <1>2, <2>1, <2>2, FindInviteStarts DEF Types, JoinViaInvite, Known
  <2>4. BooksKept(i)
    BY <2>1 DEF FindInvite, rows, inviteVars, BooksKept
  <2>5. invites[j].uses < MaxUses
    BY <2>1 DEF FindInvite, GetInviteByCode
  <2>. QED  BY <2>3, <2>4, <2>5 DEF Reads, Drops
<1>3. CASE CountIsZero(r) \/ CheckJoin(r)
  <2>1. req[r].pc \in {"count", "space?"} /\ BooksKept(i)
    BY <1>3 DEF CountIsZero, CheckJoin, rows, inviteVars, BooksKept
  <2>2. req'[r].code = req[r].code
    BY <2>1, Keeps DEF Same
  <2>3. req'[r].pc \in {"user", "join"}
    BY <1>0, <1>3 DEF CountIsZero, CheckJoin, Goto, Request
  <2>. QED  BY <2>1, <2>2, <2>3 DEF Drops
<1>4. CASE RegisterUser(r)
  <2>1. req[r].pc = "user" /\ req'[r].code = req[r].code
    BY <1>4, Keeps DEF RegisterUser, Same
  <2>2. lost'[i] = lost[i] /\ invites' = invites
    BY <1>4 DEF RegisterUser
  <2>3. CASE req[r].code = Bootstrap
    <3>1. req'[r].pc = "token" /\ admitted' = admitted
      BY <1>0, <1>4, <2>3 DEF RegisterUser, Goto, Request
    <3>. QED  BY <2>1, <2>2, <2>3, <3>1, MembershipAssumption DEF Drops, BooksKept
  <2>4. CASE req[r].code # Bootstrap
    <3>1. req'[r].pc = "use" /\ admitted' = [admitted EXCEPT ![req[r].code] = @ + 1]
      BY <1>0, <1>4, <2>4 DEF RegisterUser, Goto, Request
    <3>. QED  BY <1>0, <2>1, <2>2, <3>1 DEF Drops, BooksKept, Admits
  <2>. QED  BY <2>3, <2>4
<1>5. CASE JoinSpace(r)
  <2>1. req[r].pc = "join" /\ req'[r].code = req[r].code
    BY <1>5, Keeps DEF JoinSpace, Same
  <2>2. /\ lost'[i] = lost[i] /\ invites' = invites
        /\ req'[r].pc = "spend" /\ admitted' = [admitted EXCEPT ![req[r].code] = @ + 1]
    BY <1>0, <1>5 DEF JoinSpace, Goto, Request
  <2>. QED  BY <1>0, <2>1, <2>2 DEF Drops, BooksKept, Admits
<1>6. CASE CountUse(r)
  <2>1. req[r].pc \in {"use", "spend"} /\ req'[r].code = req[r].code
    BY <1>6, Keeps DEF CountUse, Same
  <2>2. req'[r].pc \in {"token", "done"} /\ admitted' = admitted
    BY <1>0, <1>6 DEF CountUse, Goto, Request
  <2>3. ~IssueInvite(r)
    BY <2>1 DEF IssueInvite
  <2>4. CASE lost' = lost
    BY <1>6, <2>1, <2>2, <2>3, <2>4, InviteSteps DEF Drops, BooksKept, CountsOff
  <2>5. CASE lost' = [lost EXCEPT ![req[r].code] = @ + 1] /\ UNCHANGED invites
    BY <1>0, <2>1, <2>2, <2>5 DEF Drops, BooksKept, CountsOff
  <2>. QED  BY <1>6, <2>4, <2>5 DEF CountUse
<1>7. CASE ~(\/ Register(r) \/ JoinViaInvite(r) \/ CountIsZero(r) \/ CheckJoin(r)
             \/ RegisterUser(r) \/ JoinSpace(r) \/ CountUse(r))
  <2>1. ~Holds(req'[r], i) /\ ~Counts(req'[r], i)
    BY <1>0, <1>7 DEF Arrives
  <2>2. ~Counts(req[r], i)
    BY <1>7 DEF Step, Accounting, Governing, Inviting, Refused, StoreToken, VerifyEmail,
                MarkVerified, ConsumeToken, ResendVerification, PurgeTokens, DeleteCurrentUser,
                CreateSpace, StoreSpace, StoreOwner, EndCreateSpace, DeleteSpace, CloseSpace,
                AdminDeleteSpace, KickMember, ReadTargetRole, ReadActorRole, KickOut,
                ChangeMemberRole, ReadCurrentRole, ChangeRole, CreateInvite, IssueInvite,
                RevokeInvite, StoreRevocation, AdminRevokeInvite
  <2>3. BooksKept(i)
    BY <1>7, Writers, InviteSteps DEF BooksKept, CodeInv
  <2>. QED  BY <2>1, <2>2, <2>3 DEF Drops
<1>. QED  BY <1>1, <1>2, <1>3, <1>4, <1>5, <1>6, <1>7

\* The sets, without the request that moves.
LEMMA Without ==
    ASSUME NEW S, IsFiniteSet(S), NEW x
    PROVE  /\ IsFiniteSet(S \ {x}) /\ Cardinality(S \ {x}) \in Nat
           /\ Cardinality(S) = Cardinality(S \ {x}) + (IF x \in S THEN 1 ELSE 0)
<1>1. IsFiniteSet(S \ {x}) /\ Cardinality(S) \in Nat /\ Cardinality(S \ {x}) \in Nat
  BY FS_RemoveElement, FS_CardinalityType
<1>2. Cardinality(S \ {x}) = IF x \in S THEN Cardinality(S) - 1 ELSE Cardinality(S)
  BY FS_RemoveElement
<1>. QED  BY <1>1, <1>2

LEMMA TwoParts ==
    ASSUME NEW S \in SUBSET Requests, NEW T \in SUBSET Requests, S \cap T = {}
    PROVE  /\ IsFiniteSet(S) /\ IsFiniteSet(T)
           /\ Cardinality(S) \in Nat /\ Cardinality(T) \in Nat
           /\ Cardinality(Requests) \in Nat
           /\ Cardinality(S) + Cardinality(T) <= Cardinality(Requests)
<1>1. IsFiniteSet(S) /\ IsFiniteSet(T) /\ IsFiniteSet(S \cup T)
  BY MembershipAssumption, FS_Subset
<1>2. /\ Cardinality(S \cup T) = Cardinality(S) + Cardinality(T) - Cardinality(S \cap T)
      /\ Cardinality(S \cup T) <= Cardinality(Requests)
  BY <1>1, MembershipAssumption, FS_Union, FS_Subset
<1>3. Cardinality(S \cap T) = 0
  BY FS_EmptySet
<1>4. Cardinality(S) \in Nat /\ Cardinality(T) \in Nat /\ Cardinality(Requests) \in Nat
  BY <1>1, MembershipAssumption, FS_CardinalityType
<1>. QED  BY <1>1, <1>2, <1>3, <1>4

LEMMA AdmissionStep ==
    ASSUME Types, CodeInv, AdmissionBound, NEW r \in Requests, Step(r)
    PROVE  AdmissionBound'
<1> SUFFICES ASSUME NEW i \in Invites
             PROVE  /\ admitted'[i] + Cardinality({x \in Requests : Holds(req'[x], i)})
                       <= MaxUses + lost'[i] + Cardinality(Requests) - 1
                    /\ admitted'[i] = invites'[i].uses + lost'[i]
                                      + Cardinality({x \in Requests : Counts(req'[x], i)})
  BY DEF AdmissionBound, Holding, Counting, Holds, Counts
<1> DEFINE H == {x \in Requests : Holds(req[x], i)}
           C == {x \in Requests : Counts(req[x], i)}
           H2 == {x \in Requests : Holds(req'[x], i)}
           C2 == {x \in Requests : Counts(req'[x], i)}
<1>1. /\ admitted[i] + Cardinality(H) <= MaxUses + lost[i] + Cardinality(Requests) - 1
      /\ admitted[i] = invites[i].uses + lost[i] + Cardinality(C)
  BY DEF AdmissionBound, Holding, Counting, Holds, Counts
<1>2. \A x \in Requests : x # r => req'[x] = req[x]
  BY StepArrives DEF Arrives, Others
<1>3. H \ {r} = H2 \ {r} /\ C \ {r} = C2 \ {r}
  BY <1>2
<1>4. H \cap C = {} /\ H2 \cap C2 = {}
  BY DEF Holds, Counts
<1>5. /\ r \in H <=> Holds(req[r], i)
      /\ r \in C <=> Counts(req[r], i)
      /\ r \in H2 <=> Holds(req'[r], i)
      /\ r \in C2 <=> Counts(req'[r], i)
  OBVIOUS
<1>6. H \in SUBSET Requests /\ C \in SUBSET Requests /\ H2 \in SUBSET Requests /\ C2 \in SUBSET Requests
  OBVIOUS
<1>7. /\ admitted[i] \in Nat /\ lost[i] \in Nat /\ invites[i].uses \in Nat /\ MaxUses \in Nat
  BY MembershipAssumption DEF Types, InvitesOK, Invite
<1> HIDE DEF H, C, H2, C2
<1>8. /\ IsFiniteSet(H) /\ IsFiniteSet(C) /\ IsFiniteSet(H2) /\ IsFiniteSet(C2)
      /\ Cardinality(Requests) \in Nat
      /\ Cardinality(H2) + Cardinality(C2) <= Cardinality(Requests)
  BY <1>4, <1>6, TwoParts
<1> DEFINE h == Cardinality(H \ {r})
           c == Cardinality(C \ {r})
           n == Cardinality(Requests)
<1>9. h \in Nat /\ c \in Nat /\ n \in Nat
  BY <1>8, Without
<1>10. Cardinality(H) = h + (IF r \in H THEN 1 ELSE 0) /\ Cardinality(C) = c + (IF r \in C THEN 1 ELSE 0)
  BY <1>8, Without
<1>11. Cardinality(H2) = h + (IF r \in H2 THEN 1 ELSE 0) /\ Cardinality(C2) = c + (IF r \in C2 THEN 1 ELSE 0)
  <2>1. Cardinality(H2 \ {r}) = h /\ Cardinality(C2 \ {r}) = c
    BY <1>3
  <2>2. Cardinality(H2) = Cardinality(H2 \ {r}) + (IF r \in H2 THEN 1 ELSE 0)
    BY <1>8, Without
  <2>3. Cardinality(C2) = Cardinality(C2 \ {r}) + (IF r \in C2 THEN 1 ELSE 0)
    BY <1>8, Without
  <2>. QED  BY <2>1, <2>2, <2>3
<1> HIDE DEF h, c, n
<1>12. Cardinality(H2) + Cardinality(C2) <= n /\ n = Cardinality(Requests)
  BY <1>8 DEF n
<1>13. /\ admitted'[i] + Cardinality(H2) <= MaxUses + lost'[i] + n - 1
       /\ admitted'[i] = invites'[i].uses + lost'[i] + Cardinality(C2)
  <2>0. /\ admitted[i] + Cardinality(H) <= MaxUses + lost[i] + n - 1
        /\ admitted[i] = invites[i].uses + lost[i] + Cardinality(C)
    BY <1>1, <1>12
  <2>1. CASE Reads(r, i)
    BY <1>5, <1>7, <1>9, <1>10, <1>11, <1>12, <2>0, <2>1 DEF Reads, BooksKept
  <2>2. CASE Drops(r, i)
    BY <1>5, <1>7, <1>9, <1>10, <1>11, <2>0, <2>2 DEF Drops, BooksKept
  <2>3. CASE Admits(r, i)
    BY <1>5, <1>7, <1>9, <1>10, <1>11, <2>0, <2>3 DEF Admits
  <2>4. CASE CountsOff(r, i)
    BY <1>5, <1>7, <1>9, <1>10, <1>11, <2>0, <2>4 DEF CountsOff
  <2>. QED  BY <2>1, <2>2, <2>3, <2>4, InviteMoves
<1>. QED  BY <1>12, <1>13 DEF H2, C2

LEMMA AdmissionInit == Init => AdmissionBound
<1> SUFFICES ASSUME Init, NEW i \in Invites
             PROVE  /\ admitted[i] + Cardinality(Holding(i))
                       <= MaxUses + lost[i] + Cardinality(Requests) - 1
                    /\ admitted[i] = invites[i].uses + lost[i] + Cardinality(Counting(i))
  BY DEF AdmissionBound
<1>1. Holding(i) = {} /\ Counting(i) = {}
  BY InitialRows DEF Holding, Counting
<1>2. Cardinality(Holding(i)) = 0 /\ Cardinality(Counting(i)) = 0
  BY <1>1, FS_EmptySet
<1>3. admitted[i] = invites[i].uses /\ lost[i] = 0 /\ invites[i].uses <= MaxUses
  BY InitialRows DEF Init
<1>4. invites[i].uses \in Nat /\ MaxUses \in Nat
  BY InitType, MembershipAssumption DEF Types, InvitesOK, Invite
<1>5. Cardinality(Requests) \in Nat /\ Cardinality(Requests) # 0
  BY MembershipAssumption, FS_CardinalityType, FS_EmptySet
<1>. QED  BY <1>2, <1>3, <1>4, <1>5

\* An invite admits at most max_uses, one more for each use that was not written down,
\* and those that had read it before it was used up, the other requests at most
\* (invites/service.go:119-149, auth/service.go:108-160).
THEOREM AdmissionBoundHolds == Spec => []AdmissionBound
<1>1. Types /\ CodeInv /\ AdmissionBound /\ [Next]_mvars => AdmissionBound'
  <2>1. Types /\ CodeInv /\ AdmissionBound /\ Stepping => AdmissionBound'
    BY AdmissionStep DEF Stepping
  <2>2. AdmissionBound /\ UNCHANGED untouched => AdmissionBound'
    BY DEF untouched, AdmissionBound, Holding, Counting
  <2>. QED  BY <2>1, <2>2, NextSteps
<1>. QED  BY TypesHold, CodesHold, AdmissionInit, <1>1, PTL DEF Spec

\* What holds of every state: the types, whom a half-made space admits, and what an
\* invite admits.
THEOREM InvHolds == Spec => []Inv
<1>1. Types /\ HalfMadeIsClosed /\ AdmissionBound => Inv
  BY TypesMean DEF Inv
<1>. QED  BY TypesHold, HalfMadeIsClosedHolds, AdmissionBoundHolds, <1>1, PTL
--------------------------------------------------------------------------------
(***************************************************************************)
(* Accounts.  Who counts the users and finds some has an administrator     *)
(* before it.                                                              *)
(***************************************************************************)
Settling == adminLeft \/ admins \cap Active # {}
AdminInv == \A r \in Requests : req[r].pc = "user" /\ ~req[r].first => Settling

LEMMA UserSteps ==
    ASSUME Types, NEW r \in Requests, Step(r), NEW u \in Users
    PROVE  \/ users'[u] = users[u]
           \/ /\ RegisterUser(r) /\ u = req[r].actor
              /\ users[u] = "absent" /\ users'[u] = "active"
           \/ /\ DeleteCurrentUser(r) /\ users[u] = "active" /\ users'[u] = "deleted"
              /\ u \in admins => adminLeft'
<1>0. RequestOK(req[r]) /\ users \in [Users -> {"absent", "active", "deleted"}]
  BY DEF Types, RequestsOK, AccountsOK
<1>1. CASE RegisterUser(r)
  BY <1>0, <1>1 DEF RegisterUser, CreateUser, RequestOK, At
<1>2. CASE DeleteCurrentUser(r)
  <2>1. PICK v \in Active : SoftDeleteUser(v) /\ adminLeft' = (adminLeft \/ v \in admins)
    BY <1>2 DEF DeleteCurrentUser
  <2>2. users' = [users EXCEPT ![v] = "deleted"] /\ v \in Users /\ users[v] = "active"
    BY <2>1 DEF SoftDeleteUser, Active
  <2>3. v \in admins => adminLeft'
    BY <2>1
  <2>. QED  BY <1>0, <1>2, <2>2, <2>3
<1>. QED  BY <1>1, <1>2, Writers

LEMMA SettlingStays ==
    ASSUME Types, NEW r \in Requests, Step(r), Settling
    PROVE  Settling'
<1>1. adminLeft => adminLeft'
  <2>1. CASE DeleteCurrentUser(r)
    BY <2>1 DEF DeleteCurrentUser
  <2>. QED  BY <2>1, Writers
<1>2. ASSUME NEW u \in admins \cap Active
      PROVE  Settling'
  <2>1. u \in Users /\ users[u] = "active" /\ u \in admins'
    BY HistoryGrows DEF Active
  <2>2. users'[u] = "active" \/ adminLeft'
    BY <2>1, UserSteps
  <2>. QED  BY <2>1, <2>2 DEF Settling, Active
<1>. QED  BY <1>1, <1>2 DEF Settling

LEMMA AdminStep ==
    ASSUME Types, AdminInv, SomeAdministrator, NEW r \in Requests, Step(r)
    PROVE  AdminInv' /\ SomeAdministrator'
<1>0. Arrives(r) /\ RequestOK(req[r])
  BY StepArrives DEF Types, RequestsOK
<1>1. ASSUME NEW x \in Requests, req'[x].pc = "user", ~req'[x].first
      PROVE  Settling'
  <2>1. CASE x # r
    BY <1>0, <1>1, <2>1, SettlingStays DEF Arrives, Others, AdminInv
  <2>2. CASE x = r
    <3>1. CountIsZero(r)
      BY <1>0, <1>1, <2>2 DEF Arrives
    <3>2. req'[r].first = (CountUsers = 0)
      BY <3>1 DEF CountIsZero, Types, RequestsOK, Request
    <3>3. Active # {}
      BY <1>1, <2>2, <3>2, FS_EmptySet DEF CountUsers
    <3>. QED  BY <3>3, SettlingStays DEF SomeAdministrator, Settling
  <2>. QED  BY <2>1, <2>2
<1>2. SomeAdministrator'
  <2>1. CASE Settling
    BY <2>1, SettlingStays DEF SomeAdministrator, Settling
  <2>2. CASE ~Settling
    <3>1. Active = {}
      BY <2>2 DEF SomeAdministrator, Settling
    <3>2. CASE RegisterUser(r)
      <4>1. req[r].first /\ req[r].actor \in Users
        BY <1>0, <2>2, <3>2 DEF RegisterUser, At, AdminInv, RequestOK
      <4>2. req[r].actor \in admins' /\ users'[req[r].actor] = "active"
        BY <3>2, <4>1 DEF RegisterUser, CreateUser, Types, AccountsOK
      <4>. QED  BY <4>1, <4>2 DEF SomeAdministrator, Active
    <3>3. CASE ~RegisterUser(r)
      <4>1. \A u \in Users : users'[u] # "active"
        BY <3>1, <3>3, UserSteps DEF Active
      <4>. QED  BY <4>1 DEF SomeAdministrator, Active
    <3>. QED  BY <3>2, <3>3
  <2>. QED  BY <2>1, <2>2
<1>. QED  BY <1>1, <1>2 DEF AdminInv

\* A server with users has an administrator, or one has left, however the first
\* registrations overlap (auth/service.go:119-130).
THEOREM SomeAdministratorHolds == Spec => []SomeAdministrator
<1>1. Init => AdminInv /\ SomeAdministrator
  BY InitialRows DEF AdminInv, SomeAdministrator
<1>2. Types /\ AdminInv /\ SomeAdministrator /\ [Next]_mvars => (AdminInv /\ SomeAdministrator)'
  <2>1. Types /\ AdminInv /\ SomeAdministrator /\ Stepping => (AdminInv /\ SomeAdministrator)'
    BY AdminStep DEF Stepping
  <2>2. AdminInv /\ SomeAdministrator /\ UNCHANGED untouched => (AdminInv /\ SomeAdministrator)'
    BY DEF untouched, AdminInv, SomeAdministrator, Settling, Active
  <2>. QED  BY <2>1, <2>2, NextSteps
<1>. QED  BY TypesHold, <1>1, <1>2, PTL DEF Spec
--------------------------------------------------------------------------------
\* A token is that of an account, and is taken away after the account is verified.
TokenInv ==
    /\ \A u \in Users : tokens[u] # {} => users[u] # "absent"
    /\ \A r \in Requests :
          req[r].pc \in {"use", "token", "purge", "verify"} => users[req[r].actor] # "absent"
    /\ \A r \in Requests :
          req[r].pc = "consume" => req[r].actor \in verified \/ users[req[r].actor] = "deleted"

LEMMA TokenStep ==
    ASSUME Types, TokenInv, NEW r \in Requests, Step(r)
    PROVE  TokenInv'
<1> USE DEF At
<1>0. /\ Arrives(r) /\ \A x \in Requests : RequestOK(req[x])
      /\ users \in [Users -> {"absent", "active", "deleted"}]
      /\ tokens \in [Users -> SUBSET Requests]
      /\ req \in [Requests -> Request]
  BY StepArrives DEF Types, RequestsOK, AccountsOK
<1>1. \A u \in Users :
        /\ users[u] # "absent" => users'[u] # "absent"
        /\ users[u] = "deleted" => users'[u] = "deleted"
  BY UserSteps
<1>2. verified \subseteq verified'
  BY Writers DEF MarkVerified, VerifyUserEmail
<1>3. ASSUME NEW u \in Users, tokens'[u] # {}
      PROVE  users'[u] # "absent"
  <2>1. CASE tokens[u] # {}
    BY <1>1, <2>1 DEF TokenInv
  <2>2. CASE tokens[u] = {} /\ StoreToken(r)
    <3>1. u = req[r].actor /\ req[r].pc = "token"
      BY <1>0, <1>3, <2>2 DEF StoreToken, CreateEmailVerification, RequestOK
    <3>. QED  BY <1>1, <3>1 DEF TokenInv
  <2>3. CASE tokens[u] = {} /\ ConsumeToken(r)
    BY <1>0, <1>3, <2>3 DEF ConsumeToken, DeleteEmailVerification, RequestOK
  <2>4. CASE tokens[u] = {} /\ PurgeTokens(r)
    BY <1>0, <1>3, <2>4 DEF PurgeTokens, DeleteUserEmailVerifications, RequestOK
  <2>. QED  BY <1>3, <2>1, <2>2, <2>3, <2>4, Writers
<1>4. ASSUME NEW x \in Requests, req'[x].pc \in {"use", "token", "purge", "verify"}
      PROVE  users'[req'[x].actor] # "absent"
  <2>1. CASE x # r
    BY <1>0, <1>1, <1>4, <2>1 DEF Arrives, Others, TokenInv, RequestOK
  <2>2. CASE x = r /\ RegisterUser(r)
    <3>1. req'[r].actor = req[r].actor /\ req[r].actor \in Users
      BY <1>0, <2>2, Keeps DEF RegisterUser, Same, RequestOK
    <3>. QED  BY <1>0, <2>2, <3>1 DEF RegisterUser, CreateUser
  <2>3. CASE x = r /\ (CountUse(r) \/ PurgeTokens(r)) /\ req'[r].pc = "token"
    <3>1. req[r].pc \in {"use", "purge"}
      BY <1>0, <2>3 DEF CountUse, PurgeTokens, Goto, Request
    <3>2. req'[r].actor = req[r].actor /\ req[r].actor \in Users
      BY <1>0, <3>1, Keeps DEF Same, RequestOK
    <3>. QED  BY <1>1, <2>3, <3>1, <3>2 DEF TokenInv
  <2>4. CASE x = r /\ VerifyEmail(r)
    <3>1. PICK u \in Users, t \in Requests : FindToken(r, u, t)
      BY <2>4 DEF VerifyEmail
    <3>2. req'[r].actor = u /\ tokens[u] # {}
      BY <3>1, FindTokenStarts DEF Types, FindToken, GetEmailVerificationByToken
    <3>. QED  BY <1>1, <2>4, <3>2 DEF TokenInv
  <2>5. CASE x = r /\ ResendVerification(r)
    <3>1. PICK u \in Users : FindUnverified(r, u)
      BY <2>5 DEF ResendVerification
    <3>2. req'[r].actor = u /\ users[u] = "active"
      BY <3>1, FindUnverifiedStarts DEF Types, FindUnverified, GetUserByEmail
    <3>. QED  BY <1>1, <2>5, <3>2
  <2>. QED  BY <1>0, <1>4, <2>1, <2>2, <2>3, <2>4, <2>5 DEF Arrives
<1>5. ASSUME NEW x \in Requests, req'[x].pc = "consume", req'[x].actor \in Users
      PROVE  req'[x].actor \in verified' \/ users'[req'[x].actor] = "deleted"
  <2>1. CASE x # r
    BY <1>0, <1>1, <1>2, <1>5, <2>1 DEF Arrives, Others, TokenInv
  <2>2. CASE x = r
    <3>1. MarkVerified(r) /\ req'[r].actor = req[r].actor /\ req[r].actor \in Users
      BY <1>0, <1>5, <2>2, Keeps DEF Arrives, MarkVerified, Same, RequestOK
    <3>2. users[req[r].actor] \in {"active", "deleted"}
      BY <1>0, <3>1 DEF MarkVerified, TokenInv
    <3>3. users[req[r].actor] = "active" => req[r].actor \in verified'
      BY <3>1 DEF MarkVerified, VerifyUserEmail, Active
    <3>. QED  BY <1>1, <2>2, <3>1, <3>2, <3>3
  <2>. QED  BY <2>1, <2>2
<1>6. \A x \in Requests : req'[x].pc = "consume" => req'[x].actor \in Users
  BY <1>0 DEF Arrives, Others, RequestOK
<1>. QED  BY <1>3, <1>4, <1>5, <1>6 DEF TokenInv

\* A token on its way to a user who has none.
Coming(u) == \E r \in Requests : req[r].pc \in {"use", "token"} /\ req[r].actor = u

LEMMA VerifyStep ==
    ASSUME Types, TokenInv, CanVerify, NEW r \in Requests, Step(r)
    PROVE  CanVerify'
<1> USE DEF At
<1>0. /\ Arrives(r) /\ \A x \in Requests : RequestOK(req[x])
      /\ users \in [Users -> {"absent", "active", "deleted"}]
      /\ tokens \in [Users -> SUBSET Requests]
      /\ req \in [Requests -> Request]
  BY StepArrives DEF Types, RequestsOK, AccountsOK
<1>1. SUFFICES ASSUME NEW u \in Users, users'[u] = "active", u \notin verified', u \notin stuck'
               PROVE  tokens'[u] # {} \/ Coming(u)'
  BY DEF CanVerify, Active, Coming
<1>2. u \notin verified
  BY <1>1, Writers DEF MarkVerified, VerifyUserEmail
<1>8. CASE u \in stuck
  <2>1. StoreToken(r)
    BY <1>1, <1>8, Writers
  <2>2. u = req[r].actor /\ CreateEmailVerification(u, r)
    BY <1>1, <1>8, <2>1 DEF StoreToken
  <2>. QED  BY <1>0, <2>2 DEF CreateEmailVerification
<1>3. CASE RegisterUser(r) /\ u = req[r].actor
  <2>1. req'[r].actor = u
    BY <1>3, Keeps DEF RegisterUser, Same
  <2>2. req'[r].pc \in {"use", "token"}
    BY <1>0, <1>3 DEF RegisterUser, Goto, Request
  <2>. QED  BY <2>1, <2>2 DEF Coming
<1>4. CASE users[u] = "active" /\ Coming(u)
  <2>1. PICK x \in Requests : req[x].pc \in {"use", "token"} /\ req[x].actor = u
    BY <1>4 DEF Coming
  <2>2. CASE x # r
    BY <1>0, <2>1, <2>2 DEF Arrives, Others, Coming
  <2>3. CASE x = r /\ CountUse(r)
    <3>1. req'[r].actor = u
      BY <2>1, <2>3, Keeps DEF Same
    <3>2. req'[r].pc = "token"
      BY <1>0, <2>1, <2>3 DEF CountUse, Goto, Request, RequestOK
    <3>. QED  BY <3>1, <3>2 DEF Coming
  <2>4. CASE x = r /\ StoreToken(r)
    <3>1. CreateEmailVerification(u, r)
      BY <1>1, <2>1, <2>4 DEF StoreToken
    <3>. QED  BY <1>0, <3>1 DEF CreateEmailVerification
  <2>5. CASE x = r /\ ~CountUse(r) /\ ~StoreToken(r)
    BY <2>1, <2>5
       DEF Step, Accounting, Governing, Inviting, Refused, Register, CountIsZero, RegisterUser,
           VerifyEmail, MarkVerified, ConsumeToken, ResendVerification, PurgeTokens,
           DeleteCurrentUser, CreateSpace, StoreSpace, StoreOwner, EndCreateSpace, DeleteSpace,
           CloseSpace, AdminDeleteSpace, KickMember, ReadTargetRole, ReadActorRole, KickOut,
           ChangeMemberRole, ReadCurrentRole, ChangeRole, CreateInvite, IssueInvite, RevokeInvite,
           StoreRevocation, AdminRevokeInvite, JoinViaInvite, CheckJoin, JoinSpace
  <2>. QED  BY <2>2, <2>3, <2>4, <2>5
<1>5. CASE users[u] = "active" /\ tokens[u] # {}
  <2>1. CASE StoreToken(r)
    BY <1>0, <1>5, <2>1 DEF StoreToken, CreateEmailVerification, RequestOK
  <2>2. CASE ConsumeToken(r)
    <3>1. req[r].actor # u
      BY <1>2, <1>5, <2>2 DEF ConsumeToken, TokenInv
    <3>. QED  BY <1>0, <1>5, <2>2, <3>1 DEF ConsumeToken, DeleteEmailVerification
  <2>3. CASE PurgeTokens(r) /\ req[r].actor = u
    <3>1. req'[r].actor = u
      BY <2>3, Keeps DEF PurgeTokens, Same
    <3>2. req'[r].pc = "token"
      BY <1>0, <2>3 DEF PurgeTokens, Goto, Request
    <3>. QED  BY <3>1, <3>2 DEF Coming
  <2>4. CASE PurgeTokens(r) /\ req[r].actor # u
    BY <1>0, <1>5, <2>4 DEF PurgeTokens, DeleteUserEmailVerifications
  <2>. QED  BY <1>5, <2>1, <2>2, <2>3, <2>4, Writers
<1>6. users[u] = "active" /\ u \notin stuck => Coming(u) \/ tokens[u] # {}
  BY <1>2 DEF CanVerify, Active, Coming
<1>7. users[u] = "active" \/ (RegisterUser(r) /\ u = req[r].actor)
  BY <1>1, UserSteps
<1>. QED  BY <1>3, <1>4, <1>5, <1>6, <1>7, <1>8

LEMMA ExpiryStep ==
    ASSUME Types, TokenInv, CanVerify, Expiring
    PROVE  (TokenInv /\ CanVerify)'
<1>1. PICK u \in Users, t \in Requests : TokenExpires(u, t)
  BY DEF Expiring
<1>2. /\ tokens' = [tokens EXCEPT ![u] = @ \ {t}] /\ t \in tokens[u]
      /\ stuck' = IF tokens[u] = {t} THEN stuck \cup {u} ELSE stuck
      /\ UNCHANGED <<users, verified, req>>
  BY <1>1 DEF TokenExpires, DeleteEmailVerification
<1>3. tokens \in [Users -> SUBSET Requests]
  BY DEF Types, AccountsOK
<1>4. \A v \in Users : tokens'[v] \subseteq tokens[v]
  BY <1>2, <1>3
<1>5. TokenInv'
  BY <1>2, <1>4 DEF TokenInv
<1>6. ASSUME NEW v \in Active \ (verified \cup stuck')
      PROVE  tokens'[v] # {} \/ Coming(v)
  <2>1. v \in Users /\ v \notin stuck
    BY <1>2, <1>6 DEF Active
  <2>2. tokens[v] # {} \/ Coming(v)
    BY <1>6, <2>1 DEF CanVerify, Coming
  <2>3. CASE v = u
    BY <1>2, <1>3, <1>6, <2>3
  <2>4. CASE v # u
    BY <1>2, <1>3, <2>1, <2>2, <2>4
  <2>. QED  BY <2>3, <2>4
<1>7. CanVerify'
  BY <1>2, <1>6 DEF CanVerify, Active, Coming
<1>. QED  BY <1>5, <1>7

\* A user who is not verified has a token or one on its way, unless storing one has failed
\* or the last has expired since: no verification, purge or overlap takes it away
\* (auth/service.go:326-337, 471-482).
THEOREM CanVerifyHolds == Spec => []CanVerify
<1>1. Init => TokenInv /\ CanVerify
  <2> SUFFICES ASSUME Init PROVE TokenInv /\ CanVerify
    OBVIOUS
  <2>1. \A u \in Users : tokens[u] = {}
    BY DEF Init
  <2>2. Active \subseteq verified
    BY InitialRows
  <2>. QED  BY <2>1, <2>2, InitialRows DEF TokenInv, CanVerify
<1>2. Types /\ TokenInv /\ CanVerify /\ [Next]_mvars => (TokenInv /\ CanVerify)'
  <2>1. Types /\ TokenInv /\ CanVerify /\ Stepping => (TokenInv /\ CanVerify)'
    BY TokenStep, VerifyStep DEF Stepping
  <2>2. TokenInv /\ CanVerify /\ UNCHANGED untouched /\ UNCHANGED <<tokens, stuck>>
           => (TokenInv /\ CanVerify)'
    BY DEF untouched, TokenInv, CanVerify, Active
  <2>. QED  BY <2>1, <2>2, ExpiryStep, NextSteps, NextTokens
<1>. QED  BY TypesHold, <1>1, <1>2, PTL DEF Spec
================================================================================
