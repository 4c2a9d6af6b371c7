----------------------------- MODULE AccountsProofs -----------------------------
(***************************************************************************)
(* Theorems about Accounts for every number of requests, sessions,         *)
(* resets and addresses and every lockout threshold.                       *)
(***************************************************************************)
EXTENDS Accounts, FiniteSetTheorems, TLAPS

\* The operations of a request, one disjunct of Next each, and the rest of Next.
RequestStep(r) ==
    \/ \E a \in Addresses : Login(r, a)
    \/ RequestPasswordReset(r) \/ AdminDisableUser(r)
    \/ \E s \in Sessions : ValidateRefreshToken(r, s) \/ GetSessionByID(r, s)
    \/ \E p \in Resets : GetPasswordResetByToken(r, p)
    \/ Step(r)

OtherStep ==
    \/ \E s \in Sessions : RevokeAllSessions(s) \/ AccessExpires(s) \/ SessionExpires(s)
    \/ \E p \in Resets : ResetExpires(p)
    \/ \E a \in Addresses : AttemptAges(a)
    \/ AdminRevokeSessions \/ AdminEnableUser \/ DeleteCurrentUser

LEMMA NextSteps == Next => (\E r \in Requests : RequestStep(r)) \/ OtherStep
BY DEF Next, RequestStep, OtherStep

LEMMA RevokeType ==
    ASSUME TypeOK, NEW S, Revoke(S)
    PROVE  /\ session' \in [Sessions -> {"none", "active", "ended"}]
           /\ Made' = Made
           /\ access' = access
           /\ doomed' \subseteq Active'
BY DEF TypeOK, Revoke, Made, Active

\* What a request needs in its next steps.
ArgsOK(q, made) ==
    /\ q \in Request
    /\ q.pc \in {"find", "attempt"} => q.ip \in Addresses
    /\ q.pc \in {"refresh", "end"} => q.session \in made
    /\ q.pc \in {"password", "mark"} => q.reset \in Resets

LEMMA ArgsType == TypeOK => \A q \in Requests : ArgsOK(req[q], Made)
BY DEF TypeOK, ArgsOK

LEMMA IdleArgs == \A made : ArgsOK(NoRequest, made)
BY DEF ArgsOK, NoRequest, Request, Phases

\* A step that changes no more than req, and it well.
LEMMA RequestsOnly ==
    ASSUME TypeOK, NEW r \in Requests, NEW q, ArgsOK(q, Made),
           req' = [req EXCEPT ![r] = q],
           UNCHANGED <<account, sessions, reset, uses>>,
           failures' \in [Addresses -> Nat], shared' \subseteq Resets
    PROVE  TypeOK'
<1>1. Made' = Made /\ Active' = Active
  BY DEF Made, Active, sessions
<1>2. \A x \in Requests : ArgsOK(req'[x], Made)
  BY ArgsType DEF TypeOK
<1>. QED  BY <1>1, <1>2 DEF TypeOK, ArgsOK, account, sessions

LEMMA CondemnType ==
    ASSUME TypeOK, NEW r \in Requests, NEW phase, Condemn(r, phase), session' = session,
           ArgsOK([req[r] EXCEPT !.pc = phase], Made)
    PROVE  /\ req' \in [Requests -> Request]
           /\ \A q \in Requests : ArgsOK(req'[q], Made')
           /\ doomed' \subseteq Active'
<1>1. Made' = Made /\ Active' = Active
  BY DEF Made, Active
<1>2. ASSUME NEW q \in Requests
      PROVE  ArgsOK(req'[q], Made)
  <2>1. ArgsOK(req[q], Made)
    BY ArgsType
  <2>2. ArgsOK([req[q] EXCEPT !.old = TRUE], Made)
    BY <2>1 DEF ArgsOK, Request
  <2>. QED  BY <2>1, <2>2 DEF Condemn
<1>. QED  BY <1>1, <1>2 DEF Condemn, ArgsOK

LEMMA RequestType ==
    ASSUME TypeOK, NEW r \in Requests, RequestStep(r)
    PROVE  TypeOK'
<1> USE DEF account, sessions, resets
<1> DEFINE idle == req' = [req EXCEPT ![r] = NoRequest]
<1>a. req[r] \in Request /\ ArgsOK(req[r], Made) /\ ArgsOK(NoRequest, Made)
  BY ArgsType, IdleArgs DEF TypeOK
<1>b. ASSUME NEW phase \in Phases \ {"find", "attempt", "refresh", "end", "password", "mark"}
      PROVE  /\ ArgsOK([req[r] EXCEPT !.pc = phase], Made)
             /\ Goto(r, phase) => req' = [req EXCEPT ![r] = [req[r] EXCEPT !.pc = phase]]
  BY <1>a DEF ArgsOK, Request, Goto
<1>c. Finish(r) => req' = [req EXCEPT ![r] = NoRequest]
  BY DEF Finish
<1>1. ASSUME NEW a \in Addresses, Login(r, a)
      PROVE  TypeOK'
  <2>1. ArgsOK([req[r] EXCEPT !.pc = "find", !.ip = a], Made)
    BY <1>a DEF ArgsOK, Request, Phases
  <2>2. /\ req' = [req EXCEPT ![r] = [req[r] EXCEPT !.pc = "find", !.ip = a]]
        /\ UNCHANGED <<account, sessions, resets, failures>>
    BY <1>1 DEF Login
  <2>. QED  BY <2>1, <2>2, RequestsOnly DEF TypeOK
<1>2. CASE RequestPasswordReset(r)
  BY <1>2, <1>b, RequestsOnly DEF RequestPasswordReset, Phases, TypeOK
<1>3. CASE AdminDisableUser(r)
  <2>1. ArgsOK([req[r] EXCEPT !.pc = "revoke"], Made)
    BY <1>b DEF Phases
  <2>. QED  BY <1>3, <2>1, CondemnType DEF AdminDisableUser, TypeOK, Made, ArgsOK
<1>4. ASSUME NEW s \in Sessions, ValidateRefreshToken(r, s)
      PROVE  TypeOK'
  <2>1. s \in Made
    BY <1>4 DEF ValidateRefreshToken, Made
  <2>2. \A phase \in {"refresh", "end"} : ArgsOK([req[r] EXCEPT !.pc = phase, !.session = s], Made)
    BY <1>a, <2>1 DEF ArgsOK, Request, Phases
  <2>. QED  BY <1>4, <2>2, RequestsOnly DEF ValidateRefreshToken, TypeOK
<1>5. ASSUME NEW s \in Sessions, GetSessionByID(r, s)
      PROVE  TypeOK'
  <2>1. s \in Made
    BY <1>5 DEF GetSessionByID, Made
  <2>2. ArgsOK([req[r] EXCEPT !.pc = "end", !.session = s], Made)
    BY <1>a, <2>1 DEF ArgsOK, Request, Phases
  <2>. QED  BY <1>5, <2>2, RequestsOnly DEF GetSessionByID, TypeOK
<1>6. ASSUME NEW p \in Resets, GetPasswordResetByToken(r, p)
      PROVE  TypeOK'
  <2>1. ArgsOK([req[r] EXCEPT !.pc = "password", !.reset = p], Made)
    BY <1>a DEF ArgsOK, Request, Phases
  <2>2. /\ req' = [req EXCEPT ![r] = [req[r] EXCEPT !.pc = "password", !.reset = p]]
        /\ UNCHANGED <<account, sessions, reset, uses, failures>>
    BY <1>6 DEF GetPasswordResetByToken
  <2>3. shared' \subseteq Resets /\ failures' \in [Addresses -> Nat]
    BY <1>6, <2>2 DEF GetPasswordResetByToken, TypeOK
  <2>. QED  BY <2>1, <2>2, <2>3, RequestsOnly
<1>7. CASE GetUserByEmail(r)
  <2>1. UNCHANGED <<account, sessions, resets, failures>> /\ req[r].pc = "find"
    BY <1>7 DEF GetUserByEmail, At
  <2>2. CASE req' = [req EXCEPT ![r].pc = "create", ![r].ip = NoAddress]
    <3>1. ArgsOK([req[r] EXCEPT !.pc = "create", !.ip = NoAddress], Made)
      <4> DEFINE q == [req[r] EXCEPT !.pc = "create", !.ip = NoAddress]
      <4>1. q \in Request
        BY <1>a DEF Request, Phases
      <4>2. q.pc = "create"
        BY <1>a DEF Request
      <4>3. \A z \in Request : z.pc = "create" => ArgsOK(z, Made)
        BY DEF ArgsOK
      <4>. QED  BY <4>1, <4>2, <4>3
    <3>2. req' = [req EXCEPT ![r] = [req[r] EXCEPT !.pc = "create", !.ip = NoAddress]]
      BY <2>2
    <3>. QED  BY <2>1, <3>1, <3>2, RequestsOnly DEF TypeOK
  <2>3. CASE Goto(r, "attempt")
    <3>1. ArgsOK([req[r] EXCEPT !.pc = "attempt"], Made)
      BY <1>a, <2>1 DEF ArgsOK, Request, Phases
    <3>. QED  BY <2>1, <2>3, <3>1, RequestsOnly DEF Goto, TypeOK
  <2>4. CASE Finish(r)
    BY <2>1, <2>4, <1>a, <1>c, RequestsOnly DEF TypeOK
  <2>. QED  BY <1>7, <2>2, <2>3, <2>4 DEF GetUserByEmail
<1>8. CASE RecordLoginAttempt(r)
  <2>1. req[r].ip \in Addresses
    BY <1>8, <1>a DEF RecordLoginAttempt, At, ArgsOK
  <2>2. failures' \in [Addresses -> Nat]
    BY <1>8, <2>1 DEF RecordLoginAttempt, TypeOK
  <2>3. UNCHANGED <<account, sessions, reset, uses>> /\ shared' \subseteq Resets /\ Finish(r)
    BY <1>8 DEF RecordLoginAttempt, TypeOK
  <2>. QED  BY <1>a, <1>c, <2>2, <2>3, RequestsOnly
<1>9. CASE CreateSession(r)
  <2> DEFINE s == Cardinality(Made) + 1
  <2>1. CASE UNCHANGED sessions
    BY <1>9, <1>a, <1>c, <2>1, RequestsOnly DEF CreateSession, TypeOK
  <2>2. CASE /\ s \in Sessions
             /\ session' = [session EXCEPT ![s] = "active"]
             /\ access' = access \cup {s}
             /\ doomed' \subseteq doomed \cup {s}
    <3>1. session' \in [Sessions -> {"none", "active", "ended"}] /\ session'[s] = "active"
      <4>1. session \in [Sessions -> {"none", "active", "ended"}]
        BY DEF TypeOK
      <4>. QED  BY <2>2, <4>1
    <3>2. Made' = Made \cup {s} /\ Active' = Active \cup {s}
      BY <2>2, <3>1 DEF TypeOK, Made, Active
    <3>3. access' \subseteq Made' /\ doomed' \subseteq Active'
      BY <2>2, <3>2 DEF TypeOK
    <3>4. \A q \in Requests : ArgsOK(req'[q], Made')
      BY <1>9, <1>a, <3>2, ArgsType, IdleArgs DEF CreateSession, Finish, TypeOK, ArgsOK
    <3>5. req' \in [Requests -> Request]
      BY <1>9, <1>a DEF CreateSession, Finish, TypeOK, ArgsOK
    <3>. QED  BY <1>9, <3>1, <3>3, <3>4, <3>5 DEF CreateSession, TypeOK, ArgsOK
  <2>. QED  BY <1>9, <2>1, <2>2 DEF CreateSession
<1>10. CASE RefreshTokens(r)
  <2>1. Made' = Made /\ Active' = Active
    BY <1>10 DEF RefreshTokens, Made, Active
  <2>2. access' \subseteq Made
    BY <1>10, <1>a DEF RefreshTokens, At, TypeOK, ArgsOK
  <2>3. req' \in [Requests -> Request] /\ \A q \in Requests : ArgsOK(req'[q], Made)
    BY <1>10, <1>a, ArgsType DEF RefreshTokens, Finish, TypeOK, ArgsOK
  <2>. QED  BY <1>10, <2>1, <2>2, <2>3 DEF RefreshTokens, TypeOK, ArgsOK
<1>11. CASE RevokeSession(r)
  <2>1. req' \in [Requests -> Request] /\ \A q \in Requests : ArgsOK(req'[q], Made)
    BY <1>11, <1>a, ArgsType DEF RevokeSession, Finish, TypeOK, ArgsOK
  <2>2. CASE Revoke({req[r].session})
    BY <1>11, <2>1, <2>2, RevokeType DEF RevokeSession, TypeOK, ArgsOK
  <2>3. CASE UNCHANGED sessions
    BY <1>11, <1>a, <1>c, <2>3, RequestsOnly DEF RevokeSession, TypeOK
  <2>. QED  BY <1>11, <2>2, <2>3 DEF RevokeSession
<1>12. CASE CreatePasswordReset(r)
  <2>1. Made' = Made /\ Active' = Active
    BY <1>12 DEF CreatePasswordReset, Made, Active
  <2>2. req' \in [Requests -> Request] /\ \A q \in Requests : ArgsOK(req'[q], Made)
    BY <1>12, <1>a, ArgsType DEF CreatePasswordReset, Finish, TypeOK, ArgsOK
  <2>. QED  BY <1>12, <2>1, <2>2 DEF CreatePasswordReset, TypeOK, ArgsOK
<1>13. CASE UpdateUserPassword(r)
  <2>1. req[r].pc = "password"
    BY <1>13 DEF UpdateUserPassword, At
  <2>2. ArgsOK([req[r] EXCEPT !.pc = "mark"], Made)
    BY <1>a, <2>1 DEF ArgsOK, Request, Phases
  <2>3. CASE Condemn(r, "mark") /\ uses' = [uses EXCEPT ![req[r].reset] = IF @ < 2 THEN @ + 1 ELSE @]
    <3>0. \A p \in Resets : uses[p] \in 0..2 /\ (uses[p] < 2 => uses[p] + 1 \in 0..2)
      BY DEF TypeOK
    <3>1. uses' \in [Resets -> 0..2]
      BY <2>3, <3>0 DEF TypeOK
    <3>. QED  BY <1>13, <2>2, <2>3, <3>1, CondemnType DEF UpdateUserPassword, TypeOK, Made, ArgsOK
  <2>4. CASE (Goto(r, "mark") \/ Finish(r)) /\ UNCHANGED <<uses, doomed>>
    BY <1>13, <1>a, <1>c, <2>2, <2>4, RequestsOnly DEF UpdateUserPassword, Goto, TypeOK
  <2>. QED  BY <1>13, <2>3, <2>4 DEF UpdateUserPassword
<1>14. CASE MarkPasswordResetUsed(r)
  <2>1. Made' = Made /\ Active' = Active
    BY <1>14 DEF MarkPasswordResetUsed, Made, Active
  <2>2. req' \in [Requests -> Request] /\ \A q \in Requests : ArgsOK(req'[q], Made)
    BY <1>14, <1>b, ArgsType DEF MarkPasswordResetUsed, TypeOK, ArgsOK, Phases
  <2>3. req[r].reset \in Resets
    BY <1>14, <1>a DEF MarkPasswordResetUsed, At, ArgsOK
  <2>. QED  BY <1>14, <2>1, <2>2, <2>3 DEF MarkPasswordResetUsed, TypeOK, ArgsOK
<1>15. CASE RevokeAllUserSessions(r)
  <2>1. req' \in [Requests -> Request] /\ \A q \in Requests : ArgsOK(req'[q], Made)
    BY <1>15, <1>a, ArgsType DEF RevokeAllUserSessions, Finish, TypeOK, ArgsOK
  <2>2. CASE Revoke(Sessions)
    BY <1>15, <2>1, <2>2, RevokeType DEF RevokeAllUserSessions, TypeOK, ArgsOK
  <2>3. CASE doomed' = {} /\ UNCHANGED <<session, access>>
    BY <1>15, <2>1, <2>3 DEF RevokeAllUserSessions, TypeOK, ArgsOK, Made, Active
  <2>. QED  BY <1>15, <2>2, <2>3 DEF RevokeAllUserSessions
<1>. QED  BY <1>1, <1>2, <1>3, <1>4, <1>5, <1>6, <1>7, <1>8, <1>9, <1>10, <1>11, <1>12, <1>13,
             <1>14, <1>15 DEF RequestStep, Step

LEMMA OtherType ==
    ASSUME TypeOK, OtherStep
    PROVE  TypeOK'
<1> USE DEF account, sessions, resets
<1>1. ASSUME NEW S, Revoke(S), UNCHANGED <<account, resets, failures, req>>
      PROVE  TypeOK'
  BY <1>1, RevokeType DEF TypeOK
<1>2. ASSUME NEW s \in Sessions, RevokeAllSessions(s)
      PROVE  TypeOK'
  BY <1>1, <1>2 DEF RevokeAllSessions
<1>3. CASE AdminRevokeSessions
  BY <1>1, <1>3 DEF AdminRevokeSessions
<1>4. ASSUME NEW s \in Sessions, AccessExpires(s)
      PROVE  TypeOK'
  BY <1>4 DEF AccessExpires, TypeOK, Made, Active
<1>5. ASSUME NEW s \in Sessions, SessionExpires(s)
      PROVE  TypeOK'
  BY <1>5 DEF SessionExpires, TypeOK, Made, Active
<1>6. ASSUME NEW p \in Resets, ResetExpires(p)
      PROVE  TypeOK'
  BY <1>6 DEF ResetExpires, TypeOK, Made, Active
<1>7. ASSUME NEW a \in Addresses, AttemptAges(a)
      PROVE  TypeOK'
  <2>1. failures' \in [Addresses -> Nat]
    BY <1>7 DEF AttemptAges, TypeOK
  <2>. QED  BY <1>7, <2>1 DEF AttemptAges, TypeOK, Made, Active
<1>8. CASE AdminEnableUser
  BY <1>8 DEF AdminEnableUser, TypeOK, Made, Active
<1>9. CASE DeleteCurrentUser
  BY <1>9 DEF DeleteCurrentUser, TypeOK, Made, Active
<1>. QED  BY <1>2, <1>3, <1>4, <1>5, <1>6, <1>7, <1>8, <1>9 DEF OtherStep

LEMMA InitType == Init => TypeOK
<1> SUFFICES ASSUME Init PROVE TypeOK
  OBVIOUS
<1>1. req \in [Requests -> Request] /\ \A r \in Requests : req[r].pc = "idle"
  BY DEF Init, NoRequest, Request, Phases
<1>2. uses \in [Resets -> 0..2]
  BY DEF Init
<1>3. /\ session \in [Sessions -> {"none", "active", "ended"}]
      /\ reset \in [Resets -> {"none", "fresh", "used"}]
      /\ access = {} /\ doomed = {} /\ shared = {}
      /\ disabled \in BOOLEAN /\ deleted \in BOOLEAN /\ failures \in [Addresses -> Nat]
  BY DEF Init
<1>. QED  BY <1>1, <1>2, <1>3 DEF TypeOK

LEMMA NextType ==
    ASSUME TypeOK, [Next]_vars
    PROVE  TypeOK'
<1>1. CASE UNCHANGED vars
  BY <1>1 DEF vars, account, sessions, resets, TypeOK, Made, Active
<1>2. CASE Next
  BY <1>2, NextSteps, RequestType, OtherType
<1>. QED  BY <1>1, <1>2

\* The variables keep their types, and a request what its next steps need.
THEOREM TypeCorrect == Spec => []TypeOK
<1>. QED  BY InitType, NextType, PTL DEF Spec
--------------------------------------------------------------------------------
(***************************************************************************)
(* The lockout. A login holds its place from the count of the attempts on, *)
(* until its own attempt is recorded.                                      *)
(***************************************************************************)
Comparing(a) == {r \in Requests : req[r].pc \in {"find", "attempt"} /\ req[r].ip = a}
LockoutAt(a) == failures[a] + Cardinality(Comparing(a)) < LockoutThreshold + Cardinality(Requests)

LockoutInv == \A a \in Addresses : LockoutAt(a)

LEMMA ComparingFinite ==
    /\ \A S : S \subseteq Requests => IsFiniteSet(S) /\ Cardinality(S) \in Nat
                                      /\ Cardinality(S) <= Cardinality(Requests)
    /\ \A a : Comparing(a) \subseteq Requests /\ Comparing(a)' \subseteq Requests
    /\ Cardinality(Requests) \in Nat
BY AccountsAssumption, FS_Subset, FS_CardinalityType DEF Comparing

\* A step that neither records an attempt from a nor starts a login from there.
LEMMA FewerCompare ==
    ASSUME TypeOK, LockoutInv, NEW a \in Addresses, failures'[a] \in Nat,
           failures'[a] <= failures[a], Comparing(a)' \subseteq Comparing(a)
    PROVE  LockoutAt(a)'
<1>1. /\ Cardinality(Comparing(a)') <= Cardinality(Comparing(a))
      /\ Cardinality(Comparing(a)') \in Nat /\ Cardinality(Comparing(a)) \in Nat
  BY ComparingFinite, FS_Subset
<1>2. failures[a] + Cardinality(Comparing(a)) < LockoutThreshold + Cardinality(Requests)
  BY DEF LockoutInv, LockoutAt
<1>3. failures[a] \in Nat
  BY DEF TypeOK
<1>. QED  BY <1>1, <1>2, <1>3, ComparingFinite, AccountsAssumption DEF LockoutAt

LEMMA LoginKeepsLockout ==
    ASSUME TypeOK, LockoutInv, NEW r \in Requests, NEW b \in Addresses, Login(r, b)
    PROVE  LockoutInv'
<1>0. failures' = failures /\ failures \in [Addresses -> Nat] /\ failures[b] < LockoutThreshold
  BY DEF Login, TypeOK
<1>1. ASSUME NEW a \in Addresses
      PROVE  LockoutAt(a)'
  <2>1. CASE a = b
    <3>1. Cardinality(Comparing(a)') \in Nat /\ Cardinality(Comparing(a)') <= Cardinality(Requests)
      BY ComparingFinite
    <3>2. failures'[a] \in Nat /\ failures'[a] < LockoutThreshold
      BY <1>0, <2>1
    <3>. QED  BY <3>1, <3>2, ComparingFinite, AccountsAssumption DEF LockoutAt
  <2>2. CASE a # b
    <3>1. Comparing(a)' \subseteq Comparing(a)
      BY <2>2 DEF Login, Comparing, TypeOK, Request
    <3>. QED  BY <1>0, <3>1, FewerCompare
  <2>. QED  BY <2>1, <2>2
<1>. QED  BY <1>1 DEF LockoutInv

LEMMA RecordKeepsLockout ==
    ASSUME TypeOK, LockoutInv, NEW r \in Requests, RecordLoginAttempt(r)
    PROVE  LockoutInv'
<1>0. failures \in [Addresses -> Nat] /\ req[r].ip \in Addresses /\ req[r].pc = "attempt"
  BY DEF RecordLoginAttempt, At, TypeOK
<1>1. ASSUME NEW a \in Addresses
      PROVE  LockoutAt(a)'
  <2>1. Comparing(a)' = Comparing(a) \ {r} /\ (a = req[r].ip => r \in Comparing(a))
    BY <1>0 DEF RecordLoginAttempt, Finish, Comparing, NoRequest, TypeOK
  <2>2. CASE a = req[r].ip
    <3>1. Cardinality(Comparing(a)') = Cardinality(Comparing(a)) - 1
      BY <2>1, <2>2, ComparingFinite, FS_RemoveElement
    <3>2. failures'[a] <= failures[a] + 1 /\ failures'[a] \in Nat /\ failures[a] \in Nat
      BY <1>0 DEF RecordLoginAttempt
    <3>3. failures[a] + Cardinality(Comparing(a)) < LockoutThreshold + Cardinality(Requests)
      BY DEF LockoutInv, LockoutAt
    <3>4. Cardinality(Comparing(a)) \in Nat /\ Cardinality(Comparing(a)') \in Nat
      BY ComparingFinite
    <3>. QED  BY <3>1, <3>2, <3>3, <3>4, ComparingFinite, AccountsAssumption DEF LockoutAt
  <2>3. CASE a # req[r].ip
    <3>1. failures'[a] = failures[a] /\ failures[a] \in Nat
      BY <1>0, <2>3 DEF RecordLoginAttempt
    <3>. QED  BY <2>1, <3>1, FewerCompare
  <2>. QED  BY <2>2, <2>3
<1>. QED  BY <1>1 DEF LockoutInv

LEMMA NextKeepsLockout ==
    ASSUME TypeOK, LockoutInv, [Next]_vars
    PROVE  LockoutInv'
<1> USE DEF At, Goto, Finish, NoRequest
<1>1. ASSUME NEW r \in Requests, RequestStep(r), ~\E b \in Addresses : Login(r, b),
             ~RecordLoginAttempt(r), NEW a \in Addresses
      PROVE  failures' = failures /\ Comparing(a)' \subseteq Comparing(a)
  <2> USE DEF Comparing
  <2>0. req \in [Requests -> Request]
    BY DEF TypeOK
  <2>1. CASE RequestPasswordReset(r)
    BY <2>0, <2>1 DEF RequestPasswordReset
  <2>2. CASE AdminDisableUser(r)
    BY <2>0, <2>2 DEF AdminDisableUser, Condemn, Request
  <2>3. ASSUME NEW s \in Sessions, ValidateRefreshToken(r, s) \/ GetSessionByID(r, s)
        PROVE  failures' = failures /\ Comparing(a)' \subseteq Comparing(a)
    BY <2>0, <2>3 DEF ValidateRefreshToken, GetSessionByID, Request
  <2>4. ASSUME NEW p \in Resets, GetPasswordResetByToken(r, p)
        PROVE  failures' = failures /\ Comparing(a)' \subseteq Comparing(a)
    <3>1. failures' = failures /\ req' = [req EXCEPT ![r] = [@ EXCEPT !.pc = "password", !.reset = p]]
      BY <2>4 DEF GetPasswordResetByToken
    <3>. QED  BY <2>0, <3>1 DEF Request
  <2>5. CASE GetUserByEmail(r)
    <3>1. \/ req' = [req EXCEPT ![r].pc = "create", ![r].ip = NoAddress]
          \/ req' = [req EXCEPT ![r].pc = "attempt"]
          \/ req' = [req EXCEPT ![r] = NoRequest]
      BY <2>5 DEF GetUserByEmail
    <3>2. \A q \in Requests \ {r} : req'[q] = req[q]
      BY <2>0, <3>1
    <3>3. req'[r].pc \in {"find", "attempt"} => req'[r].ip = req[r].ip /\ req[r].pc = "find"
      BY <2>0, <2>5, <3>1 DEF GetUserByEmail, Request
    <3>. QED  BY <2>5, <3>2, <3>3 DEF GetUserByEmail
  <2>6. CASE CreateSession(r) \/ RefreshTokens(r) \/ RevokeSession(r) \/ CreatePasswordReset(r)
             \/ RevokeAllUserSessions(r)
    BY <2>0, <2>6 DEF CreateSession, RefreshTokens, RevokeSession, CreatePasswordReset,
                      RevokeAllUserSessions
  <2>7. CASE UpdateUserPassword(r)
    BY <2>0, <2>7 DEF UpdateUserPassword, Condemn, Request
  <2>8. CASE MarkPasswordResetUsed(r)
    BY <2>0, <2>8 DEF MarkPasswordResetUsed
  <2>. QED  BY <1>1, <2>1, <2>2, <2>3, <2>4, <2>5, <2>6, <2>7, <2>8 DEF RequestStep, Step
<1>2. ASSUME OtherStep, NEW a \in Addresses
      PROVE  failures'[a] <= failures[a] /\ Comparing(a)' = Comparing(a)
  <2>1. req' = req
    BY <1>2 DEF OtherStep, RevokeAllSessions, AccessExpires, SessionExpires, ResetExpires,
                AttemptAges, AdminRevokeSessions, AdminEnableUser, DeleteCurrentUser
  <2>2. \/ failures' = failures
        \/ \E b \in Addresses : failures' = [failures EXCEPT ![b] = @ - 1]
    BY <1>2 DEF OtherStep, RevokeAllSessions, AccessExpires, SessionExpires, ResetExpires,
                AttemptAges, AdminRevokeSessions, AdminEnableUser, DeleteCurrentUser
  <2>. QED  BY <2>1, <2>2 DEF TypeOK, Comparing
<1>3. ASSUME UNCHANGED vars, NEW a \in Addresses
      PROVE  failures' = failures /\ Comparing(a)' = Comparing(a)
  BY <1>3 DEF vars, Comparing
<1>4. failures \in [Addresses -> Nat] /\ failures' \in [Addresses -> Nat]
  BY NextType DEF TypeOK
<1>5. ASSUME NEW a \in Addresses, ~\E r \in Requests, b \in Addresses : Login(r, b),
             ~\E r \in Requests : RecordLoginAttempt(r)
      PROVE  LockoutAt(a)'
  <2>1. failures'[a] <= failures[a] /\ Comparing(a)' \subseteq Comparing(a)
    BY <1>1, <1>2, <1>3, <1>4, <1>5, NextSteps
  <2>. QED  BY <1>4, <2>1, FewerCompare
<1>. QED  BY <1>5, LoginKeepsLockout, RecordKeepsLockout DEF LockoutInv

LEMMA InitLockout == Init => LockoutInv
<1> SUFFICES ASSUME Init, NEW a \in Addresses PROVE LockoutAt(a)
  BY DEF LockoutInv
<1>1. Comparing(a) = {} /\ failures[a] = 0
  BY DEF Init, Comparing, NoRequest
<1>. QED  BY <1>1, FS_EmptySet, ComparingFinite, AccountsAssumption DEF LockoutAt

LEMMA LockoutSuffices ==
    ASSUME TypeOK, LockoutInv
    PROVE  LockoutBound
<1> SUFFICES ASSUME NEW a \in Addresses
             PROVE  failures[a] + Cardinality(Unrecorded(a)) < LockoutThreshold + Cardinality(Requests)
  BY DEF LockoutBound
<1>1. Unrecorded(a) \subseteq Comparing(a)
  BY DEF Unrecorded, Comparing, At
<1>2. /\ Cardinality(Unrecorded(a)) <= Cardinality(Comparing(a))
      /\ Cardinality(Unrecorded(a)) \in Nat /\ Cardinality(Comparing(a)) \in Nat
  BY <1>1, ComparingFinite, FS_Subset
<1>3. failures[a] \in Nat /\ LockoutAt(a)
  BY DEF TypeOK, LockoutInv
<1>. QED  BY <1>2, <1>3, ComparingFinite, AccountsAssumption DEF LockoutAt

\* In a window no more attempts that name one address fail than the threshold, and those
\* that are compared at the same time as the last of them (auth/service.go:198, 495-516).
THEOREM LockoutHolds == Spec => []LockoutBound
<1>1. Spec => [](TypeOK /\ LockoutInv)
  BY InitType, InitLockout, NextType, NextKeepsLockout, PTL DEF Spec
<1>2. TypeOK /\ LockoutInv => LockoutBound
  BY LockoutSuffices
<1>. QED  BY <1>1, <1>2, PTL
--------------------------------------------------------------------------------
(***************************************************************************)
(* Revocations. doomed is empty whenever no request is about to revoke.    *)
(***************************************************************************)
\* A step that adds no doomed session and ends no revocation.
LEMMA FewerDoomed ==
    ASSUME OldSessionsEnd, doomed' \subseteq doomed, Revoking \subseteq Revoking'
    PROVE  OldSessionsEnd'
BY DEF OldSessionsEnd

LEMMA RequestKeepsSessions ==
    ASSUME TypeOK, OldSessionsEnd, NEW r \in Requests, RequestStep(r)
    PROVE  OldSessionsEnd'
<1> USE DEF At, Goto, Finish, NoRequest, account, sessions, resets
<1>0. req \in [Requests -> Request]
  BY DEF TypeOK
<1>1. CASE (\E a \in Addresses : Login(r, a)) \/ RequestPasswordReset(r) \/ GetUserByEmail(r) \/ RecordLoginAttempt(r)
           \/ RefreshTokens(r) \/ CreatePasswordReset(r)
  <2>1. doomed' = doomed /\ Revoking \subseteq Revoking'
    BY <1>0, <1>1 DEF Login, RequestPasswordReset, GetUserByEmail, RecordLoginAttempt,
                      RefreshTokens, CreatePasswordReset, Revoking
  <2>. QED  BY <2>1, FewerDoomed
<1>2. ASSUME NEW s \in Sessions, ValidateRefreshToken(r, s) \/ GetSessionByID(r, s)
      PROVE  OldSessionsEnd'
  <2>1. doomed' = doomed /\ Revoking \subseteq Revoking'
    BY <1>0, <1>2 DEF ValidateRefreshToken, GetSessionByID, Revoking, Request
  <2>. QED  BY <2>1, FewerDoomed
<1>3. ASSUME NEW p \in Resets, GetPasswordResetByToken(r, p)
      PROVE  OldSessionsEnd'
  <2>1. doomed' = doomed /\ Revoking \subseteq Revoking'
    BY <1>0, <1>3 DEF GetPasswordResetByToken, Revoking, Request
  <2>. QED  BY <2>1, FewerDoomed
<1>4. ASSUME NEW phase \in {"mark", "revoke"}, Condemn(r, phase)
      PROVE  OldSessionsEnd'
  <2>1. r \in Revoking'
    BY <1>0, <1>4 DEF Condemn, Revoking, Request
  <2>. QED  BY <2>1 DEF OldSessionsEnd
<1>5. CASE AdminDisableUser(r)
  BY <1>4, <1>5 DEF AdminDisableUser
<1>6. CASE CreateSession(r)
  <2>1. Revoking' = Revoking
    BY <1>0, <1>6 DEF CreateSession, Revoking
  <2>2. doomed' = doomed \/ Revoking # {}
    BY <1>6 DEF CreateSession
  <2>. QED  BY <2>1, <2>2 DEF OldSessionsEnd
<1>7. CASE RevokeSession(r)
  <2>1. doomed' \subseteq doomed /\ Revoking \subseteq Revoking'
    BY <1>0, <1>7 DEF RevokeSession, Revoke, Revoking
  <2>. QED  BY <2>1, FewerDoomed
<1>8. CASE UpdateUserPassword(r)
  <2>1. CASE UNCHANGED doomed /\ (Goto(r, "mark") \/ Finish(r))
    <3>1. Revoking \subseteq Revoking'
      BY <1>0, <1>8, <2>1 DEF UpdateUserPassword, Revoking
    <3>. QED  BY <2>1, <3>1, FewerDoomed
  <2>. QED  BY <1>4, <1>8, <2>1 DEF UpdateUserPassword
<1>9. CASE MarkPasswordResetUsed(r)
  <2>1. doomed' = doomed /\ Revoking \subseteq Revoking'
    BY <1>0, <1>9 DEF MarkPasswordResetUsed, Revoking
  <2>. QED  BY <2>1, FewerDoomed
<1>10. CASE RevokeAllUserSessions(r)
  <2>1. CASE Revoke(Sessions)
    <3>1. \A s \in doomed : session'[s] = "ended"
      BY <2>1 DEF Revoke, TypeOK, Active
    <3>2. doomed' = {}
      BY <2>1, <3>1 DEF Revoke
    <3>. QED  BY <3>2 DEF OldSessionsEnd
  <2>2. CASE doomed' = {}
    BY <2>2 DEF OldSessionsEnd
  <2>. QED  BY <1>10, <2>1, <2>2 DEF RevokeAllUserSessions
<1>. QED  BY <1>1, <1>2, <1>3, <1>5, <1>6, <1>7, <1>8, <1>9, <1>10 DEF RequestStep, Step

LEMMA NextKeepsSessions ==
    ASSUME TypeOK, OldSessionsEnd, [Next]_vars
    PROVE  OldSessionsEnd'
<1>1. ASSUME OtherStep \/ UNCHANGED vars
      PROVE  OldSessionsEnd'
  <2>1. req' = req
    BY <1>1 DEF OtherStep, RevokeAllSessions, AccessExpires, SessionExpires, ResetExpires,
                AttemptAges, AdminRevokeSessions, AdminEnableUser, DeleteCurrentUser, vars
  <2>2. doomed' \subseteq doomed
    BY <1>1 DEF OtherStep, RevokeAllSessions, AccessExpires, SessionExpires, ResetExpires,
                AttemptAges, AdminRevokeSessions, AdminEnableUser, DeleteCurrentUser, vars,
                Revoke, sessions
  <2>. QED  BY <2>1, <2>2, FewerDoomed DEF Revoking
<1>. QED  BY <1>1, NextSteps, RequestKeepsSessions

\* Password resets and disablings end every session made before their revocation.
THEOREM OldSessionsEndHolds == Spec => []OldSessionsEnd
<1>1. Init => OldSessionsEnd
  BY DEF Init, OldSessionsEnd
<1>. QED  BY <1>1, InitType, NextType, NextKeepsSessions, PTL DEF Spec
--------------------------------------------------------------------------------
(***************************************************************************)
(* Resets. A reset that is not shared is served by one request at a time;  *)
(* when it has changed the password it is marked, or that request is about *)
(* to mark it, and nobody else holds it.                                   *)
(***************************************************************************)
Served(p) ==
    /\ uses[p] = 1
    /\ reset[p] = "used" \/ \E r \in Serving(p) : At(r, "mark")
    /\ \A r \in Serving(p) : At(r, "mark")

ResetInv ==
    \A p \in Resets \ shared :
        /\ \A q, r \in Serving(p) : q = r
        /\ uses[p] = 0 \/ Served(p)

\* A step that leaves alone the requests that serve a reset.
LEMMA SameService ==
    ASSUME ResetInv, shared' = shared, uses' = uses,
           \A p \in Resets : reset[p] = "used" => reset'[p] = "used",
           \A q \in Requests : \/ req'[q].pc = req[q].pc /\ req'[q].reset = req[q].reset
                               \/ /\ req[q].pc \notin {"password", "mark"}
                                  /\ req'[q].pc \notin {"password", "mark"}
    PROVE  ResetInv'
<1>1. ASSUME NEW p \in Resets
      PROVE  /\ Serving(p)' = Serving(p)
             /\ \A r \in Serving(p) : req'[r].pc = req[r].pc
  BY DEF Serving
<1>. QED  BY <1>1 DEF ResetInv, Served, At

\* A request that serves a reset gives it up before it has changed the password.
LEMMA GiveUp ==
    ASSUME TypeOK, ResetInv, NEW r \in Requests, req[r].pc = "password", Finish(r),
           shared' = shared, uses' = uses, reset' = reset
    PROVE  ResetInv'
<1>1. ASSUME NEW p \in Resets
      PROVE  /\ Serving(p)' = Serving(p) \ {r}
             /\ \A q \in Serving(p)' : req'[q].pc = req[q].pc
  BY DEF Serving, Finish, NoRequest, TypeOK
<1>2. ASSUME NEW p \in Resets, Served(p)
      PROVE  Served(p)'
  BY <1>1, <1>2 DEF Served, At, Serving
<1>. QED  BY <1>1, <1>2 DEF ResetInv

LEMMA RequestKeepsResets ==
    ASSUME TypeOK, ResetInv, NEW r \in Requests, RequestStep(r)
    PROVE  ResetInv'
<1> USE DEF At, Goto, Finish, NoRequest, account, sessions, resets
<1>0. req \in [Requests -> Request]
  BY DEF TypeOK
<1>1. CASE (\E a \in Addresses : Login(r, a)) \/ RequestPasswordReset(r) \/ GetUserByEmail(r) \/ RecordLoginAttempt(r)
  BY <1>0, <1>1, SameService DEF Login, RequestPasswordReset, GetUserByEmail, RecordLoginAttempt, Request
<1>2. CASE CreateSession(r) \/ RefreshTokens(r) \/ RevokeSession(r) \/ RevokeAllUserSessions(r)
  BY <1>0, <1>2, SameService DEF CreateSession, RefreshTokens, RevokeSession, RevokeAllUserSessions
<1>3. CASE CreatePasswordReset(r)
  <2>1. \A p \in Resets : reset[p] = "used" => reset'[p] = "used"
    BY <1>3 DEF CreatePasswordReset, TypeOK
  <2>. QED  BY <1>0, <1>3, <2>1, SameService DEF CreatePasswordReset
<1>4. ASSUME NEW s \in Sessions, ValidateRefreshToken(r, s) \/ GetSessionByID(r, s)
      PROVE  ResetInv'
  BY <1>0, <1>4, SameService DEF ValidateRefreshToken, GetSessionByID, Request
<1>5. CASE AdminDisableUser(r)
  BY <1>0, <1>5, SameService DEF AdminDisableUser, Condemn, Request
<1>6. ASSUME NEW p \in Resets, GetPasswordResetByToken(r, p)
      PROVE  ResetInv'
  <2>1. req' = [req EXCEPT ![r] = [@ EXCEPT !.pc = "password", !.reset = p]]
    BY <1>6 DEF GetPasswordResetByToken
  <2>2. r \notin Serving(p) /\ Serving(p)' = Serving(p) \cup {r}
    BY <1>0, <1>6, <2>1 DEF GetPasswordResetByToken, Serving, Request
  <2>3. ASSUME NEW x \in Resets, x # p
        PROVE  /\ Serving(x)' = Serving(x)
               /\ \A q \in Serving(x) : req'[q].pc = req[q].pc
    BY <1>0, <1>6, <2>1, <2>3 DEF GetPasswordResetByToken, Serving, Request
  <2>4. ASSUME p \notin shared'
        PROVE  Serving(p) = {} /\ uses'[p] = 0
    <3>1. Serving(p) = {} /\ p \notin shared /\ reset[p] = "fresh" /\ uses' = uses
      BY <1>6, <2>4 DEF GetPasswordResetByToken
    <3>. QED  BY <3>1 DEF ResetInv, Served
  <2>5. \A x \in Resets \ shared' : x # p => /\ \A q, t \in Serving(x)' : q = t
                                             /\ uses'[x] = 0 \/ Served(x)'
    BY <1>6, <2>3 DEF GetPasswordResetByToken, ResetInv, Served
  <2>. QED  BY <2>2, <2>4, <2>5 DEF ResetInv
<1>7. CASE UpdateUserPassword(r)
  <2>0. PICK p \in Resets : p = req[r].reset
    BY <1>7 DEF UpdateUserPassword, TypeOK
  <2>1. r \in Serving(p) /\ req[r].reset = p /\ req[r].pc = "password"
    BY <1>7, <2>0 DEF UpdateUserPassword, Serving, TypeOK
  <2>2. CASE Finish(r) /\ UNCHANGED <<uses, doomed>>
    BY <1>7, <2>1, <2>2, GiveUp DEF UpdateUserPassword
  <2>3. CASE ~(Finish(r) /\ UNCHANGED <<uses, doomed>>)
    <3>1. /\ req'[r].pc = "mark" /\ req'[r].reset = p
          /\ \A q \in Requests \ {r} : req'[q].pc = req[q].pc /\ req'[q].reset = req[q].reset
      BY <1>0, <1>7, <2>1, <2>3 DEF UpdateUserPassword, Condemn, Request
    <3>2. \A x \in Resets : Serving(x)' = Serving(x)
      BY <2>1, <3>1 DEF Serving
    <3>3. ASSUME NEW x \in Resets \ shared, x # p
          PROVE  /\ \A q, t \in Serving(x)' : q = t
                 /\ uses'[x] = 0 \/ Served(x)'
      <4>1. \A q \in Serving(x) : req'[q].pc = req[q].pc
        BY <2>1, <3>1, <3>3 DEF Serving
      <4>2. uses'[x] = uses[x] /\ reset' = reset
        BY <1>7, <2>1, <3>3 DEF UpdateUserPassword, TypeOK
      <4>. QED  BY <3>2, <4>1, <4>2 DEF ResetInv, Served
    <3>4. ASSUME p \notin shared
          PROVE  /\ \A q, t \in Serving(p)' : q = t
                 /\ uses'[p] = 0 \/ Served(p)'
      <4>1. uses[p] = 0 /\ \A q \in Serving(p) : q = r
        BY <2>1, <3>4 DEF ResetInv, Served
      <4>2. uses'[p] = 0 \/ uses'[p] = 1
        BY <1>7, <2>1, <4>1 DEF UpdateUserPassword, TypeOK
      <4>. QED  BY <2>1, <3>1, <3>2, <4>1, <4>2 DEF Served
    <3>5. shared' = shared
      BY <1>7 DEF UpdateUserPassword
    <3>6. ASSUME NEW x \in Resets \ shared'
          PROVE  /\ \A q, t \in Serving(x)' : q = t
                 /\ uses'[x] = 0 \/ Served(x)'
      <4>0. x \in Resets \ shared
        BY <3>5, <3>6
      <4>1. CASE x = p
        BY <3>4, <4>0, <4>1 DEF Served, Serving
      <4>. QED  BY <3>3, <4>0, <4>1
    <3>. QED  BY <3>6 DEF ResetInv
  <2>. QED  BY <2>2, <2>3
<1>8. CASE MarkPasswordResetUsed(r)
  <2>0. PICK p \in Resets : p = req[r].reset
    BY <1>8 DEF MarkPasswordResetUsed, TypeOK
  <2>1. r \in Serving(p) /\ req[r].reset = p /\ req[r].pc = "mark"
    BY <1>8, <2>0 DEF MarkPasswordResetUsed, Serving, TypeOK
  <2>2. /\ req'[r].pc = "revoke"
        /\ \A q \in Requests \ {r} : req'[q] = req[q]
    BY <1>0, <1>8 DEF MarkPasswordResetUsed
  <2>3. \A x \in Resets : Serving(x)' = Serving(x) \ {r}
    BY <2>2 DEF Serving
  <2>4. ASSUME NEW x \in Resets \ shared', x # p
        PROVE  /\ \A q, t \in Serving(x)' : q = t
               /\ uses'[x] = 0 \/ Served(x)'
    <3>1. r \notin Serving(x) /\ \A q \in Serving(x) : req'[q].pc = req[q].pc
      BY <2>1, <2>2, <2>4 DEF Serving
    <3>2. uses' = uses /\ reset'[x] = reset[x] /\ x \notin shared
      BY <1>8, <2>1, <2>4 DEF MarkPasswordResetUsed, TypeOK
    <3>. QED  BY <2>3, <3>1, <3>2 DEF ResetInv, Served
  <2>5. ASSUME p \notin shared'
        PROVE  /\ \A q, t \in Serving(p)' : q = t
               /\ uses'[p] = 0 \/ Served(p)'
    <3>1. p \notin shared /\ reset'[p] = "used" /\ uses' = uses
      BY <1>8, <2>1, <2>5 DEF MarkPasswordResetUsed, TypeOK
    <3>2. Serving(p)' = {}
      BY <2>1, <2>3, <3>1 DEF ResetInv
    <3>. QED  BY <3>1, <3>2, <2>1 DEF ResetInv, Served
  <2>. QED  BY <2>4, <2>5 DEF ResetInv
<1>. QED  BY <1>1, <1>2, <1>3, <1>4, <1>5, <1>6, <1>7, <1>8 DEF RequestStep, Step

LEMMA NextKeepsResets ==
    ASSUME TypeOK, ResetInv, [Next]_vars
    PROVE  ResetInv'
<1>1. ASSUME OtherStep \/ UNCHANGED vars
      PROVE  ResetInv'
  <2>1. req' = req /\ uses' = uses /\ shared' = shared
    BY <1>1 DEF OtherStep, RevokeAllSessions, AccessExpires, SessionExpires, ResetExpires,
                AttemptAges, AdminRevokeSessions, AdminEnableUser, DeleteCurrentUser, vars, resets
  <2>2. \A p \in Resets : reset[p] = "used" => reset'[p] = "used"
    BY <1>1 DEF OtherStep, RevokeAllSessions, AccessExpires, SessionExpires, ResetExpires,
                AttemptAges, AdminRevokeSessions, AdminEnableUser, DeleteCurrentUser, vars, resets,
                TypeOK
  <2>. QED  BY <2>1, <2>2, SameService
<1>. QED  BY <1>1, NextSteps, RequestKeepsResets

\* A reset that requests do not share changes the password once.
THEOREM ResetServesOnceHolds == Spec => []ResetServesOnce
<1>1. Init => ResetInv
  BY DEF Init, ResetInv, Serving, NoRequest
<1>2. TypeOK /\ ResetInv => ResetServesOnce
  BY DEF ResetInv, ResetServesOnce, Served
<1>. QED  BY <1>1, <1>2, InitType, NextType, NextKeepsResets, PTL DEF Spec
--------------------------------------------------------------------------------
(***************************************************************************)
(* Access.  Rows are made in order, so that a new session is one that was  *)
(* never there; a request begins to refresh only an active session, and    *)
(* comes to create one only while the account is open.                     *)
(***************************************************************************)
NextRow == Cardinality(Made) + 1
RowsInOrder ==
    \A s, t \in Sessions : s < t /\ session[t] # "none" => session[s] # "none"

LEMMA NextRowIsNew ==
    ASSUME TypeOK, RowsInOrder
    PROVE  /\ NextRow \in Nat
           /\ NextRow \in Sessions => session[NextRow] = "none"
           /\ \A t \in Sessions : t < NextRow => session[t] # "none"
<1>1. IsFiniteSet(Sessions) /\ Sessions \subseteq Nat
  BY AccountsAssumption, FS_Interval DEF Sessions
<1>2. IsFiniteSet(Made) /\ Cardinality(Made) \in Nat
  BY <1>1, FS_Subset, FS_CardinalityType DEF Made
<1>3. ASSUME NextRow \in Sessions, session[NextRow] # "none"
      PROVE  FALSE
  <2>1. NextRow \in Nat /\ NextRow >= 1
    BY <1>2 DEF NextRow
  <2>2. 1..NextRow \in SUBSET Made
    BY <1>1, <1>3, <2>1, AccountsAssumption DEF RowsInOrder, Made, Sessions
  <2>3. Cardinality(1..NextRow) = NextRow
    BY <2>1, FS_Interval
  <2>4. Cardinality(1..NextRow) <= Cardinality(Made)
    BY <1>2, <2>2, FS_Subset
  <2>. QED  BY <1>2, <2>3, <2>4 DEF NextRow
<1>4. ASSUME NEW t \in Sessions, t < NextRow, session[t] = "none"
      PROVE  FALSE
  <2>1. t \in Nat /\ t >= 1
    BY AccountsAssumption DEF Sessions
  <2>2. Made \in SUBSET (1..(t - 1))
    BY <1>1, <1>4, <2>1, AccountsAssumption DEF RowsInOrder, Made, Sessions
  <2>3. IsFiniteSet(1..(t - 1)) /\ Cardinality(1..(t - 1)) = t - 1
    BY <2>1, FS_Interval
  <2>4. Cardinality(Made) <= t - 1
    BY <2>2, <2>3, FS_Subset
  <2>. QED  BY <1>2, <1>4, <2>1, <2>4 DEF NextRow
<1>. QED  BY <1>2, <1>3, <1>4 DEF NextRow

\* What a step may make of a session.
SessionGoesOn ==
    \A s \in Sessions :
        \/ session'[s] = session[s]
        \/ session[s] = "active" /\ session'[s] = "ended"
        \/ s = NextRow /\ session'[s] = "active"

\* Who comes to refresh or to create a session.
RequestsGoOn ==
    \A q \in Requests :
        /\ req'[q].pc = "refresh" => \/ At(q, "refresh") /\ req'[q].session = req[q].session
                                     \/ session[req'[q].session] = "active"
        /\ req'[q].pc = "create" => At(q, "create") \/ ~(disabled \/ deleted)

\* Who gives a session an access token.
AccessGoesOn ==
    \A s \in access' \ access :
        \E q \in Requests :
            /\ req'[q].pc = "idle"
            /\ \/ At(q, "refresh") /\ req[q].session = s /\ ~(disabled \/ deleted)
               \/ At(q, "create") /\ s = NextRow

LEMMA RequestGoesOn ==
    ASSUME TypeOK, NEW r \in Requests, RequestStep(r)
    PROVE  SessionGoesOn /\ RequestsGoOn /\ AccessGoesOn
<1> USE DEF At, Goto, Finish, NoRequest, account, sessions, resets
<1>0. req \in [Requests -> Request] /\ session \in [Sessions -> {"none", "active", "ended"}]
  BY DEF TypeOK
<1>1. CASE (\E a \in Addresses : Login(r, a)) \/ RequestPasswordReset(r) \/ GetUserByEmail(r) \/ RecordLoginAttempt(r)
           \/ CreatePasswordReset(r) \/ MarkPasswordResetUsed(r)
  <2>1. UNCHANGED <<session, access>>
    BY <1>1 DEF Login, RequestPasswordReset, GetUserByEmail, RecordLoginAttempt,
                CreatePasswordReset, MarkPasswordResetUsed
  <2>2. \A q \in Requests :
           \/ q # r /\ req'[q] = req[q]
           \/ q = r /\ req'[q].pc \in {"find", "store", "attempt", "idle", "revoke"}
           \/ q = r /\ req'[q].pc = "create" /\ ~(disabled \/ deleted)
    BY <1>0, <1>1 DEF Login, RequestPasswordReset, GetUserByEmail, RecordLoginAttempt,
                      CreatePasswordReset, MarkPasswordResetUsed, Request
  <2>. QED  BY <2>1, <2>2 DEF SessionGoesOn, RequestsGoOn, AccessGoesOn
<1>2. ASSUME NEW s \in Sessions, ValidateRefreshToken(r, s) \/ GetSessionByID(r, s)
      PROVE  SessionGoesOn /\ RequestsGoOn /\ AccessGoesOn
  <2>1. UNCHANGED <<session, access>> /\ session[s] = "active"
    BY <1>2 DEF ValidateRefreshToken, GetSessionByID
  <2>2. \A q \in Requests :
           \/ q # r /\ req'[q] = req[q]
           \/ q = r /\ req'[q].pc \in {"refresh", "end"} /\ req'[q].session = s
    BY <1>0, <1>2 DEF ValidateRefreshToken, GetSessionByID, Request
  <2>. QED  BY <2>1, <2>2 DEF SessionGoesOn, RequestsGoOn, AccessGoesOn
<1>3. ASSUME NEW p \in Resets, GetPasswordResetByToken(r, p)
      PROVE  SessionGoesOn /\ RequestsGoOn /\ AccessGoesOn
  <2>1. UNCHANGED <<session, access>>
    BY <1>3 DEF GetPasswordResetByToken
  <2>2. \A q \in Requests :
           \/ q # r /\ req'[q] = req[q]
           \/ q = r /\ req'[q].pc = "password"
    BY <1>0, <1>3 DEF GetPasswordResetByToken, Request
  <2>. QED  BY <2>1, <2>2 DEF SessionGoesOn, RequestsGoOn, AccessGoesOn
<1>4. ASSUME NEW phase \in {"mark", "revoke"}, Condemn(r, phase), UNCHANGED <<session, access>>
      PROVE  SessionGoesOn /\ RequestsGoOn /\ AccessGoesOn
  <2>1. \A q \in Requests :
           \/ q # r /\ req'[q].pc = req[q].pc /\ req'[q].session = req[q].session
           \/ q = r /\ req'[q].pc = phase
    BY <1>0, <1>4 DEF Condemn, Request
  <2>. QED  BY <1>4, <2>1 DEF SessionGoesOn, RequestsGoOn, AccessGoesOn
<1>5. CASE AdminDisableUser(r)
  BY <1>4, <1>5 DEF AdminDisableUser
<1>6. CASE CreateSession(r)
  <2>1. \A q \in Requests :
           \/ q # r /\ req'[q] = req[q]
           \/ q = r /\ req'[q].pc = "idle"
    BY <1>0, <1>6 DEF CreateSession
  <2>2. SessionGoesOn
    BY <1>0, <1>6 DEF CreateSession, SessionGoesOn, NextRow
  <2>3. AccessGoesOn
    BY <1>6, <2>1 DEF CreateSession, AccessGoesOn, NextRow
  <2>. QED  BY <2>1, <2>2, <2>3 DEF RequestsGoOn
<1>7. CASE RefreshTokens(r)
  <2>1. \A q \in Requests :
           \/ q # r /\ req'[q] = req[q]
           \/ q = r /\ req'[q].pc = "idle"
    BY <1>0, <1>7 DEF RefreshTokens
  <2>2. AccessGoesOn
    BY <1>7, <2>1 DEF RefreshTokens, AccessGoesOn
  <2>3. SessionGoesOn
    BY <1>7 DEF RefreshTokens, SessionGoesOn
  <2>. QED  BY <2>1, <2>2, <2>3 DEF RequestsGoOn
<1>8. CASE RevokeSession(r) \/ RevokeAllUserSessions(r)
  <2>1. \A q \in Requests :
           \/ q # r /\ req'[q] = req[q]
           \/ q = r /\ req'[q].pc = "idle"
    BY <1>0, <1>8 DEF RevokeSession, RevokeAllUserSessions
  <2>2. SessionGoesOn /\ UNCHANGED access
    BY <1>0, <1>8 DEF RevokeSession, RevokeAllUserSessions, Revoke, Active, SessionGoesOn
  <2>. QED  BY <2>1, <2>2 DEF RequestsGoOn, AccessGoesOn
<1>9. CASE UpdateUserPassword(r)
  <2>1. UNCHANGED <<session, access>>
    BY <1>9 DEF UpdateUserPassword
  <2>2. CASE Goto(r, "mark") \/ Finish(r)
    <3>1. \A q \in Requests :
             \/ q # r /\ req'[q] = req[q]
             \/ q = r /\ req'[q].pc \in {"mark", "idle"}
      BY <1>0, <2>2 DEF Request
    <3>. QED  BY <2>1, <3>1 DEF SessionGoesOn, RequestsGoOn, AccessGoesOn
  <2>. QED  BY <1>4, <1>9, <2>1, <2>2 DEF UpdateUserPassword
<1>. QED  BY <1>1, <1>2, <1>3, <1>5, <1>6, <1>7, <1>8, <1>9 DEF RequestStep, Step

LEMMA StepGoesOn ==
    ASSUME TypeOK, [Next]_vars
    PROVE  SessionGoesOn /\ RequestsGoOn /\ AccessGoesOn
<1>1. ASSUME OtherStep \/ UNCHANGED vars
      PROVE  SessionGoesOn /\ RequestsGoOn /\ AccessGoesOn
  <2>1. req' = req /\ access' \subseteq access
    BY <1>1 DEF OtherStep, RevokeAllSessions, AccessExpires, SessionExpires, ResetExpires,
                AttemptAges, AdminRevokeSessions, AdminEnableUser, DeleteCurrentUser, vars,
                Revoke, sessions
  <2>2. SessionGoesOn
    BY <1>1 DEF OtherStep, RevokeAllSessions, AccessExpires, SessionExpires, ResetExpires,
                AttemptAges, AdminRevokeSessions, AdminEnableUser, DeleteCurrentUser, vars,
                Revoke, Active, sessions, SessionGoesOn, TypeOK
  <2>. QED  BY <2>1, <2>2 DEF RequestsGoOn, AccessGoesOn, At
<1>. QED  BY <1>1, NextSteps, RequestGoesOn

LEMMA NextKeepsOrder ==
    ASSUME TypeOK, RowsInOrder, [Next]_vars
    PROVE  RowsInOrder'
<1>1. SessionGoesOn /\ NextRow \in Nat /\ Sessions \subseteq Nat
  BY StepGoesOn, NextRowIsNew DEF Sessions
<1>2. \A s \in Sessions : session[s] # "none" => session'[s] # "none"
  BY <1>1 DEF SessionGoesOn
<1>3. \A t \in Sessions : session'[t] # "none" => session[t] # "none" \/ t = NextRow
  BY <1>1 DEF SessionGoesOn
<1>. QED  BY <1>1, <1>2, <1>3, NextRowIsNew DEF RowsInOrder

\* A session that has ended, and all sessions of a closed account, lose their access
\* tokens and get none that was not already on its way.
THEOREM TokensWaneHolds == Spec => TokensWane
<1>1. Init => RowsInOrder
  BY DEF Init, RowsInOrder
<1>2. ASSUME TypeOK, RowsInOrder, [Next]_vars
      PROVE  \A s \in Sessions : session[s] = "ended" =>
                 /\ session'[s] = "ended"
                 /\ Refreshing(s)' \subseteq Refreshing(s)
                 /\ s \in access' \ access => Refreshing(s)' # Refreshing(s)
  <2> TAKE s \in Sessions
  <2> HAVE session[s] = "ended"
  <2>1. s # NextRow
    BY <1>2, NextRowIsNew
  <2>2. session'[s] = "ended"
    BY <1>2, <2>1, StepGoesOn DEF SessionGoesOn
  <2>3. Refreshing(s)' \subseteq Refreshing(s)
    BY <1>2, StepGoesOn DEF RequestsGoOn, Refreshing, At
  <2>4. ASSUME s \in access' \ access
        PROVE  Refreshing(s)' # Refreshing(s)
    <3>1. PICK q \in Requests : req'[q].pc = "idle" /\ At(q, "refresh") /\ req[q].session = s
      BY <1>2, <2>1, <2>4, StepGoesOn DEF AccessGoesOn
    <3>2. q \in Refreshing(s) /\ q \notin Refreshing(s)'
      BY <3>1 DEF Refreshing, At
    <3>. QED  BY <3>2
  <2>. QED  BY <2>2, <2>3, <2>4
<1>3. ASSUME TypeOK, RowsInOrder, [Next]_vars
      PROVE  disabled \/ deleted =>
                 /\ Creating' \subseteq Creating
                 /\ \/ access' \subseteq access
                    \/ /\ Creating' # Creating
                       /\ \A s \in access' \ access : session[s] = "none"
  <2> HAVE disabled \/ deleted
  <2>1. Creating' \subseteq Creating
    BY <1>3, StepGoesOn DEF RequestsGoOn, Creating, At
  <2>2. ASSUME NEW s \in access' \ access
        PROVE  Creating' # Creating /\ session[s] = "none"
    <3>1. PICK q \in Requests : req'[q].pc = "idle" /\ At(q, "create") /\ s = NextRow
      BY <1>3, StepGoesOn DEF AccessGoesOn
    <3>2. q \in Creating /\ q \notin Creating'
      BY <3>1 DEF Creating, At
    <3>3. access' \subseteq Sessions
      BY <1>3, NextType DEF TypeOK, Made
    <3>4. s \in Sessions
      BY <3>3
    <3>. QED  BY <1>3, <3>1, <3>2, <3>4, NextRowIsNew
  <2>. QED  BY <2>1, <2>2
<1>4. Spec => [](TypeOK /\ RowsInOrder)
  BY <1>1, InitType, NextType, NextKeepsOrder, PTL DEF Spec
<1>5. TypeOK /\ RowsInOrder /\ [Next]_vars =>
        /\ [\A s \in Sessions : session[s] = "ended" =>
                 /\ session'[s] = "ended"
                 /\ Refreshing(s)' \subseteq Refreshing(s)
                 /\ s \in access' \ access => Refreshing(s)' # Refreshing(s)]_vars
        /\ [disabled \/ deleted =>
                 /\ Creating' \subseteq Creating
                 /\ \/ access' \subseteq access
                    \/ /\ Creating' # Creating
                       /\ \A s \in access' \ access : session[s] = "none"]_vars
  BY <1>2, <1>3
<1>. QED  BY <1>4, <1>5, PTL DEF Spec, TokensWane, EndedWanes, ClosedWanes
================================================================================
