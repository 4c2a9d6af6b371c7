------------------------------ MODULE VoiceProofs ------------------------------
(***************************************************************************)
(* Theorems about Voice for every number of users, channels and requests   *)
(* and every capacity.                                                     *)
(***************************************************************************)
EXTENDS Voice, FiniteSetTheorems, TLAPS

\* What a request needs in its next steps.
RequestOK(q) ==
    /\ q \in Request
    /\ IF q.pc = "idle" THEN q = NoRequest ELSE q.user \in Users
    /\ q.pc \in {"force", "count", "insert", "joined"} => q.join \in Channels
    /\ q.pc \in {"delete", "left"} => q.old \in Channels

LEMMA RequestsType == TypeOK => \A r \in Requests : RequestOK(req[r])
BY DEF TypeOK, RequestOK

LEMMA IdleType == RequestOK(NoRequest)
BY DEF RequestOK, NoRequest, Request, Phases

\* A step changes one request at most, and leaves it what it needs.
StepOf(r) == \E q : RequestOK(q) /\ req' = [req EXCEPT ![r] = q]

LEMMA AfterLeaveType ==
    ASSUME TypeOK, NEW r \in Requests, NEW phase \in {"force", "count"}, ~At(r, "idle"),
           AfterLeave(r, phase)
    PROVE  StepOf(r)
<1> DEFINE q == IF req[r].join = NoChannel THEN NoRequest
                ELSE [req[r] EXCEPT !.pc = phase, !.old = NoChannel]
<1>1. RequestOK(req[r])
  BY RequestsType
<1>2. RequestOK([req[r] EXCEPT !.pc = phase, !.old = NoChannel]) \/ req[r].join = NoChannel
  BY <1>1 DEF RequestOK, Request, Phases, At
<1>3. RequestOK(q)
  BY <1>2, IdleType
<1>4. req' = [req EXCEPT ![r] = q]
  BY DEF AfterLeave
<1>. QED  BY <1>3, <1>4 DEF StepOf

LEMMA FinishType ==
    ASSUME NEW r \in Requests, Finish(r)
    PROVE  StepOf(r)
BY IdleType DEF Finish, StepOf

LEMMA StepsOf ==
    ASSUME TypeOK, NEW r \in Requests, RequestStep(r)
    PROVE  StepOf(r)
<1> USE DEF At, User, LeaveFails, LeaveEnds
<1>0. RequestOK(req[r])
  BY RequestsType
<1>a. ASSUME NEW phase \in Phases, Goto(r, phase), RequestOK([req[r] EXCEPT !.pc = phase])
      PROVE  StepOf(r)
  BY <1>a DEF Goto, StepOf
<1>1. CASE FindConnection(r)
  <2>1. CASE /\ User(r) \in Connections
             /\ req' = [req EXCEPT ![r].pc = "delete", ![r].old = row[User(r)]]
    <3>1. RequestOK([req[r] EXCEPT !.pc = "delete", !.old = row[User(r)]])
      BY <1>0, <1>1, <2>1 DEF FindConnection, RequestOK, Request, Phases, Connections, TypeOK
    <3>. QED  BY <2>1, <3>1 DEF StepOf
  <2>. QED  BY <1>1, <2>1, AfterLeaveType, FinishType DEF FindConnection
<1>2. CASE DeleteConnection(r)
  <2>1. RequestOK([req[r] EXCEPT !.pc = "left"])
    BY <1>0, <1>2 DEF DeleteConnection, RequestOK, Request, Phases
  <2>. QED  BY <1>2, <1>a, <2>1, AfterLeaveType DEF DeleteConnection, Phases
<1>3. CASE PublishVoiceLeave(r)
  BY <1>3, AfterLeaveType DEF PublishVoiceLeave
<1>4. CASE ForceDelete(r)
  <2>1. RequestOK([req[r] EXCEPT !.pc = "count"])
    BY <1>0, <1>4 DEF ForceDelete, RequestOK, Request, Phases
  <2>. QED  BY <1>4, <1>a, <2>1 DEF ForceDelete, Phases
<1>5. CASE CountConnections(r)
  <2>1. RequestOK([req[r] EXCEPT !.pc = "insert"])
    BY <1>0, <1>5 DEF CountConnections, RequestOK, Request, Phases
  <2>. QED  BY <1>5, <1>a, <2>1, FinishType DEF CountConnections, Phases
<1>6. CASE CreateConnection(r)
  <2>1. RequestOK([req[r] EXCEPT !.pc = "joined"])
    BY <1>0, <1>6 DEF CreateConnection, RequestOK, Request, Phases
  <2>. QED  BY <1>6, <1>a, <2>1, FinishType DEF CreateConnection, Phases
<1>7. CASE PublishVoiceJoin(r)
  BY <1>7, FinishType DEF PublishVoiceJoin
<1>. QED  BY <1>1, <1>2, <1>3, <1>4, <1>5, <1>6, <1>7 DEF RequestStep

LEMMA StartType ==
    ASSUME NEW r \in Requests, NEW u \in Users, NEW c \in Channels \cup {NoChannel}, Start(r, u, c)
    PROVE  StepOf(r)
<1>1. RequestOK([pc |-> "find", user |-> u, join |-> c, old |-> NoChannel])
  BY DEF RequestOK, Request, Phases
<1>. QED  BY <1>1 DEF Start, StepOf

LEMMA OneRequest ==
    ASSUME TypeOK, NEW r \in Requests, StepOf(r)
    PROVE  req' \in [Requests -> Request] /\ \A x \in Requests : RequestOK(req'[x])
<1>1. PICK q : RequestOK(q) /\ req' = [req EXCEPT ![r] = q]
  BY DEF StepOf
<1>. QED  BY <1>1, RequestsType DEF TypeOK, RequestOK
--------------------------------------------------------------------------------
(***************************************************************************)
(* Types. A mute has a row.                                                *)
(***************************************************************************)
RequestsOK == req \in [Requests -> Request] /\ \A r \in Requests : RequestOK(req[r])
RowsOK ==
    /\ row \in [Users -> Channels \cup {NoChannel}]
    /\ muted \subseteq Mutes
    /\ muted # {} => Watched \in Connections
RestOK == live \subseteq Channels /\ view \subseteq Channels /\ unsure \in BOOLEAN

LEMMA TypeParts ==
    /\ TypeOK <=> RequestsOK /\ RowsOK /\ RestOK
    /\ TypeOK' <=> RequestsOK' /\ RowsOK' /\ RestOK'
BY DEF TypeOK, RequestsOK, RowsOK, RestOK, RequestOK

LEMMA DeleteRowType ==
    ASSUME RowsOK, NEW u \in Users, DeleteRow(u)
    PROVE  RowsOK'
BY VoiceAssumption DEF RowsOK, DeleteRow, Connections

LEMMA CreateRowType ==
    ASSUME RowsOK, NEW u \in Users, NEW c \in Channels, CreateVoiceConnection(u, c),
           UNCHANGED muted
    PROVE  RowsOK'
BY VoiceAssumption DEF RowsOK, CreateVoiceConnection, Connections

LEMMA SameRows ==
    ASSUME RowsOK, UNCHANGED <<row, muted>>
    PROVE  RowsOK'
BY DEF RowsOK, Connections

LEMMA RequestStepType ==
    ASSUME TypeOK, NEW r \in Requests, RequestStep(r)
    PROVE  TypeOK'
<1> USE DEF At
<1>0. RequestsOK /\ RowsOK /\ RestOK /\ RequestOK(req[r])
  BY TypeParts, RequestsType
<1>1. RequestsOK'
  BY StepsOf, OneRequest DEF RequestsOK, RequestOK
<1>u. ~At(r, "idle") => User(r) \in Users
  BY <1>0 DEF RequestOK, User
<1>2. RowsOK' /\ RestOK'
  <2>1. CASE FindConnection(r)
    BY <1>0, <2>1, SameRows DEF FindConnection, RestOK, watched
  <2>2. CASE DeleteConnection(r)
    BY <1>0, <1>u, <2>2, DeleteRowType, SameRows DEF DeleteConnection, RestOK
  <2>3. CASE PublishVoiceLeave(r)
    BY <1>0, <2>3, SameRows DEF PublishVoiceLeave, Told, Unheard, RestOK
  <2>4. CASE ForceDelete(r)
    BY <1>0, <1>u, <2>4, DeleteRowType, SameRows DEF ForceDelete, RestOK
  <2>5. CASE CountConnections(r)
    BY <1>0, <2>5, SameRows DEF CountConnections, RestOK, watched
  <2>6. CASE CreateConnection(r)
    <3>1. req[r].join \in Channels
      BY <1>0, <2>6 DEF CreateConnection, RequestOK
    <3>. QED  BY <1>0, <1>u, <2>6, <3>1, CreateRowType, SameRows
              DEF CreateConnection, RestOK, watched
  <2>7. CASE PublishVoiceJoin(r)
    <3>1. req[r].join \in Channels
      BY <1>0, <2>7 DEF PublishVoiceJoin, RequestOK
    <3>. QED  BY <1>0, <2>7, <3>1, SameRows DEF PublishVoiceJoin, Told, Unheard, RestOK
  <2>. QED  BY <2>1, <2>2, <2>3, <2>4, <2>5, <2>6, <2>7 DEF RequestStep
<1>. QED  BY <1>1, <1>2, TypeParts

\* The steps that are not a request's: they leave rows and requests alone.
OtherStep ==
    \/ UpdateMuteState \/ ServerMute
    \/ \E c \in Channels : SoftDeleteChannel(c)
    \/ LoadParticipants

LEMMA OtherLeaves ==
    ASSUME OtherStep
    PROVE  UNCHANGED <<row, req>>
BY DEF OtherStep, UpdateMuteState, ServerMute, UpdateVoiceConnectionMuteState,
       SoftDeleteChannel, LoadParticipants, watched

LEMMA OtherType ==
    ASSUME TypeOK, OtherStep
    PROVE  TypeOK'
<1>0. RequestsOK' /\ UNCHANGED <<row, req>>
  BY OtherLeaves, TypeParts DEF RequestsOK
<1>c. Connections' = Connections
  BY <1>0 DEF Connections
<1>1. RowsOK'
  <2>1. CASE UpdateMuteState \/ ServerMute
    BY <1>0, <1>c, <2>1, TypeParts
       DEF UpdateMuteState, ServerMute, UpdateVoiceConnectionMuteState, RowsOK, Mutes
  <2>2. CASE (\E c \in Channels : SoftDeleteChannel(c)) \/ LoadParticipants
    BY <1>0, <2>2, TypeParts, SameRows DEF SoftDeleteChannel, LoadParticipants, watched
  <2>. QED  BY <2>1, <2>2 DEF OtherStep
<1>2. RestOK'
  BY TypeParts DEF OtherStep, UpdateMuteState, ServerMute, UpdateVoiceConnectionMuteState,
       SoftDeleteChannel, LoadParticipants, watched, RestOK
<1>. QED  BY <1>0, <1>1, <1>2, TypeParts

LEMMA NextSteps ==
    ASSUME TypeOK, Next
    PROVE  \/ \E r \in Requests, u \in Users, c \in Channels \cup {NoChannel} : Start(r, u, c)
           \/ \E r \in Requests : RequestStep(r)
           \/ OtherStep
BY DEF Next, OtherStep, Join, Leave

LEMMA NextType ==
    ASSUME TypeOK, [Next]_vars
    PROVE  TypeOK'
<1>1. ASSUME NEW r \in Requests, NEW u \in Users, NEW c \in Channels \cup {NoChannel},
             Start(r, u, c)
      PROVE  TypeOK'
  <2>1. RequestsOK'
    BY <1>1, StartType, OneRequest DEF RequestsOK, RequestOK
  <2>2. RowsOK' /\ RestOK'
    BY <1>1, TypeParts, SameRows DEF Start, RestOK
  <2>. QED  BY <2>1, <2>2, TypeParts
<1>2. CASE UNCHANGED vars
  BY <1>2 DEF vars, TypeOK, Connections
<1>. QED  BY <1>1, <1>2, NextSteps, RequestStepType, OtherType

LEMMA InitType == Init => TypeOK
<1> SUFFICES ASSUME Init PROVE TypeOK
  OBVIOUS
<1>1. RequestsOK
  BY IdleType DEF Init, RequestsOK, RequestOK
<1>2. RowsOK /\ RestOK
  BY DEF Init, RowsOK, RestOK
<1>. QED  BY <1>1, <1>2, TypeParts

\* The variables keep their types, a request has what its next calls need, and a mute is
\* one of a row that is there (service.go:73-342).
THEOREM TypeCorrect == Spec => []TypeOK
<1>. QED  BY InitType, NextType, PTL DEF Spec
--------------------------------------------------------------------------------
(***************************************************************************)
(* Capacity. A join that was counted keeps its place until it is inserted, *)
(* and there are at most as many of them as requests at once.              *)
(***************************************************************************)
Inserting(c) == {r \in Requests : req[r].join = c /\ At(r, "insert")}
In(c) == GetVoiceConnectionsByChannelID(c)

LEMMA CapacityMeans ==
    /\ CapacityBound <=> \A c \in Channels :
           Cardinality(In(c)) + Cardinality(Inserting(c)) <= Capacity - 1 + Cardinality(Requests)
    /\ CapacityBound' <=> \A c \in Channels :
           Cardinality(In(c)') + Cardinality(Inserting(c)') <= Capacity - 1 + Cardinality(Requests)
BY DEF CapacityBound, In, Inserting, CountVoiceConnectionsByChannelID,
       GetVoiceConnectionsByChannelID

LEMMA Finite ==
    /\ \A S : S \subseteq Users \/ S \subseteq Requests =>
              IsFiniteSet(S) /\ Cardinality(S) \in Nat
    /\ \A S : S \subseteq Requests => Cardinality(S) <= Cardinality(Requests)
    /\ \A c : /\ In(c) \subseteq Users /\ Inserting(c) \subseteq Requests
              /\ In(c)' \subseteq Users /\ Inserting(c)' \subseteq Requests
    /\ Cardinality(Requests) \in Nat /\ Capacity \in Nat \ {0}
BY VoiceAssumption, FS_Subset, FS_CardinalityType
   DEF In, Inserting, GetVoiceConnectionsByChannelID

LEMMA FewerThere ==
    ASSUME CapacityBound, NEW c \in Channels,
           In(c)' \subseteq In(c), Inserting(c)' \subseteq Inserting(c)
    PROVE  Cardinality(In(c)') + Cardinality(Inserting(c)') <= Capacity - 1 + Cardinality(Requests)
<1>1. /\ Cardinality(In(c)') <= Cardinality(In(c))
      /\ Cardinality(Inserting(c)') <= Cardinality(Inserting(c))
  BY Finite, FS_Subset
<1>2. Cardinality(In(c)) + Cardinality(Inserting(c)) <= Capacity - 1 + Cardinality(Requests)
  BY CapacityMeans
<1>. QED  BY <1>1, <1>2, Finite

LEMMA CountKeepsCapacity ==
    ASSUME TypeOK, CapacityBound, NEW r \in Requests, CountConnections(r)
    PROVE  CapacityBound'
<1> SUFFICES ASSUME NEW c \in Channels
             PROVE  Cardinality(In(c)') + Cardinality(Inserting(c)')
                      <= Capacity - 1 + Cardinality(Requests)
  BY CapacityMeans
<1>1. In(c)' = In(c)
  BY DEF CountConnections, In, GetVoiceConnectionsByChannelID
<1>2. CASE Cardinality(In(c)) < Capacity
  BY <1>1, <1>2, Finite
<1>3. CASE ~(Cardinality(In(c)) < Capacity)
  <2>1. c = req[r].join => Finish(r)
    BY <1>3 DEF CountConnections, In, CountVoiceConnectionsByChannelID, GetVoiceConnectionsByChannelID
  <2>2. Inserting(c)' \subseteq Inserting(c)
    BY <2>1 DEF CountConnections, Goto, Finish, NoRequest, Inserting, At, TypeOK, Request
  <2>. QED  BY <1>1, <2>2, FewerThere
<1>. QED  BY <1>2, <1>3

LEMMA CreateKeepsCapacity ==
    ASSUME TypeOK, CapacityBound, NEW r \in Requests, CreateConnection(r)
    PROVE  CapacityBound'
<1> SUFFICES ASSUME NEW c \in Channels
             PROVE  Cardinality(In(c)') + Cardinality(Inserting(c)')
                      <= Capacity - 1 + Cardinality(Requests)
  BY CapacityMeans
<1>0. req[r].user \in Users /\ RequestOK(req[r])
  BY RequestsType DEF CreateConnection, At, RequestOK
<1>1. Inserting(c)' \subseteq Inserting(c)
  BY DEF CreateConnection, Goto, Finish, NoRequest, Inserting, At, TypeOK, Request
<1>2. CASE c = req[r].join /\ CreateVoiceConnection(User(r), req[r].join)
           /\ Goto(r, "joined")
  <2>1. In(c)' = In(c) \cup {User(r)} /\ User(r) \notin In(c)
    BY <1>0, <1>2, VoiceAssumption
       DEF CreateVoiceConnection, In, GetVoiceConnectionsByChannelID, User, Connections, TypeOK
  <2>2. r \in Inserting(c) /\ Inserting(c)' = Inserting(c) \ {r}
    BY <1>2 DEF CreateConnection, Goto, Inserting, At, TypeOK, Request
  <2>3. IsFiniteSet(In(c)) /\ IsFiniteSet(Inserting(c))
    BY Finite
  <2>4. Cardinality(In(c)') = Cardinality(In(c)) + 1
    BY <2>1, <2>3, FS_AddElement
  <2>5. Cardinality(Inserting(c)') = Cardinality(Inserting(c)) - 1
    BY <2>2, <2>3, FS_RemoveElement
  <2>. QED  BY <2>4, <2>5, Finite, CapacityMeans
<1>3. CASE ~(c = req[r].join /\ CreateVoiceConnection(User(r), req[r].join)
             /\ Goto(r, "joined"))
  <2>1. In(c)' = In(c)
    BY <1>0, <1>3, VoiceAssumption
       DEF CreateConnection, CreateVoiceConnection, In, GetVoiceConnectionsByChannelID, User,
           Connections, TypeOK
  <2>. QED  BY <1>1, <2>1, FewerThere
<1>. QED  BY <1>2, <1>3

LEMMA NextKeepsCapacity ==
    ASSUME TypeOK, CapacityBound, [Next]_vars
    PROVE  CapacityBound'
<1> USE DEF At
<1> DEFINE Shrinks == \A c \in Channels : In(c)' \subseteq In(c)
                                          /\ Inserting(c)' \subseteq Inserting(c)
<1>0. req \in [Requests -> Request] /\ row \in [Users -> Channels \cup {NoChannel}]
  BY DEF TypeOK
<1>1. ASSUME NEW r \in Requests, NEW u \in Users, NEW c \in Channels \cup {NoChannel},
             Start(r, u, c)
      PROVE  Shrinks
  BY <1>0, <1>1 DEF Start, In, GetVoiceConnectionsByChannelID, Inserting
<1>2. ASSUME NEW r \in Requests, RequestStep(r), ~CountConnections(r), ~CreateConnection(r)
      PROVE  Shrinks
  <2>a. row' = row \/ row' = [row EXCEPT ![User(r)] = NoChannel]
    BY <1>2 DEF RequestStep, FindConnection, DeleteConnection, PublishVoiceLeave, ForceDelete,
                PublishVoiceJoin, DeleteRow
  <2>b. \A c \in Channels : In(c)' \subseteq In(c)
    BY <1>0, <2>a, VoiceAssumption DEF In, GetVoiceConnectionsByChannelID
  <2>c. \A q \in Requests : q # r => req'[q] = req[q]
    BY <1>0, <1>2, StepsOf DEF StepOf
  <2>d. req'[r].pc # "insert"
    <3>0. req[r] \in Request
      BY <1>0
    <3>1. ASSUME NEW phase \in {"force", "count"}, AfterLeave(r, phase)
          PROVE  req'[r].pc # "insert"
      <4>1. req'[r] = IF req[r].join = NoChannel THEN NoRequest
                      ELSE [req[r] EXCEPT !.pc = phase, !.old = NoChannel]
        BY <1>0, <3>1 DEF AfterLeave
      <4>. QED  BY <3>0, <4>1 DEF NoRequest, Request
    <3>2. Goto(r, "left") \/ Goto(r, "count") \/ Finish(r) => req'[r].pc # "insert"
      BY <1>0 DEF Goto, Finish, NoRequest, Request
    <3>3. (\E c : req' = [req EXCEPT ![r].pc = "delete", ![r].old = c]) => req'[r].pc # "insert"
      BY <1>0 DEF Request
    <3>. QED  BY <1>2, <3>1, <3>2, <3>3
              DEF RequestStep, FindConnection, DeleteConnection, PublishVoiceLeave, ForceDelete,
                  PublishVoiceJoin, LeaveFails, LeaveEnds
  <2>. QED  BY <2>b, <2>c, <2>d DEF Inserting
<1>3. CASE OtherStep \/ UNCHANGED vars
  <2>1. UNCHANGED <<row, req>>
    BY <1>3, OtherLeaves DEF vars
  <2>. QED  BY <2>1, CapacityMeans DEF In, GetVoiceConnectionsByChannelID, Inserting
<1>4. Shrinks => CapacityBound'
  BY FewerThere, CapacityMeans
<1>. QED  BY <1>1, <1>2, <1>3, <1>4, NextSteps, CountKeepsCapacity, CreateKeepsCapacity

LEMMA InitCapacity == Init => CapacityBound
<1> SUFFICES ASSUME Init PROVE CapacityBound
  OBVIOUS
<1>1. \A c \in Channels : In(c) = {} /\ Inserting(c) = {}
  BY VoiceAssumption DEF Init, In, GetVoiceConnectionsByChannelID, Inserting, NoRequest, At
<1>. QED  BY <1>1, CapacityMeans, FS_EmptySet, Finite

\* A channel is overfull only by the joins that run at once (service.go:135-184).
THEOREM InvHolds == Spec => []Inv
<1>1. Spec => [](TypeOK /\ CapacityBound)
  BY InitType, InitCapacity, NextType, NextKeepsCapacity, PTL DEF Spec
<1>2. TypeOK /\ CapacityBound => Inv
  BY DEF Inv
<1>. QED  BY <1>1, <1>2, PTL
--------------------------------------------------------------------------------
(***************************************************************************)
(* What the others see of the watched user.  While one of the user's       *)
(* requests runs the view follows the row, but for the two phases in which *)
(* the row has changed and the event is still to be sent: then the user is *)
(* shown where the event will say, or nowhere.                             *)
(***************************************************************************)
Matches == view \cap live = {row[Watched]} \cap live
HandledOK(r) ==
    /\ req[r].pc \notin {"left", "joined"} => Matches
    /\ req[r].pc = "delete" => row[Watched] = req[r].old
    /\ req[r].pc = "left" => row[Watched] = NoChannel /\ view \cap live \subseteq {req[r].old}
    /\ req[r].pc = "joined" => row[Watched] = req[r].join /\ view \cap live \subseteq {req[r].join}
ViewInv ==
    ~unsure => /\ \A q, r \in Handling(Watched) : q = r
               /\ Handling(Watched) = {} => Matches
               /\ \A r \in Handling(Watched) : HandledOK(r)

LEMMA NobodyHandled == ~(NoRequest.user = Watched)
BY VoiceAssumption DEF NoRequest

\* A step of another user's request.
LEMMA BystanderKeepsView ==
    ASSUME TypeOK, ViewInv, NEW r \in Requests, User(r) # Watched, req'[r].user # Watched,
           \A q \in Requests : q # r => req'[q] = req[q],
           row'[Watched] = row[Watched], UNCHANGED <<live, view>>, unsure' = unsure
    PROVE  ViewInv'
<1>1. Handling(Watched)' = Handling(Watched)
  BY DEF Handling, User
<1>2. Matches' = Matches
  BY DEF Matches
<1>3. \A q \in Handling(Watched) : HandledOK(q)' = HandledOK(q)
  BY <1>2 DEF Handling, User, HandledOK
<1>. QED  BY <1>1, <1>2, <1>3 DEF ViewInv

\* What a step of a request makes of the request.
LEMMA RequestAfter ==
    ASSUME TypeOK, NEW r \in Requests, RequestStep(r)
    PROVE  /\ \A q \in Requests : q # r => req'[q] = req[q]
           /\ req'[r] = NoRequest \/ req'[r].user = User(r)
<1> USE DEF User
<1>0. req \in [Requests -> Request] /\ req[r] \in Request
  BY DEF TypeOK
<1>1. \A q \in Requests : q # r => req'[q] = req[q]
  BY <1>0, StepsOf DEF StepOf
<1>2. ASSUME NEW phase \in {"force", "count"}, AfterLeave(r, phase)
      PROVE  req'[r] = NoRequest \/ req'[r].user = User(r)
  <2>1. req'[r] = IF req[r].join = NoChannel THEN NoRequest
                  ELSE [req[r] EXCEPT !.pc = phase, !.old = NoChannel]
    BY <1>0, <1>2 DEF AfterLeave
  <2>. QED  BY <1>0, <2>1 DEF Request
<1>3. ASSUME NEW phase, Goto(r, phase)
      PROVE  req'[r].user = User(r)
  BY <1>0, <1>3 DEF Goto, Request
<1>4. Finish(r) => req'[r] = NoRequest
  BY <1>0 DEF Finish
<1>5. (\E c : req' = [req EXCEPT ![r].pc = "delete", ![r].old = c]) => req'[r].user = User(r)
  BY <1>0 DEF Request
<1>. QED  BY <1>1, <1>2, <1>3, <1>4, <1>5
          DEF RequestStep, FindConnection, DeleteConnection, PublishVoiceLeave, ForceDelete,
              CountConnections, CreateConnection, PublishVoiceJoin, LeaveFails, LeaveEnds

LEMMA OthersStep ==
    ASSUME TypeOK, ViewInv, NEW r \in Requests, RequestStep(r), User(r) # Watched
    PROVE  ViewInv'
<1>1. req'[r].user # Watched
  BY RequestAfter, NobodyHandled
<1>2. row'[Watched] = row[Watched]
  BY VoiceAssumption DEF TypeOK, RequestStep, FindConnection, DeleteConnection, PublishVoiceLeave,
       ForceDelete, CountConnections, CreateConnection, PublishVoiceJoin, DeleteRow,
       CreateVoiceConnection
<1>3. UNCHANGED <<live, view>>
  BY DEF RequestStep, FindConnection, DeleteConnection, PublishVoiceLeave, ForceDelete,
       CountConnections, CreateConnection, PublishVoiceJoin, Told, Unheard, watched
<1>4. unsure' = unsure
  BY DEF RequestStep, FindConnection, DeleteConnection, PublishVoiceLeave, ForceDelete,
       CountConnections, CreateConnection, PublishVoiceJoin, Told, Unheard, watched, TypeOK
<1>. QED  BY <1>1, <1>2, <1>3, <1>4, RequestAfter, BystanderKeepsView

\* A request of the user's ends, or goes on in a phase before whose end no event is due.
LEMMA AfterLeaveOK ==
    ASSUME TypeOK, NEW r \in Requests, NEW phase \in {"force", "count"}, AfterLeave(r, phase), Matches'
    PROVE  HandledOK(r)'
<1>0. req \in [Requests -> Request] /\ req[r] \in Request
  BY DEF TypeOK
<1>1. req'[r] = IF req[r].join = NoChannel THEN NoRequest
                ELSE [req[r] EXCEPT !.pc = phase, !.old = NoChannel]
  BY <1>0 DEF AfterLeave
<1>2. req'[r].pc \notin {"delete", "left", "joined"}
  BY <1>0, <1>1 DEF NoRequest, Request
<1>. QED  BY <1>2 DEF HandledOK

LEMMA GotoOK ==
    ASSUME TypeOK, NEW r \in Requests, NEW phase \in {"count", "insert"},
           Goto(r, phase) \/ Finish(r), Matches'
    PROVE  HandledOK(r)'
<1>1. req'[r].pc \notin {"delete", "left", "joined"}
  BY DEF TypeOK, Goto, Finish, NoRequest, Request
<1>. QED  BY <1>1 DEF HandledOK

LEMMA WatchedStep ==
    ASSUME TypeOK, NEW r \in Requests, HandledOK(r), RequestStep(r), User(r) = Watched,
           ~unsure, ~unsure'
    PROVE  HandledOK(r)'
<1> USE DEF At, User, LeaveFails, LeaveEnds
<1>0. req \in [Requests -> Request] /\ req[r] \in Request
  BY DEF TypeOK
<1>1. /\ row \in [Users -> Channels \cup {NoChannel}] /\ Watched \in Users
      /\ live \subseteq Channels /\ NoChannel \notin live
  BY VoiceAssumption DEF TypeOK
<1>2. CASE FindConnection(r)
  <2>1. UNCHANGED <<row, view, live>> /\ Matches
    BY <1>2 DEF FindConnection, HandledOK, watched
  <2>2. Matches'
    BY <2>1 DEF Matches
  <2>3. CASE req' = [req EXCEPT ![r].pc = "delete", ![r].old = row[Watched]]
    <3>1. req'[r].pc = "delete" /\ req'[r].old = row[Watched]
      BY <1>0, <2>3 DEF Request
    <3>. QED  BY <2>1, <2>2, <3>1 DEF HandledOK
  <2>. QED  BY <1>2, <2>2, <2>3, AfterLeaveOK, GotoOK DEF FindConnection
<1>3. CASE DeleteConnection(r)
  <2>1. Matches /\ row[Watched] = req[r].old /\ UNCHANGED <<view, live>>
    BY <1>3 DEF DeleteConnection, HandledOK
  <2>2. CASE DeleteRow(Watched) /\ Goto(r, "left")
    <3>1. req'[r].pc = "left" /\ req'[r].old = req[r].old
      BY <1>0, <2>2 DEF Goto, Request
    <3>2. row'[Watched] = NoChannel
      BY <1>1, <2>2 DEF DeleteRow
    <3>. QED  BY <2>1, <3>1, <3>2 DEF HandledOK, Matches
  <2>3. CASE LeaveFails(r) /\ UNCHANGED row
    <3>1. Matches'
      BY <2>1, <2>3 DEF Matches
    <3>. QED  BY <2>3, <3>1, AfterLeaveOK
  <2>. QED  BY <1>3, <2>2, <2>3 DEF DeleteConnection
<1>4. CASE PublishVoiceLeave(r)
  <2>1. row[Watched] = NoChannel /\ view \cap live \subseteq {req[r].old} /\ UNCHANGED <<row, live>>
    BY <1>4 DEF PublishVoiceLeave, HandledOK
  <2>2. view' \cap live = {}
    BY <1>4, <2>1 DEF PublishVoiceLeave, Told, Unheard
  <2>3. Matches'
    BY <1>1, <2>1, <2>2 DEF Matches
  <2>. QED  BY <1>4, <2>3, AfterLeaveOK DEF PublishVoiceLeave
<1>5. CASE ForceDelete(r)
  <2>1. Matches /\ UNCHANGED <<row, view, live>>
    BY <1>5 DEF ForceDelete, HandledOK
  <2>2. Matches'
    BY <2>1 DEF Matches
  <2>. QED  BY <1>5, <2>2, GotoOK DEF ForceDelete
<1>6. CASE CountConnections(r)
  <2>1. Matches /\ UNCHANGED <<row, view, live>>
    BY <1>6 DEF CountConnections, HandledOK, watched
  <2>2. Matches'
    BY <2>1 DEF Matches
  <2>. QED  BY <1>6, <2>2, GotoOK DEF CountConnections
<1>7. CASE CreateConnection(r)
  <2>1. Matches /\ UNCHANGED <<view, live>>
    BY <1>7 DEF CreateConnection, HandledOK, watched
  <2>2. CASE CreateVoiceConnection(Watched, req[r].join) /\ Goto(r, "joined")
    <3>1. req'[r].pc = "joined" /\ req'[r].join = req[r].join
      BY <1>0, <2>2 DEF Goto, Request
    <3>2. row[Watched] = NoChannel /\ row'[Watched] = req[r].join
      BY <1>1, <2>2 DEF CreateVoiceConnection, Connections
    <3>. QED  BY <1>1, <2>1, <3>1, <3>2 DEF HandledOK, Matches
  <2>3. CASE Finish(r) /\ UNCHANGED row
    <3>1. Matches'
      BY <2>1, <2>3 DEF Matches
    <3>. QED  BY <2>3, <3>1, GotoOK
  <2>. QED  BY <1>7, <2>2, <2>3 DEF CreateConnection
<1>8. CASE PublishVoiceJoin(r)
  <2>1. /\ row[Watched] = req[r].join /\ view \cap live \subseteq {req[r].join}
        /\ UNCHANGED <<row, live>>
    BY <1>8 DEF PublishVoiceJoin, HandledOK
  <2>2. view' \cap live = {req[r].join} \cap live
    BY <1>8, <2>1 DEF PublishVoiceJoin, Told, Unheard
  <2>3. Matches'
    BY <2>1, <2>2 DEF Matches
  <2>. QED  BY <1>8, <2>3, GotoOK DEF PublishVoiceJoin
<1>. QED  BY <1>2, <1>3, <1>4, <1>5, <1>6, <1>7, <1>8 DEF RequestStep

LEMMA RequestKeepsView ==
    ASSUME TypeOK, ViewInv, NEW r \in Requests, RequestStep(r), User(r) = Watched
    PROVE  ViewInv'
<1> SUFFICES ASSUME ~unsure'
             PROVE  /\ \A p, q \in Handling(Watched)' : p = q
                    /\ Handling(Watched)' = {} => Matches'
                    /\ \A q \in Handling(Watched)' : HandledOK(q)'
  BY DEF ViewInv
<1>1. ~unsure
  BY DEF RequestStep, FindConnection, DeleteConnection, PublishVoiceLeave, ForceDelete,
         CountConnections, CreateConnection, PublishVoiceJoin, Told, Unheard, watched
<1>2. Handling(Watched) = {r} /\ HandledOK(r)
  BY <1>1 DEF ViewInv, Handling, User
<1>3. HandledOK(r)'
  BY <1>1, <1>2, WatchedStep
<1>4. Handling(Watched)' \subseteq {r}
  BY <1>2, RequestAfter DEF Handling, User
<1>5. Handling(Watched)' = {} => Matches'
  <2>1. Handling(Watched)' = {} => req'[r] = NoRequest
    BY RequestAfter DEF Handling, User
  <2>. QED  BY <1>3, <2>1 DEF HandledOK, NoRequest
<1>. QED  BY <1>3, <1>4, <1>5

LEMMA StartKeepsView ==
    ASSUME TypeOK, ViewInv, NEW r \in Requests, NEW u \in Users, NEW c, Start(r, u, c)
    PROVE  ViewInv'
<1>0. req'[r] = [pc |-> "find", user |-> u, join |-> c, old |-> NoChannel]
  BY DEF Start, TypeOK
<1>1. User(r) # Watched /\ \A q \in Requests : q # r => req'[q] = req[q]
  BY NobodyHandled DEF Start, At, TypeOK, User
<1>2. CASE u # Watched
  <2>1. unsure' = unsure
    BY <1>2 DEF Start, TypeOK
  <2>. QED  BY <1>0, <1>1, <1>2, <2>1, BystanderKeepsView DEF Start
<1>3. CASE u = Watched
  <2> SUFFICES ASSUME ~unsure'
               PROVE  /\ \A p, q \in Handling(Watched)' : p = q
                      /\ Handling(Watched)' = {} => Matches'
                      /\ \A q \in Handling(Watched)' : HandledOK(q)'
    BY DEF ViewInv
  <2>1. ~unsure /\ Handling(Watched) = {}
    BY <1>3 DEF Start
  <2>2. Handling(Watched)' = {r}
    BY <1>0, <1>1, <1>3, <2>1 DEF Handling, User
  <2>3. Matches'
    BY <2>1 DEF ViewInv, Start, Matches
  <2>. QED  BY <1>0, <2>2, <2>3 DEF HandledOK
<1>. QED  BY <1>2, <1>3

LEMMA OtherKeepsView ==
    ASSUME TypeOK, ViewInv, OtherStep
    PROVE  ViewInv'
<1>0. /\ UNCHANGED <<row, req>> /\ Handling(Watched)' = Handling(Watched)
      /\ live \subseteq Channels /\ NoChannel \notin Channels
  BY OtherLeaves, VoiceAssumption DEF Handling, TypeOK
<1>1. CASE LoadParticipants
  <2>1. live' = live /\ view' = {c \in live : row[Watched] = c}
    BY <1>0, <1>1, VoiceAssumption
       DEF LoadParticipants, GetChannelParticipants, GetVoiceConnectionsByChannelID
  <2>2. Matches'
    BY <1>0, <2>1 DEF Matches
  <2>3. \A r \in Requests : HandledOK(r) => HandledOK(r)'
    BY <1>0, <2>1, <2>2 DEF HandledOK
  <2>4. unsure' => unsure
    BY <1>1 DEF LoadParticipants
  <2>5. ~unsure' => ~unsure \/ Handling(Watched) = {}
    BY <1>1 DEF LoadParticipants
  <2>. QED  BY <1>0, <2>2, <2>3, <2>5 DEF ViewInv, Handling
<1>2. ASSUME NEW c \in Channels, SoftDeleteChannel(c)
      PROVE  ViewInv'
  <2>1. live' \subseteq live /\ UNCHANGED <<view, unsure>>
    BY <1>2 DEF SoftDeleteChannel, watched
  <2>2. Matches => Matches'
    BY <1>0, <2>1 DEF Matches
  <2>3. \A r \in Requests : HandledOK(r) => HandledOK(r)'
    BY <1>0, <2>1, <2>2 DEF HandledOK
  <2>. QED  BY <1>0, <2>1, <2>2, <2>3 DEF ViewInv, Handling
<1>3. CASE UpdateMuteState \/ ServerMute
  <2>1. UNCHANGED <<live, view, unsure>>
    BY <1>3 DEF UpdateMuteState, ServerMute, UpdateVoiceConnectionMuteState
  <2>2. Matches' = Matches
    BY <1>0, <2>1 DEF Matches
  <2>3. \A r \in Requests : HandledOK(r)' = HandledOK(r)
    BY <1>0, <2>1, <2>2 DEF HandledOK
  <2>. QED  BY <1>0, <2>1, <2>2, <2>3 DEF ViewInv, Handling
<1>. QED  BY <1>1, <1>2, <1>3 DEF OtherStep

LEMMA NextKeepsView ==
    ASSUME TypeOK, ViewInv, [Next]_vars
    PROVE  ViewInv'
<1>1. CASE UNCHANGED vars
  BY <1>1 DEF vars, ViewInv, Handling, Matches, HandledOK
<1>. QED  BY <1>1, NextSteps, StartKeepsView, RequestKeepsView, OthersStep, OtherKeepsView

LEMMA InitView == Init => ViewInv
<1> SUFFICES ASSUME Init PROVE ViewInv
  OBVIOUS
<1>1. Handling(Watched) = {}
  BY NobodyHandled DEF Init, Handling
<1>2. Matches
  BY VoiceAssumption DEF Init, Matches
<1>. QED  BY <1>1, <1>2 DEF ViewInv

LEMMA ViewSuffices ==
    ASSUME TypeOK, ViewInv
    PROVE  ViewMatches /\ ShownOnce
<1>1. ViewMatches
  BY DEF ViewInv, ViewMatches, Matches
<1>2. ASSUME ~unsure
      PROVE  \E c : view \cap live \subseteq {c}
  <2>1. CASE Matches
    BY <2>1 DEF Matches
  <2>2. CASE ~Matches
    BY <1>2, <2>2 DEF ViewInv, HandledOK
  <2>. QED  BY <2>1, <2>2
<1>3. ASSUME NEW c, view \cap live \subseteq {c}
      PROVE  Cardinality(view \cap live) <= 1
  <2>1. IsFiniteSet({c}) /\ Cardinality({c}) = 1
    BY FS_Singleton
  <2>. QED  BY <1>3, <2>1, FS_Subset
<1>4. ShownOnce
  BY <1>2, <1>3 DEF ShownOnce
<1>. QED  BY <1>1, <1>4

LEMMA ViewInvariant == Spec => [](ViewMatches /\ ShownOnce)
<1>1. Spec => [](TypeOK /\ ViewInv)
  BY InitType, InitView, NextType, NextKeepsView, PTL DEF Spec
<1>2. TypeOK /\ ViewInv => ViewMatches /\ ShownOnce
  BY ViewSuffices
<1>. QED  BY <1>1, <1>2, PTL

\* Once a user's requests are over the others see what the table says, and nothing else,
\* for any number of users, channels and requests (service.go:73-242).
THEOREM ViewMatchesHolds == Spec => []ViewMatches
BY ViewInvariant, PTL

\* No user is ever shown in two channels (service.go:112-133).
THEOREM ShownOnceHolds == Spec => []ShownOnce
BY ViewInvariant, PTL
================================================================================
