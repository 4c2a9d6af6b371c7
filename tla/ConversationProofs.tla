------------------------------ MODULE ConversationProofs ------------------------------
(***************************************************************************)
(* Proofs about Conversation, for any number of requests, users, spaces,   *)
(* channels and messages: the types, the order of channels, the read       *)
(* state, the pages of messages, and the reactions.                        *)
(***************************************************************************)
EXTENDS Conversation, TLAPS, FiniteSetTheorems

(* The order of messages. *)

Timed(rows) == \A m \in rows : messages[m].at \in Nat

LEMMA RowsFinite ==
    IsFiniteSet(Rows) /\ \A X \in SUBSET Rows : IsFiniteSet(X) /\ Cardinality(X) \in Nat
<1>1. IsFiniteSet(Rows)
  BY FS_Interval, TimelineAssumption DEF Rows
<1> QED
  BY <1>1, FS_Subset, FS_CardinalityType

LEMMA NewerIsOrder ==
    ASSUME NEW rows \in SUBSET Rows, Timed(rows)
    PROVE  /\ \A m \in rows : ~Newer(m, m)
           /\ \A m, n \in rows : m # n => Newer(m, n) \/ Newer(n, m)
           /\ \A l, m, n \in rows : Newer(l, m) /\ Newer(m, n) => Newer(l, n)
  BY DEF Rows, Timed, Newer

\* The newest n rows, each once: the pages are cut from these.
LEMMA FirstOfIsSorted ==
    ASSUME NEW rows \in SUBSET Rows, Timed(rows), NEW n \in Nat
    PROVE  LET first == FirstOf(rows, n)
           IN /\ first \in Seq(rows) /\ Len(first) <= n
              /\ \A i, j \in DOMAIN first : i < j => Newer(first[i], first[j])
              /\ Len(first) < n => \A m \in rows : \E i \in DOMAIN first : first[i] = m
              /\ \A m \in rows :
                    \/ \E i \in DOMAIN first : first[i] = m
                    \/ \A i \in DOMAIN first : Newer(first[i], m)
<1> DEFINE N == Cardinality(rows)
           before(m) == {x \in rows : Newer(x, m)}
           place == [m \in rows |-> Place(m, rows)]
           taken == {place[m] : m \in rows}
           size == IF N < n THEN N ELSE n
           at(i) == CHOOSE m \in rows : Place(m, rows) = i
<1>1. IsFiniteSet(rows) /\ N \in Nat
  BY RowsFinite
<1>2. \A m \in rows : Place(m, rows) \in 1..N
  <2> SUFFICES ASSUME NEW m \in rows PROVE Place(m, rows) \in 1..N
    OBVIOUS
  <2>1. before(m) \in SUBSET (rows \ {m})
    BY NewerIsOrder
  <2>2. IsFiniteSet(rows \ {m}) /\ Cardinality(rows \ {m}) = N - 1
    BY <1>1, FS_RemoveElement
  <2>3. IsFiniteSet(before(m)) /\ Cardinality(before(m)) <= N - 1
    BY <2>1, <2>2, FS_Subset
  <2>4. Cardinality(before(m)) \in Nat
    BY <2>3, FS_CardinalityType
  <2> QED
    BY <1>1, <2>3, <2>4 DEF Place
<1>3. \A l, m \in rows : Newer(l, m) => Place(l, rows) < Place(m, rows)
  <2> SUFFICES ASSUME NEW l \in rows, NEW m \in rows, Newer(l, m)
               PROVE  Place(l, rows) < Place(m, rows)
    OBVIOUS
  <2>1. IsFiniteSet(before(l)) /\ IsFiniteSet(before(m))
    BY <1>1, FS_Subset
  <2>2. l \notin before(l) /\ before(l) \cup {l} \in SUBSET before(m)
    BY NewerIsOrder
  <2>3. Cardinality(before(l) \cup {l}) = Cardinality(before(l)) + 1
    BY <2>1, <2>2, FS_AddElement
  <2>4. Cardinality(before(l) \cup {l}) <= Cardinality(before(m))
    BY <2>1, <2>2, FS_Subset
  <2>5. Cardinality(before(l)) \in Nat /\ Cardinality(before(m)) \in Nat
    BY <2>1, FS_CardinalityType
  <2> QED
    BY <2>3, <2>4, <2>5 DEF Place
<1>4. \A l, m \in rows : Place(l, rows) < Place(m, rows) => Newer(l, m)
  <2> SUFFICES ASSUME NEW l \in rows, NEW m \in rows, Place(l, rows) < Place(m, rows)
               PROVE  Newer(l, m)
    OBVIOUS
  <2>1. l # m
    BY <1>2
  <2>2. Newer(l, m) \/ Newer(m, l)
    BY <2>1, NewerIsOrder
  <2>3. ~Newer(m, l)
    BY <1>2, <1>3
  <2> QED
    BY <2>2, <2>3
<1>5. place \in [rows -> 1..N] /\ \A l, m \in rows : place[l] = place[m] => l = m
  <2>1. \A l, m \in rows : l # m => Place(l, rows) # Place(m, rows)
    BY <1>2, <1>3, NewerIsOrder
  <2> QED
    BY <1>2, <2>1
<1>6. place \in Injection(rows, 1..N)
  BY <1>5 DEF Injection, IsInjective
<1>7. IsFiniteSet(1..N) /\ Cardinality(1..N) = N
  BY <1>1, FS_Interval
<1>8. place \in Surjection(rows, 1..N)
  BY <1>6, <1>7, FS_Injection
<1>9. \A i \in 1..N : \E m \in rows : Place(m, rows) = i
  BY <1>8 DEF Surjection
<1>10. size \in Nat /\ size <= N /\ size <= n /\ (size < n => size = N)
  BY <1>1
<1>11. FirstOf(rows, n) = [i \in 1..size |-> at(i)]
  BY DEF FirstOf
<1> DEFINE first == FirstOf(rows, n)
<1>12. \A i \in 1..size : first[i] \in rows /\ Place(first[i], rows) = i
  <2>1. \A i \in 1..size : \E m \in rows : Place(m, rows) = i
    <3> HIDE DEF N
    <3> QED
      BY <1>1, <1>9, <1>10
  <2>2. \A i \in 1..size : at(i) \in rows /\ Place(at(i), rows) = i
    BY <2>1
  <2> HIDE DEF at
  <2> QED
    BY <1>11, <2>2
<1>13. first \in Seq(rows) /\ Len(first) = size /\ DOMAIN first = 1..size
  <2>1. first = [i \in 1..size |-> first[i]]
    BY <1>11
  <2> HIDE DEF first, size
  <2> QED
    BY <1>10, <1>12, <2>1
<1>14. \A i, j \in 1..size : i < j => Newer(first[i], first[j])
  BY <1>4, <1>12
<1>15. \A m \in rows : Place(m, rows) \in 1..size => first[Place(m, rows)] = m
  BY <1>5, <1>12
<1>16. \A m \in rows : Place(m, rows) \notin 1..size => \A i \in 1..size : Newer(first[i], m)
  <2> SUFFICES ASSUME NEW m \in rows, Place(m, rows) \notin 1..size, NEW i \in 1..size
               PROVE  Newer(first[i], m)
    OBVIOUS
  <2>1. Place(first[i], rows) < Place(m, rows)
    BY <1>2, <1>10, <1>12
  <2> QED
    BY <1>4, <1>12, <2>1
<1>17. size < n => \A m \in rows : Place(m, rows) \in 1..size
  BY <1>2, <1>10
<1> HIDE DEF first, size, N
<1> QED
  BY <1>10, <1>13, <1>14, <1>15, <1>16, <1>17 DEF first
--------------------------------------------------------------------------------
(* Types. *)

AnyRequest == {Idle, Done} \cup ChannelRequest \cup TimelineRequest \cup ReactionRequest
Inserts == [pc : {"insert"}, space : Spaces, type : Kinds]
Updates == [pc : {"update"}, channel : 1..MaxChannels, type : Kinds \cup {"same"}]
Reorders == [pc : {"whose", "move"}, space : Spaces, list : Lists, i : 1..MaxListed]
Sends == [pc : {"send"}, channel : 1..MaxChannels, reply : BOOLEAN]
Commits == [pc : {"commit"}, message : Rows]
Pages == [pc : {"page", "end"}, channel : 1..MaxChannels, user : Users, limit : PageSizes,
          cursor : [at : 0..MaxTime, id : 0..MaxMessages], got : Seq(Rows),
          present : SUBSET Rows]
Marks == [pc : {"mark"}, space : Spaces, user : Users, at : 0..MaxTime, began : 0..MaxTime]

LEMMA RequestKinds ==
    /\ {Idle, Done} \subseteq AnyRequest
    /\ \A X \in {Inserts, Updates, [pc : {"close"}, channel : 1..MaxChannels], Reorders,
                 Sends, Commits, Pages, Marks, ReactionRequest} : X \subseteq AnyRequest
  BY DEF AnyRequest, ChannelRequest, TimelineRequest, Inserts, Updates, Reorders, Sends,
         Commits, Pages, Marks

\* What a request in each of its phases has.
LEMMA Fields ==
    ASSUME TypeOK, NEW r \in Requests
    PROVE  /\ req \in [Requests -> AnyRequest]
           /\ At(r, "insert") => req[r] \in Inserts
           /\ At(r, "update") => req[r] \in Updates
           /\ req[r].pc \in {"whose", "move"} => req[r] \in Reorders
           /\ At(r, "send") => req[r] \in Sends
           /\ At(r, "commit") => req[r] \in Commits
           /\ req[r].pc \in {"page", "end"} => req[r] \in Pages
           /\ At(r, "mark") => req[r] \in Marks
           /\ req[r].pc \in Working => req[r] \in ReactionRequest
<1>1. req \in [Requests -> AnyRequest] /\ req[r] \in AnyRequest
  BY DEF TypeOK, AnyRequest
<1> QED
  BY <1>1 DEF AnyRequest, ChannelRequest, TimelineRequest, ReactionRequest, Idle, Done,
              Inserts, Updates, Reorders, Sends, Commits, Pages, Marks, Working, At

LEMMA Started ==
    ASSUME TypeOK, NEW r \in Requests, NEW q \in AnyRequest, req' = [req EXCEPT ![r] = q]
    PROVE  req' \in [Requests -> AnyRequest]
  BY DEF TypeOK, AnyRequest

LEMMA EndTypes ==
    ASSUME TypeOK, NEW r \in Requests, End(r)
    PROVE  req' \in [Requests -> AnyRequest]
  BY RequestKinds, Started DEF End

\* A change of the types' parts.
LEMMA TypeParts ==
    ASSUME req' \in [Requests -> AnyRequest],
           channels' \in Seq(Channel), Len(channels') <= MaxChannels,
           asked' \in [Spaces -> Lists \cup {<<>>}], disturbed' \subseteq Requests,
           messages' \in [Rows -> Message \cup {Free}], now' \in 0..MaxTime,
           markedAt' \in [Spaces -> [Users -> 0..MaxTime]],
           reactions' \subseteq Keys, view' \subseteq Keys, unsaid' \subseteq Keys,
           mixed' \subseteq Keys, memberships' \in [Spaces -> [Users -> Membership]]
    PROVE  TypeOK'
  BY DEF TypeOK, ChannelsType, TimelineType, ReactionsType, AnyRequest

LEMMA FunctionIsSeq ==
    ASSUME NEW S, NEW n \in Nat, NEW f \in [1..n -> S]
    PROVE  f \in Seq(S) /\ Len(f) = n /\ DOMAIN f = 1..n
<1>1. f = [i \in 1..n |-> f[i]] /\ \A i \in 1..n : f[i] \in S
  OBVIOUS
<1> QED
  BY <1>1

LEMMA ListFacts ==
    ASSUME NEW list \in Lists
    PROVE  /\ list \in Seq(1..MaxChannels) /\ Len(list) \in 1..MaxListed
           /\ DOMAIN list = 1..Len(list)
<1>1. PICK n \in 1..MaxListed : list \in [1..n -> 1..MaxChannels]
  BY DEF Lists
<1>2. n \in Nat
  BY <1>1
<1> QED
  BY <1>1, <1>2, FunctionIsSeq

LEMMA RowChange ==
    ASSUME NEW c, NEW row, channels \in Seq(Channel), c \in Ids => row \in Channel,
           channels' = [channels EXCEPT ![c] = row]
    PROVE  channels' \in Seq(Channel) /\ Len(channels') = Len(channels)
<1> DEFINE n == Len(channels)
<1>1. n \in Nat /\ DOMAIN channels = 1..n /\ \A d \in 1..n : channels[d] \in Channel
  OBVIOUS
<1>2. channels' = [d \in 1..n |-> channels'[d]]
  BY <1>1
<1>3. \A d \in 1..n : channels'[d] = IF d = c THEN row ELSE channels[d]
  BY <1>1
<1>4. \A d \in 1..n : channels'[d] \in Channel
  BY <1>1, <1>3 DEF Ids
<1>5. channels' \in [1..n -> Channel]
  BY <1>2, <1>4
<1> HIDE DEF n
<1>6. channels' \in Seq(Channel) /\ Len(channels') = n
  BY <1>1, <1>5, FunctionIsSeq
<1> QED
  BY <1>6 DEF n

LEMMA RequestsKeepType ==
    ASSUME TypeOK, NEW r \in Requests, NEW p, Goto(r, p),
           \/ {req[r].pc, p} \subseteq {"whose", "move"}
           \/ {req[r].pc, p} \subseteq Working
    PROVE  req' \in [Requests -> AnyRequest]
<1> DEFINE q == [req[r] EXCEPT !.pc = p]
<1>1. CASE {req[r].pc, p} \subseteq {"whose", "move"}
  <2>1. req[r] \in Reorders
    BY <1>1, Fields
  <2>2. q \in Reorders
    BY <1>1, <2>1 DEF Reorders
  <2> QED
    BY <2>2, Fields, RequestKinds DEF Goto
<1>2. CASE {req[r].pc, p} \subseteq Working
  <2>1. req[r] \in ReactionRequest
    BY <1>2, Fields
  <2>2. q \in ReactionRequest
    BY <1>2, <2>1 DEF ReactionRequest, Working
  <2> QED
    BY <2>2, Fields, RequestKinds DEF Goto
<1> QED
  BY <1>1, <1>2

LEMMA FirstChannels ==
    LET defaults == {[space |-> s, type |-> "text", position |-> 0, live |-> TRUE] :
                        s \in Spaces \ {Home}}
    IN SetToSeq(defaults) \in Seq(Channel) /\ Len(SetToSeq(defaults)) + 2 <= MaxChannels
<1> DEFINE default == [s \in Spaces \ {Home} |->
                          [space |-> s, type |-> "text", position |-> 0, live |-> TRUE]]
           D == {[space |-> s, type |-> "text", position |-> 0, live |-> TRUE] :
                    s \in Spaces \ {Home}}
           n == Cardinality(D)
<1>1. IsFiniteSet(Spaces \ {Home}) /\ Cardinality(Spaces \ {Home}) = Cardinality(Spaces) - 1
  BY ConversationAssumption, FS_RemoveElement
<1>2. default \in Surjection(Spaces \ {Home}, D)
  BY DEF Surjection
<1>3. IsFiniteSet(D) /\ Cardinality(D) <= Cardinality(Spaces \ {Home})
  BY <1>1, <1>2, FS_Surjection
<1>4. n \in Nat /\ ExistsBijection(1..n, D)
  BY <1>3, FS_CardinalityType
<1>5. D \subseteq Channel
  <2>1. \A s \in Spaces \ {Home} :
           [space |-> s, type |-> "text", position |-> 0, live |-> TRUE] \in Channel
    BY DEF Channel, Kinds
  <2> QED
    BY <2>1
<1> HIDE DEF D, default
<1>6. \E f \in [1..n -> D] : IsInjective(f)
  BY <1>4 DEF ExistsBijection, Bijection, Injection
<1>7. SetToSeq(D) \in [1..n -> D]
  BY <1>6 DEF SetToSeq
<1>8. SetToSeq(D) \in Seq(D) /\ Len(SetToSeq(D)) = n
  <2> HIDE DEF n
  <2> QED
    BY <1>4, <1>7, FunctionIsSeq
<1>9. SetToSeq(D) \in Seq(Channel)
  BY <1>5, <1>8
<1>10. n + 2 <= MaxChannels
  <2>1. Cardinality(Spaces) \in Nat
    BY ConversationAssumption, FS_CardinalityType
  <2> HIDE DEF n
  <2>2. n <= Cardinality(Spaces) - 1
    BY <1>1, <1>3 DEF n
  <2> QED
    BY <1>4, <2>1, <2>2, ConversationAssumption, ChannelsAssumption
<1> QED
  BY <1>8, <1>9, <1>10 DEF D

LEMMA InitTypes ==
    ASSUME Init
    PROVE  TypeOK
<1> DEFINE two == << [space |-> Home, type |-> "text", position |-> 0, live |-> TRUE],
                     [space |-> Home, type |-> "voice", position |-> 1, live |-> TRUE] >>
           D == {[space |-> s, type |-> "text", position |-> 0, live |-> TRUE] :
                    s \in Spaces \ {Home}}
<1>1. two \in Seq(Channel) /\ Len(two) = 2
  BY ConversationAssumption DEF Channel, Kinds
<1>2. SetToSeq(D) \in Seq(Channel) /\ Len(SetToSeq(D)) + 2 <= MaxChannels
  BY FirstChannels
<1>3. channels = two \o SetToSeq(D)
  BY DEF Init
<1> HIDE DEF two, D
<1>4. channels \in Seq(Channel) /\ Len(channels) <= MaxChannels
  <2>1. channels \in Seq(Channel)
    BY <1>1, <1>2, <1>3
  <2>2. Len(channels) = Len(two) + Len(SetToSeq(D))
    <3>1. \A q, t \in Seq(Channel) : Len(q \o t) = Len(q) + Len(t)
      OBVIOUS
    <3> QED
      BY <1>1, <1>2, <1>3, <3>1
  <2> QED
    BY <1>1, <1>2, <2>1, <2>2
<1>5. MaxMessages \in Nat /\ MaxTime \in Nat /\ MaxTime >= 2 /\ MaxChannels \in Nat
  BY TimelineAssumption, ConversationAssumption, ChannelsAssumption
<1>6. 1 \in 1..MaxChannels /\ 0 \in 0..MaxTime /\ 1 \in 0..MaxTime /\ 2 \in 0..MaxTime
  BY <1>1, <1>2, <1>5
<1>7. messages \in [Rows -> Message \cup {Free}]
  <2>1. PICK step \in {0, 1} :
           messages = [m \in Rows |->
                         IF m = MaxMessages THEN Free
                         ELSE [state |-> "visible", channel |-> 1,
                               at |-> IF m > 1 THEN 1 + step ELSE 1, reply |-> FALSE]]
    BY DEF Init
  <2>2. \A m \in Rows : (IF m > 1 THEN 1 + step ELSE 1) \in 0..MaxTime
    BY <1>6
  <2> QED
    BY <1>6, <2>1, <2>2 DEF Message
<1>8. ChannelsType
  BY <1>4 DEF Init, ChannelsType
<1>9. TimelineType
  BY <1>6, <1>7 DEF Init, TimelineType
<1>10. ReactionsType
  BY DEF Init, ReactionsType
<1>11. memberships \in [Spaces -> [Users -> Membership]]
  <2>1. \A s \in Spaces, u \in Users :
           [NoMembership EXCEPT !.role = IF u \notin InstanceAdmins /\ s = Home
                                           THEN "admin" ELSE "none"] \in Membership
    BY <1>6 DEF NoMembership, Membership, Roles
  <2> QED
    BY <2>1 DEF Init
<1>12. req \in [Requests -> AnyRequest]
  BY RequestKinds DEF Init
<1> QED
  BY <1>8, <1>9, <1>10, <1>11, <1>12 DEF TypeOK, AnyRequest

LEMMA ChannelTypes ==
    ASSUME TypeOK, NEW r \in Requests, ChannelStep(r), UNCHANGED <<timelineVars, reactionVars>>
    PROVE  TypeOK'
<1>1. /\ memberships \in [Spaces -> [Users -> Membership]]
      /\ channels \in Seq(Channel) /\ Len(channels) <= MaxChannels
      /\ asked \in [Spaces -> Lists \cup {<<>>}] /\ disturbed \subseteq Requests
  BY DEF TypeOK, ChannelsType
<1>2. /\ messages' \in [Rows -> Message \cup {Free}] /\ now' \in 0..MaxTime
      /\ markedAt' \in [Spaces -> [Users -> 0..MaxTime]]
      /\ reactions' \subseteq Keys /\ view' \subseteq Keys /\ unsaid' \subseteq Keys
      /\ mixed' \subseteq Keys
  BY DEF TypeOK, TimelineType, ReactionsType, timelineVars, reactionVars
<1>3. ASSUME req' \in [Requests -> AnyRequest], UNCHANGED <<memberships, channelVars>>
      PROVE  TypeOK'
  BY <1>1, <1>2, <1>3, TypeParts DEF channelVars
<1>4. ASSUME End(r), UNCHANGED <<memberships, asked, disturbed>>,
             channels' \in Seq(Channel), Len(channels') <= MaxChannels
      PROVE  TypeOK'
  <2>1. req' \in [Requests -> AnyRequest]
    BY <1>4, EndTypes
  <2> QED
    BY <1>1, <1>2, <1>4, <2>1, TypeParts
<1>5. Ids \subseteq 1..MaxChannels
  BY <1>1, ChannelsAssumption DEF Ids
<1>6. CASE CreateChannel(r)
  <2>1. PICK s \in Spaces, u \in Users, k \in Kinds : BeginCreate(r, s, u, k)
    BY <1>6 DEF CreateChannel
  <2>2. [pc |-> "insert", space |-> s, type |-> k] \in Inserts
    BY DEF Inserts
  <2> QED
    BY <1>3, <2>1, <2>2, RequestKinds, Started DEF BeginCreate, Start
<1>7. CASE InsertChannel(r)
  <2>1. req[r].space \in Spaces /\ req[r].type \in Kinds
    BY <1>7, Fields DEF InsertChannel, Inserts
  <2>2. NextPosition(req[r].space) = 0
    BY DEF NextPosition, ScannedAs
  <2> DEFINE row == [space |-> req[r].space, type |-> req[r].type, position |-> 0, live |-> TRUE]
  <2>3. row \in Channel /\ channels' = Append(channels, row)
    BY <1>7, <2>1, <2>2 DEF InsertChannel, InsertRow, Channel
  <2>4. Len(channels) < MaxChannels /\ End(r) /\ UNCHANGED <<memberships, asked, disturbed>>
    BY <1>7 DEF InsertChannel
  <2> HIDE DEF row
  <2>5. channels' \in Seq(Channel) /\ Len(channels') <= MaxChannels
    BY <1>1, <2>3, <2>4, ChannelsAssumption
  <2> QED
    BY <1>4, <2>4, <2>5
<1>8. CASE UpdateChannel(r)
  <2>1. PICK c \in Ids, u \in Users, k \in Kinds \cup {"same"} : BeginUpdate(r, c, u, k)
    BY <1>8 DEF UpdateChannel
  <2>2. [pc |-> "update", channel |-> c, type |-> k] \in Updates
    BY <1>5 DEF Updates
  <2> QED
    BY <1>3, <2>1, <2>2, RequestKinds, Started DEF BeginUpdate, Start
<1>9. CASE StoreChannel(r)
  <2> DEFINE c == req[r].channel
             row == [channels[c] EXCEPT !.type = IF req[r].type = "same" THEN @ ELSE req[r].type]
  <2>1. req[r].type \in Kinds \cup {"same"} /\ c \in Ids
    BY <1>9, Fields DEF StoreChannel, Updates, GetChannelByID
  <2>2. channels[c] \in Channel
    BY <1>1, <2>1 DEF Ids
  <2>3. row \in Channel
    BY <2>1, <2>2 DEF Channel
  <2>4. channels' = [channels EXCEPT ![c] = row]
    BY <1>9 DEF StoreChannel, UpdateRow
  <2>5. channels' \in Seq(Channel) /\ Len(channels') = Len(channels)
    BY <1>1, <2>3, <2>4, RowChange
  <2> QED
    BY <1>1, <1>4, <1>9, <2>5 DEF StoreChannel
<1>10. CASE DeleteChannel(r)
  <2>1. PICK c \in Ids, u \in Users : BeginDelete(r, c, u)
    BY <1>10 DEF DeleteChannel
  <2>2. [pc |-> "close", channel |-> c] \in AnyRequest
    BY <1>5, RequestKinds
  <2> QED
    BY <1>3, <2>1, <2>2, Started DEF BeginDelete, Start
<1>11. CASE CloseChannel(r)
  <2> DEFINE c == req[r].channel
             row == [channels[c] EXCEPT !.live = FALSE]
  <2>1. c \in Ids => row \in Channel
    <3>1. c \in Ids => channels[c] \in Channel
      BY <1>1 DEF Ids
    <3> QED
      BY <3>1 DEF Channel
  <2>2. channels' = [channels EXCEPT ![c] = row]
    BY <1>11 DEF CloseChannel, SoftDeleteChannel
  <2>3. channels' \in Seq(Channel) /\ Len(channels') = Len(channels)
    BY <1>1, <2>1, <2>2, RowChange
  <2> QED
    BY <1>1, <1>4, <1>11, <2>3 DEF CloseChannel
<1>12. CASE ReorderChannels(r)
  <2>1. PICK s \in Spaces, u \in Users, list \in Lists : BeginReorder(r, s, u, list)
    BY <1>12 DEF ReorderChannels
  <2>2. 1 \in 1..MaxListed
    BY ListFacts, ChannelsAssumption
  <2>3. [pc |-> "whose", space |-> s, list |-> list, i |-> 1] \in Reorders
    BY <2>2 DEF Reorders
  <2> QED
    BY <1>3, <2>1, <2>3, RequestKinds, Started DEF BeginReorder, Start
<1>13. CASE CheckListed(r)
  BY <1>3, <1>13, RequestsKeepType DEF CheckListed, At
<1>14. CASE MoveListed(r)
  <2> DEFINE s == req[r].space
             list == req[r].list
             i == req[r].i
             c == list[i]
             row == [channels[c] EXCEPT !.position = i - 1]
  <2>1. req[r] \in Reorders /\ s \in Spaces /\ list \in Lists /\ i \in 1..MaxListed
    BY <1>14, Fields DEF MoveListed, At, Reorders
  <2>2. channels' \in Seq(Channel) /\ Len(channels') = Len(channels)
    <3>1. c \in Ids => row \in Channel
      <4>1. c \in Ids => channels[c] \in Channel
        BY <1>1 DEF Ids
      <4>2. i - 1 \in Nat
        BY <2>1
      <4> HIDE DEF c
      <4> QED
        BY <4>1, <4>2 DEF Channel
    <3>2. channels' = channels \/ channels' = [channels EXCEPT ![c] = row]
      BY <1>14 DEF MoveListed, UpdateChannelPosition
    <3> HIDE DEF c, row
    <3> QED
      BY <1>1, <3>1, <3>2, RowChange
  <2>3. disturbed' \subseteq Requests
    BY <1>1, <1>14 DEF MoveListed, Reordering
  <2>4. asked' \in [Spaces -> Lists \cup {<<>>}]
    BY <1>1, <1>14, <2>1 DEF MoveListed
  <2>5. req' \in [Requests -> AnyRequest]
    <3>1. CASE i < Len(list)
      <4>1. i + 1 \in 1..MaxListed
        BY <2>1, <3>1, ListFacts, ChannelsAssumption
      <4> DEFINE q == [req[r] EXCEPT !.pc = "whose", !.i = i + 1]
      <4>2. req' = [req EXCEPT ![r] = q]
        BY <1>14, <3>1, Fields DEF MoveListed
      <4>3. q \in Reorders
        BY <2>1, <4>1 DEF Reorders
      <4> QED
        BY <4>2, <4>3, RequestKinds, Started
    <3>2. CASE ~(i < Len(list))
      BY <1>14, <3>2, EndTypes DEF MoveListed
    <3> QED
      BY <3>1, <3>2
  <2>6. memberships' = memberships
    BY <1>14 DEF MoveListed
  <2> QED
    BY <1>1, <1>2, <2>2, <2>3, <2>4, <2>5, <2>6, TypeParts
<1> QED
  BY <1>6, <1>7, <1>8, <1>9, <1>10, <1>11, <1>12, <1>13, <1>14 DEF ChannelStep

LEMMA VisibleRows ==
    ASSUME TypeOK, NEW m \in Visible
    PROVE  /\ m \in Rows /\ m \in Nat /\ messages[m] \in Message /\ messages[m] # Free
           /\ messages[m].at \in 0..MaxTime /\ messages[m].at \in Nat
  BY TimelineAssumption DEF TypeOK, TimelineType, Visible, Message, Free, Rows

\* The rows a page is taken from.
Following(q) ==
    {m \in Visible : /\ messages[m].channel = q.channel /\ ~messages[m].reply
                     /\ q.cursor # NoCursor => ComesAfter(m, q.cursor)}

\* What a page adds to those the client has.
LEMMA PageFacts ==
    ASSUME TypeOK, NEW r \in Requests, FetchPage(r)
    PROVE  LET n == req[r].limit
               rows == FirstOf(Following(req[r]), n + 1)
           IN /\ req[r] \in Pages /\ n \in Nat \ {0}
              /\ rows \in Seq(Following(req[r])) /\ Len(rows) \in Nat
              /\ \A i, j \in DOMAIN rows : i < j => Newer(rows[i], rows[j])
              /\ \A m \in Following(req[r]) :
                    \/ \E i \in DOMAIN rows : rows[i] = m
                    \/ Len(rows) > n /\ \A i \in DOMAIN rows : Newer(rows[i], m)
              /\ \E page \in Seq(Following(req[r])) :
                    /\ \A i \in 1..Len(page) : page[i] = rows[i]
                    /\ \/ /\ Len(rows) = n + 1 /\ Len(page) = n
                          /\ req' = [req EXCEPT ![r] = [req[r] EXCEPT
                                !.got = req[r].got \o page, !.cursor = EncodeCursor(rows[n])]]
                       \/ /\ Len(rows) <= n /\ Len(page) = Len(rows)
                          /\ req' = [req EXCEPT ![r] = [req[r] EXCEPT
                                !.got = req[r].got \o page, !.pc = "end"]]
<1> DEFINE n == req[r].limit
           c == req[r].channel
           cursor == req[r].cursor
           F == Following(req[r])
           rows == FirstOf(F, n + 1)
           old == IF cursor = NoCursor THEN ListChannelMessages(c, n + 1)
                  ELSE ListChannelMessagesCursor(c, cursor, n + 1)
<1>1. req[r] \in Pages /\ n \in Nat \ {0}
  BY Fields, TimelineAssumption DEF FetchPage, At, Pages
<1>2. F \in SUBSET Rows /\ Timed(F)
  BY VisibleRows DEF Following, Timed
<1>3. old = rows
  <2>1. CASE cursor = NoCursor
    <3>1. F = {m \in Visible : messages[m].channel = c /\ ~messages[m].reply}
      BY <2>1 DEF Following
    <3> QED
      BY <2>1, <3>1 DEF ListChannelMessages
  <2>2. CASE cursor # NoCursor
    <3>1. F = {m \in Visible : /\ messages[m].channel = c /\ ~messages[m].reply
                               /\ ComesAfter(m, cursor)}
      BY <2>2 DEF Following
    <3> QED
      BY <2>2, <3>1 DEF ListChannelMessagesCursor
  <2> QED
    BY <2>1, <2>2
<1>4. /\ rows \in Seq(F) /\ Len(rows) <= n + 1
      /\ \A i, j \in DOMAIN rows : i < j => Newer(rows[i], rows[j])
      /\ Len(rows) < n + 1 => \A m \in F : \E i \in DOMAIN rows : rows[i] = m
      /\ \A m \in F : \/ \E i \in DOMAIN rows : rows[i] = m
                      \/ \A i \in DOMAIN rows : Newer(rows[i], m)
  <2>1. n + 1 \in Nat
    BY <1>1
  <2> HIDE DEF F, n
  <2> QED
    BY <1>2, <2>1, FirstOfIsSorted
<1>5. Len(rows) \in Nat
  BY <1>4
<1> DEFINE hasMore == Len(rows) > n
           page == IF hasMore THEN SubSeq(rows, 1, n) ELSE rows
<1>6. IF hasMore
        THEN req' = [req EXCEPT ![r].got = @ \o page, ![r].cursor = EncodeCursor(page[n])]
        ELSE req' = [req EXCEPT ![r].got = @ \o page, ![r].pc = "end"]
  BY <1>3 DEF FetchPage
<1>7. \A m \in F : \/ \E i \in DOMAIN rows : rows[i] = m
                   \/ Len(rows) > n /\ \A i \in DOMAIN rows : Newer(rows[i], m)
  BY <1>1, <1>4, <1>5
<1> HIDE DEF F, rows, n
<1>8. page \in Seq(F) /\ \A i \in 1..Len(page) : page[i] = rows[i]
  <2>1. CASE hasMore
    <3>1. /\ SubSeq(rows, 1, n) \in Seq(F) /\ Len(SubSeq(rows, 1, n)) = n
          /\ \A i \in 1..n : SubSeq(rows, 1, n)[i] = rows[i]
      BY <1>1, <1>4, <1>5, <2>1
    <3> QED
      BY <2>1, <3>1
  <2> QED
    BY <1>4, <2>1
<1>9. CASE hasMore
  <2>1. Len(page) = n /\ page[n] = rows[n] /\ Len(rows) = n + 1
    BY <1>1, <1>4, <1>5, <1>9
  <2>2. req' = [req EXCEPT ![r] = [req[r] EXCEPT
           !.got = req[r].got \o page, !.cursor = EncodeCursor(rows[n])]]
    <3> HIDE DEF page, hasMore
    <3>1. req \in [Requests -> AnyRequest]
      BY Fields
    <3>2. req' = [req EXCEPT ![r].got = @ \o page, ![r].cursor = EncodeCursor(rows[n])]
      BY <1>6, <1>9, <2>1
    <3> DEFINE got == req[r].got \o page
               cur == EncodeCursor(rows[n])
    <3>3. req' = [req EXCEPT ![r].got = got, ![r].cursor = cur]
      BY <3>2
    <3> SUFFICES req' = [req EXCEPT ![r] = [req[r] EXCEPT !.got = got, !.cursor = cur]]
      OBVIOUS
    <3> HIDE DEF got, cur
    <3> QED
      BY <3>1, <3>3
  <2> HIDE DEF page
  <2> QED
    BY <1>1, <1>4, <1>5, <1>7, <1>8, <2>1, <2>2 DEF F, rows, n
<1>10. CASE ~hasMore
  <2>1. Len(page) = Len(rows) /\ Len(rows) <= n
    BY <1>1, <1>5, <1>10
  <2>2. req' = [req EXCEPT ![r] = [req[r] EXCEPT !.got = req[r].got \o page, !.pc = "end"]]
    <3> HIDE DEF page, hasMore
    <3>1. req \in [Requests -> AnyRequest]
      BY Fields
    <3> DEFINE got == req[r].got \o page
    <3>2. req' = [req EXCEPT ![r].got = got, ![r].pc = "end"]
      BY <1>6, <1>10
    <3> SUFFICES req' = [req EXCEPT ![r] = [req[r] EXCEPT !.got = got, !.pc = "end"]]
      OBVIOUS
    <3> HIDE DEF got
    <3> QED
      BY <3>1, <3>2
  <2> HIDE DEF page
  <2> QED
    BY <1>1, <1>4, <1>5, <1>7, <1>8, <2>1, <2>2 DEF F, rows, n
<1> QED
  BY <1>9, <1>10

\* A message is committed by the one request that inserted it.
CommitInv ==
    /\ \A r \in Requests : At(r, "commit") => messages[req[r].message].state = "inserted"
    /\ \A q, r \in Requests :
        At(q, "commit") /\ At(r, "commit") /\ req[q].message = req[r].message => q = r

LEMMA RowIsMessage ==
    ASSUME TypeOK, NEW m \in Rows, messages[m].state # "free"
    PROVE  messages[m] \in Message
  BY DEF TypeOK, TimelineType, Free

LEMMA TimelineTypes ==
    ASSUME TypeOK, CommitInv, NEW r \in Requests, TimelineStep(r), UNCHANGED reactionVars
    PROVE  TypeOK'
<1>1. /\ memberships \in [Spaces -> [Users -> Membership]]
      /\ channels \in Seq(Channel) /\ Len(channels) <= MaxChannels
      /\ messages \in [Rows -> Message \cup {Free}] /\ now \in 0..MaxTime
      /\ markedAt \in [Spaces -> [Users -> 0..MaxTime]]
  BY DEF TypeOK, ChannelsType, TimelineType
<1>2. ASSUME req' \in [Requests -> AnyRequest], UNCHANGED channelVars,
             messages' \in [Rows -> Message \cup {Free}], now' = now,
             markedAt' \in [Spaces -> [Users -> 0..MaxTime]],
             memberships' \in [Spaces -> [Users -> Membership]]
      PROVE  TypeOK'
  <2>1. /\ channels' \in Seq(Channel) /\ Len(channels') <= MaxChannels
        /\ asked' \in [Spaces -> Lists \cup {<<>>}] /\ disturbed' \subseteq Requests
        /\ reactions' \subseteq Keys /\ view' \subseteq Keys /\ unsaid' \subseteq Keys
        /\ mixed' \subseteq Keys
    BY <1>2 DEF TypeOK, ChannelsType, ReactionsType, channelVars, reactionVars
  <2> QED
    BY <1>1, <1>2, <2>1, TypeParts
<1>3. ASSUME req' \in [Requests -> AnyRequest],
             UNCHANGED <<memberships, channelVars, timelineVars>>
      PROVE  TypeOK'
  BY <1>1, <1>2, <1>3 DEF timelineVars
<1>4. Ids \subseteq 1..MaxChannels /\ \A c \in Ids : channels[c].space \in Spaces
  <2>1. \A c \in Ids : channels[c] \in Channel
    BY <1>1 DEF Ids
  <2> QED
    BY <1>1, <2>1, ChannelsAssumption DEF Ids, Channel
<1>5. CASE SendMessage(r)
  <2>1. PICK c \in Ids, reply \in BOOLEAN :
           Start(r, [pc |-> "send", channel |-> c, reply |-> reply])
    BY <1>5 DEF SendMessage
  <2>2. [pc |-> "send", channel |-> c, reply |-> reply] \in Sends
    BY <1>4 DEF Sends
  <2> QED
    BY <1>3, <1>5, <2>1, <2>2, RequestKinds, Started DEF SendMessage, Start
<1>6. CASE InsertMessage(r)
  <2>1. PICK m \in Rows : /\ CreateMessage(m, req[r].channel, req[r].reply)
                          /\ Start(r, [pc |-> "commit", message |-> m])
    BY <1>6 DEF InsertMessage
  <2>2. [pc |-> "commit", message |-> m] \in Commits
    BY DEF Commits
  <2>3. req[r].channel \in 1..MaxChannels /\ req[r].reply \in BOOLEAN
    BY <1>6, Fields DEF InsertMessage, Sends
  <2>4. messages' \in [Rows -> Message \cup {Free}]
    BY <1>1, <2>1, <2>3 DEF CreateMessage, Message
  <2>5. req' \in [Requests -> AnyRequest]
    BY <2>1, <2>2, RequestKinds, Started DEF Start
  <2> QED
    BY <1>1, <1>2, <1>6, <2>4, <2>5 DEF InsertMessage
<1>7. CASE CommitMessage(r)
  <2> DEFINE m == req[r].message
             row == [messages[m] EXCEPT !.state = "visible"]
  <2>1. m \in Rows /\ messages[m] \in Message
    BY <1>7, Fields, RowIsMessage DEF CommitMessage, CommitInv, Commits, At
  <2>2. row \in Message
    BY <2>1 DEF Message
  <2>3. messages' \in [Rows -> Message \cup {Free}]
    BY <1>1, <1>7, <2>2 DEF CommitMessage
  <2> QED
    BY <1>1, <1>2, <1>7, <2>3, EndTypes DEF CommitMessage
<1>8. CASE ListMessages(r)
  <2>1. PICK c \in Ids, u \in Users, n \in PageSizes :
           Start(r, [pc |-> "page", channel |-> c, user |-> u, limit |-> n,
                     cursor |-> NoCursor, got |-> <<>>,
                     present |-> {m \in Visible : messages[m].channel = c}])
    BY <1>8 DEF ListMessages
  <2> DEFINE present == {m \in Visible : messages[m].channel = c}
             q == [pc |-> "page", channel |-> c, user |-> u, limit |-> n,
                   cursor |-> NoCursor, got |-> <<>>, present |-> present]
  <2>2. present \subseteq Rows /\ NoCursor \in [at : 0..MaxTime, id : 0..MaxMessages]
    BY TimelineAssumption DEF Visible, NoCursor
  <2>3. q \in Pages
    <3> HIDE DEF present
    <3> QED
      BY <1>4, <2>2 DEF Pages
  <2>4. req' = [req EXCEPT ![r] = q]
    BY <2>1 DEF Start
  <2> HIDE DEF q
  <2> QED
    BY <1>3, <1>8, <2>3, <2>4, RequestKinds, Started DEF ListMessages
<1>9. CASE FetchPage(r)
  <2> DEFINE n == req[r].limit
             F == Following(req[r])
             rows == FirstOf(F, n + 1)
  <2>1. /\ req[r] \in Pages /\ n \in Nat \ {0} /\ rows \in Seq(F)
        /\ \E page \in Seq(F) :
              \/ /\ Len(rows) = n + 1
                 /\ req' = [req EXCEPT ![r] = [req[r] EXCEPT !.got = req[r].got \o page,
                                               !.cursor = EncodeCursor(rows[n])]]
              \/ req' = [req EXCEPT ![r] = [req[r] EXCEPT !.got = req[r].got \o page,
                                            !.pc = "end"]]
    BY <1>9, PageFacts
  <2> HIDE DEF n, rows, F
  <2>2. PICK page \in Seq(F) :
              \/ /\ Len(rows) = n + 1
                 /\ req' = [req EXCEPT ![r] = [req[r] EXCEPT !.got = req[r].got \o page,
                                               !.cursor = EncodeCursor(rows[n])]]
              \/ req' = [req EXCEPT ![r] = [req[r] EXCEPT !.got = req[r].got \o page,
                                            !.pc = "end"]]
    BY <2>1
  <2> DEFINE got == req[r].got \o page
  <2>3. F \subseteq Visible /\ F \subseteq Rows
    BY VisibleRows DEF F, Following
  <2>4. got \in Seq(Rows)
    <3>1. page \in Seq(Rows) /\ req[r].got \in Seq(Rows)
      BY <2>1, <2>3 DEF Pages
    <3> QED
      BY <3>1
  <2> HIDE DEF got
  <2>5. CASE req' = [req EXCEPT ![r] = [req[r] EXCEPT !.got = got, !.pc = "end"]]
    <3>1. [req[r] EXCEPT !.got = got, !.pc = "end"] \in Pages
      BY <2>1, <2>4 DEF Pages
    <3> QED
      BY <1>3, <1>9, <2>5, <3>1, RequestKinds, Started DEF FetchPage
  <2>6. CASE /\ Len(rows) = n + 1
             /\ req' = [req EXCEPT ![r] = [req[r] EXCEPT !.got = got,
                                           !.cursor = EncodeCursor(rows[n])]]
    <3>1. rows[n] \in F
      BY <2>1, <2>6
    <3>2. EncodeCursor(rows[n]) \in [at : 0..MaxTime, id : 0..MaxMessages]
      <4>1. rows[n] \in 1..MaxMessages /\ messages[rows[n]].at \in 0..MaxTime
        BY <2>3, <3>1, VisibleRows DEF Rows
      <4> QED
        BY <4>1, TimelineAssumption DEF EncodeCursor
    <3>3. [req[r] EXCEPT !.got = got, !.cursor = EncodeCursor(rows[n])] \in Pages
      BY <2>1, <2>4, <3>2 DEF Pages
    <3> QED
      BY <1>3, <1>9, <2>6, <3>3, RequestKinds, Started DEF FetchPage
  <2> QED
    BY <2>2, <2>5, <2>6 DEF got
<1>10. CASE MarkChannelAsRead(r)
  <2>1. PICK c \in Ids, u \in Users, m \in Rows \cup {NoMessage} : BeginMark(r, c, u, m)
    BY <1>10 DEF MarkChannelAsRead
  <2> DEFINE at == IF m = NoMessage THEN now ELSE messages[m].at
             q == [pc |-> "mark", space |-> channels[c].space, user |-> u, began |-> now,
                   at |-> at]
  <2>2. at \in 0..MaxTime
    BY <1>1, <2>1, VisibleRows DEF BeginMark, GetMessageByID
  <2>3. q \in Marks
    <3> HIDE DEF at
    <3> QED
      BY <1>1, <1>4, <2>2 DEF Marks
  <2>4. req' = [req EXCEPT ![r] = q]
    BY <2>1 DEF BeginMark, Start
  <2> HIDE DEF q
  <2> QED
    BY <1>3, <2>1, <2>3, <2>4, RequestKinds, Started DEF BeginMark
<1>11. CASE StoreReadState(r)
  <2> DEFINE s == req[r].space
             u == req[r].user
  <2>1. s \in Spaces /\ u \in Users /\ req[r].at \in 0..MaxTime /\ req[r].began \in 0..MaxTime
    BY <1>11, Fields DEF StoreReadState, Marks
  <2>2. memberships' \in [Spaces -> [Users -> Membership]]
    <3>1. [memberships[s][u] EXCEPT !.read = req[r].at] \in Membership
      <4>1. memberships[s][u] \in Membership
        BY <1>1, <2>1
      <4> QED
        BY <2>1, <4>1 DEF Membership
    <3> QED
      BY <1>1, <1>11, <2>1, <3>1 DEF StoreReadState, UpdateReadState
  <2>3. markedAt' \in [Spaces -> [Users -> 0..MaxTime]]
    BY <1>1, <1>11, <2>1 DEF StoreReadState
  <2> QED
    BY <1>1, <1>2, <1>11, <2>2, <2>3, EndTypes DEF StoreReadState
<1> QED
  BY <1>5, <1>6, <1>7, <1>8, <1>9, <1>10, <1>11 DEF TimelineStep

LEMMA ReactionTypes ==
    ASSUME TypeOK, NEW r \in Requests, ReactionStep(r)
    PROVE  TypeOK'
<1>1. ASSUME req' \in [Requests -> AnyRequest],
             UNCHANGED <<memberships, channelVars, timelineVars>>,
             reactions' \subseteq Keys, view' \subseteq Keys, unsaid' \subseteq Keys,
             mixed' \subseteq Keys
      PROVE  TypeOK'
  <2>1. /\ channels' \in Seq(Channel) /\ Len(channels') <= MaxChannels
        /\ asked' \in [Spaces -> Lists \cup {<<>>}] /\ disturbed' \subseteq Requests
        /\ messages' \in [Rows -> Message \cup {Free}] /\ now' \in 0..MaxTime
        /\ markedAt' \in [Spaces -> [Users -> 0..MaxTime]]
        /\ memberships' \in [Spaces -> [Users -> Membership]]
    BY <1>1 DEF TypeOK, ChannelsType, TimelineType, channelVars, timelineVars
  <2> QED
    BY <1>1, <2>1, TypeParts
<1>2. reactions \subseteq Keys /\ view \subseteq Keys /\ unsaid \subseteq Keys /\ mixed \subseteq Keys
  BY DEF TypeOK, ReactionsType
<1>3. ASSUME NEW q \in ReactionRequest, req' = [req EXCEPT ![r] = q],
             UNCHANGED <<memberships, channelVars, timelineVars, reactionVars>>
      PROVE  TypeOK'
  <2>1. req' \in [Requests -> AnyRequest]
    BY <1>3, RequestKinds, Started
  <2> QED
    BY <1>1, <1>2, <1>3, <2>1 DEF reactionVars
<1>4. req[r].pc \in Working => req[r].key \in Keys
  BY Fields DEF ReactionRequest
<1>5. CASE StartAdd(r)
  <2>1. PICK k \in Keys : Start(r, [pc |-> "add", key |-> k, toggle |-> FALSE, has |-> FALSE])
    BY <1>5 DEF StartAdd
  <2>2. [pc |-> "add", key |-> k, toggle |-> FALSE, has |-> FALSE] \in ReactionRequest
    BY DEF ReactionRequest
  <2> QED
    BY <1>3, <1>5, <2>1, <2>2 DEF StartAdd, Start
<1>6. CASE StartRemove(r)
  <2>1. PICK k \in Keys : Start(r, [pc |-> "remove", key |-> k, toggle |-> FALSE, has |-> FALSE])
    BY <1>6 DEF StartRemove
  <2>2. [pc |-> "remove", key |-> k, toggle |-> FALSE, has |-> FALSE] \in ReactionRequest
    BY DEF ReactionRequest
  <2> QED
    BY <1>3, <1>6, <2>1, <2>2 DEF StartRemove, Start
<1>7. CASE ToggleReaction(r)
  <2>1. PICK k \in Keys : BeginToggle(r, k)
    BY <1>7 DEF ToggleReaction
  <2>2. [pc |-> "has?", key |-> k, toggle |-> TRUE, has |-> HasUserReacted(k)] \in ReactionRequest
    BY DEF ReactionRequest, HasUserReacted
  <2> QED
    BY <1>3, <2>1, <2>2 DEF BeginToggle, Start
<1>8. ASSUME NEW p \in Working, Goto(r, p), req[r].pc \in Working
      PROVE  req' \in [Requests -> AnyRequest]
  BY <1>8, RequestsKeepType
<1>9. CASE GoOnToggle(r)
  <2>1. req' \in [Requests -> AnyRequest]
    BY <1>8, <1>9 DEF GoOnToggle, At, Working
  <2> QED
    BY <1>1, <1>2, <1>9, <2>1 DEF GoOnToggle, reactionVars
<1>10. CASE StoreReaction(r)
  <2>1. req' \in [Requests -> AnyRequest] /\ req[r].key \in Keys
    BY <1>4, <1>8, <1>10 DEF StoreReaction, At, Working
  <2> QED
    BY <1>1, <1>2, <1>10, <2>1 DEF StoreReaction, AddReaction, Meet
<1>11. CASE DropReaction(r)
  <2>1. req' \in [Requests -> AnyRequest] /\ req[r].key \in Keys
    BY <1>4, <1>8, <1>11 DEF DropReaction, At, Working
  <2> QED
    BY <1>1, <1>2, <1>11, <2>1 DEF DropReaction, RemoveReaction, Meet
<1>12. CASE PublishReaction(r)
  <2>1. req' \in [Requests -> AnyRequest] /\ req[r].key \in Keys
    BY <1>4, <1>12, EndTypes DEF PublishReaction, At, Working
  <2> QED
    BY <1>1, <1>2, <1>12, <2>1 DEF PublishReaction
<1>13. CASE NameUnknown(r)
  <2>1. req' \in [Requests -> AnyRequest] /\ req[r].key \in Keys
    BY <1>4, <1>13, EndTypes DEF NameUnknown, Working
  <2> QED
    BY <1>1, <1>2, <1>13, <2>1 DEF NameUnknown
<1> QED
  BY <1>5, <1>6, <1>7, <1>9, <1>10, <1>11, <1>12, <1>13 DEF ReactionStep

\* Members that come and go, requests refused, the clock, deletions and a client's load.
LEMMA OtherTypes ==
    ASSUME TypeOK,
           \/ \E r \in Requests : ChangeMembership(r) \/ Refused(r)
           \/ Tick /\ UNCHANGED reactionVars
           \/ \E m \in Rows : SoftDeleteMessage(m) /\ UNCHANGED reactionVars
           \/ \E m \in Rows : LoadReactions(m)
           \/ UNCHANGED cvars
    PROVE  TypeOK'
<1>1. /\ memberships \in [Spaces -> [Users -> Membership]]
      /\ channels \in Seq(Channel) /\ Len(channels) <= MaxChannels
      /\ asked \in [Spaces -> Lists \cup {<<>>}] /\ disturbed \subseteq Requests
      /\ messages \in [Rows -> Message \cup {Free}] /\ now \in 0..MaxTime
      /\ markedAt \in [Spaces -> [Users -> 0..MaxTime]]
      /\ reactions \subseteq Keys /\ view \subseteq Keys /\ unsaid \subseteq Keys
      /\ mixed \subseteq Keys
      /\ req \in [Requests -> AnyRequest]
  BY DEF TypeOK, ChannelsType, TimelineType, ReactionsType, AnyRequest
<1>2. ASSUME NEW r \in Requests, ChangeMembership(r)
      PROVE  TypeOK'
  <2>1. PICK s \in Spaces, u \in Users :
           \/ memberships' = [memberships EXCEPT ![s][u] = NoMembership]
           \/ memberships' = [memberships EXCEPT ![s][u].role = "member"]
           \/ \E ro \in {"member", "admin"} :
                 memberships' = [memberships EXCEPT ![s][u].role = ro]
    BY <1>2 DEF ChangeMembership
  <2>2. memberships[s][u] \in Membership
    BY <1>1
  <2>3. PICK x \in Membership : memberships' = [memberships EXCEPT ![s][u] = x]
    <3>1. CASE memberships' = [memberships EXCEPT ![s][u] = NoMembership]
      <4>1. NoMembership \in Membership
        BY TimelineAssumption DEF NoMembership, Membership, Roles
      <4> QED
        BY <3>1, <4>1
    <3>2. CASE \E ro \in {"member", "admin"} :
                  memberships' = [memberships EXCEPT ![s][u].role = ro]
      <4>1. \A ro \in {"member", "admin"} : [memberships[s][u] EXCEPT !.role = ro] \in Membership
        BY <2>2 DEF Membership, Roles
      <4> QED
        BY <3>2, <4>1
    <3> QED
      BY <2>1, <3>1, <3>2
  <2>4. memberships' \in [Spaces -> [Users -> Membership]]
    BY <1>1, <2>3
  <2>5. req' \in [Requests -> AnyRequest]
    BY <1>2, EndTypes DEF ChangeMembership
  <2> QED
    BY <1>1, <1>2, <2>4, <2>5, TypeParts
    DEF ChangeMembership, channelVars, timelineVars, reactionVars
<1>3. ASSUME NEW r \in Requests, Refused(r)
      PROVE  TypeOK'
  <2>1. req' \in [Requests -> AnyRequest]
    BY <1>3, EndTypes DEF Refused
  <2> QED
    BY <1>1, <1>3, <2>1, TypeParts DEF Refused, channelVars, timelineVars, reactionVars
<1>4. CASE Tick /\ UNCHANGED reactionVars
  <2>1. now' \in 0..MaxTime
    BY <1>1, <1>4, TimelineAssumption DEF Tick
  <2> QED
    BY <1>1, <1>4, <2>1, TypeParts DEF Tick, channelVars, reactionVars
<1>5. ASSUME NEW m \in Rows, SoftDeleteMessage(m), UNCHANGED reactionVars
      PROVE  TypeOK'
  <2>1. messages[m] \in Message
    BY <1>5, VisibleRows DEF SoftDeleteMessage, GetMessageByID
  <2>2. [messages[m] EXCEPT !.state = "deleted"] \in Message
    BY <2>1 DEF Message
  <2>3. messages' \in [Rows -> Message \cup {Free}]
    BY <1>1, <1>5, <2>2 DEF SoftDeleteMessage
  <2> QED
    BY <1>1, <1>5, <2>3, TypeParts DEF SoftDeleteMessage, channelVars, reactionVars
<1>6. ASSUME NEW m \in Rows, LoadReactions(m)
      PROVE  TypeOK'
  <2>1. view' \subseteq Keys /\ unsaid' \subseteq Keys /\ mixed' \subseteq Keys
    BY <1>1, <1>6 DEF LoadReactions, ReactionsTo, GetMessageReactions
  <2> QED
    BY <1>1, <1>6, <2>1, TypeParts DEF LoadReactions, channelVars, timelineVars
<1>7. CASE UNCHANGED cvars
  BY <1>1, <1>7, TypeParts DEF cvars, channelVars, timelineVars, reactionVars
<1> QED
  BY <1>2, <1>3, <1>4, <1>5, <1>6, <1>7

LEMMA NextTypes ==
    ASSUME TypeOK, CommitInv, [Next]_cvars
    PROVE  TypeOK'
  BY ChannelTypes, TimelineTypes, ReactionTypes, OtherTypes DEF Next
--------------------------------------------------------------------------------
(* Who moves: a step changes one request, to a phase of its module or to its end. *)

ChannelPhases == {"insert", "update", "close", "whose", "move"}
TimelinePhases == {"send", "commit", "page", "end", "mark"}
Moves(r, phases) ==
    /\ req'[r].pc \in phases \cup {"done"}
    /\ \A q \in Requests \ {r} : req'[q] = req[q]

LEMMA StartMoves ==
    ASSUME TypeOK, NEW r \in Requests, NEW x, Start(r, x)
    PROVE  req'[r] = x /\ \A q \in Requests \ {r} : req'[q] = req[q]
  BY Fields DEF Start

LEMMA EndMoves ==
    ASSUME TypeOK, NEW r \in Requests, End(r)
    PROVE  req'[r] = Done /\ Moves(r, {})
  BY Fields DEF End, Moves, Done

LEMMA GotoMoves ==
    ASSUME TypeOK, NEW r \in Requests, NEW p, Goto(r, p)
    PROVE  /\ req'[r] = [req[r] EXCEPT !.pc = p]
           /\ \A q \in Requests \ {r} : req'[q] = req[q]
  BY Fields DEF Goto

LEMMA RecordGoes ==
    ASSUME TypeOK, NEW r \in Requests, req[r].pc \in Working \cup {"whose", "move"},
           NEW p, Goto(r, p)
    PROVE  /\ req'[r].pc = p
           /\ req[r].pc \in Working =>
                 /\ req'[r].key = req[r].key /\ req'[r].toggle = req[r].toggle
                 /\ req'[r].has = req[r].has
           /\ req[r].pc \in {"whose", "move"} =>
                 /\ req'[r].space = req[r].space /\ req'[r].list = req[r].list
                 /\ req'[r].i = req[r].i
<1>1. req'[r] = [req[r] EXCEPT !.pc = p]
  BY GotoMoves
<1>2. req[r].pc \in Working => req[r] \in ReactionRequest
  BY Fields
<1>3. req[r].pc \in {"whose", "move"} => req[r] \in Reorders
  BY Fields
<1>4. CASE req[r].pc \in Working
  BY <1>1, <1>2, <1>4 DEF ReactionRequest, Working
<1>5. CASE req[r].pc \in {"whose", "move"}
  BY <1>1, <1>3, <1>5 DEF Reorders, Working
<1> QED
  BY <1>4, <1>5

LEMMA ChannelMoves ==
    ASSUME TypeOK, NEW r \in Requests, ChannelStep(r)
    PROVE  Moves(r, ChannelPhases) /\ UNCHANGED memberships
<1>1. CASE CreateChannel(r) \/ UpdateChannel(r) \/ DeleteChannel(r) \/ ReorderChannels(r)
  <2>1. PICK x : Start(r, x) /\ x.pc \in ChannelPhases
    <3>1. CASE CreateChannel(r)
      <4>1. PICK s \in Spaces, k \in Kinds : Start(r, [pc |-> "insert", space |-> s, type |-> k])
        BY <3>1 DEF CreateChannel, BeginCreate
      <4> QED
        BY <4>1 DEF ChannelPhases
    <3>2. CASE UpdateChannel(r)
      <4>1. PICK c, k : Start(r, [pc |-> "update", channel |-> c, type |-> k])
        BY <3>2 DEF UpdateChannel, BeginUpdate
      <4> QED
        BY <4>1 DEF ChannelPhases
    <3>3. CASE DeleteChannel(r)
      <4>1. PICK c : Start(r, [pc |-> "close", channel |-> c])
        BY <3>3 DEF DeleteChannel, BeginDelete
      <4> QED
        BY <4>1 DEF ChannelPhases
    <3>4. CASE ReorderChannels(r)
      <4>1. PICK s, list : Start(r, [pc |-> "whose", space |-> s, list |-> list, i |-> 1])
        BY <3>4 DEF ReorderChannels, BeginReorder
      <4> QED
        BY <4>1 DEF ChannelPhases
    <3> QED
      BY <1>1, <3>1, <3>2, <3>3, <3>4
  <2>2. UNCHANGED memberships
    BY <1>1 DEF CreateChannel, UpdateChannel, DeleteChannel, ReorderChannels, BeginCreate,
                BeginUpdate, BeginDelete, BeginReorder
  <2> QED
    BY <2>1, <2>2, StartMoves DEF Moves
<1>2. CASE InsertChannel(r) \/ StoreChannel(r) \/ CloseChannel(r)
  BY <1>2, EndMoves DEF InsertChannel, StoreChannel, CloseChannel, Moves
<1>3. CASE CheckListed(r)
  BY <1>3, GotoMoves, RecordGoes DEF CheckListed, Moves, ChannelPhases, At
<1>4. CASE MoveListed(r)
  <2>1. CASE req[r].i < Len(req[r].list)
    <3>1. req' = [req EXCEPT ![r].pc = "whose", ![r].i = req[r].i + 1]
      BY <1>4, <2>1 DEF MoveListed
    <3>2. req[r] \in Reorders
      BY <1>4, Fields DEF MoveListed, At
    <3>3. req'[r].pc = "whose" /\ \A q \in Requests \ {r} : req'[q] = req[q]
      BY <3>1, <3>2, Fields DEF Reorders
    <3> QED
      BY <1>4, <3>3 DEF MoveListed, Moves, ChannelPhases
  <2>2. CASE ~(req[r].i < Len(req[r].list))
    BY <1>4, <2>2, EndMoves DEF MoveListed, Moves
  <2> QED
    BY <2>1, <2>2
<1> QED
  BY <1>1, <1>2, <1>3, <1>4 DEF ChannelStep

LEMMA FetchGoesOn ==
    ASSUME TypeOK, NEW r \in Requests, FetchPage(r)
    PROVE  /\ req'[r].pc \in {"page", "end"}
           /\ \A q \in Requests \ {r} : req'[q] = req[q]
<1> DEFINE rows == FirstOf(Following(req[r]), req[r].limit + 1)
<1>1. req[r] \in Pages
  BY PageFacts
<1>2. PICK got :
         \/ \E cur : req' = [req EXCEPT ![r] = [req[r] EXCEPT !.got = got, !.cursor = cur]]
         \/ req' = [req EXCEPT ![r] = [req[r] EXCEPT !.got = got, !.pc = "end"]]
  <2> HIDE DEF rows
  <2>1. PICK page :
           \/ req' = [req EXCEPT ![r] = [req[r] EXCEPT !.got = req[r].got \o page,
                                         !.cursor = EncodeCursor(rows[req[r].limit])]]
           \/ req' = [req EXCEPT ![r] = [req[r] EXCEPT !.got = req[r].got \o page,
                                         !.pc = "end"]]
    BY PageFacts DEF rows
  <2> DEFINE got == req[r].got \o page
             cur == EncodeCursor(rows[req[r].limit])
  <2>2. \/ req' = [req EXCEPT ![r] = [req[r] EXCEPT !.got = got, !.cursor = cur]]
        \/ req' = [req EXCEPT ![r] = [req[r] EXCEPT !.got = got, !.pc = "end"]]
    BY <2>1
  <2> HIDE DEF got, cur
  <2> QED
    BY <2>2
<1>3. req[r].pc = "page"
  BY DEF FetchPage, At
<1>4. req \in [Requests -> AnyRequest]
  BY Fields
<1>5. CASE \E cur : req' = [req EXCEPT ![r] = [req[r] EXCEPT !.got = got, !.cursor = cur]]
  <2>1. PICK cur : req' = [req EXCEPT ![r] = [req[r] EXCEPT !.got = got, !.cursor = cur]]
    BY <1>5
  <2>2. [req[r] EXCEPT !.got = got, !.cursor = cur].pc = "page"
    BY <1>1, <1>3 DEF Pages
  <2> DEFINE next == [req[r] EXCEPT !.got = got, !.cursor = cur]
  <2>3. req' = [req EXCEPT ![r] = next] /\ next.pc = "page"
    BY <2>1, <2>2
  <2> HIDE DEF next
  <2> QED
    BY <1>4, <2>3
<1>6. CASE req' = [req EXCEPT ![r] = [req[r] EXCEPT !.got = got, !.pc = "end"]]
  <2>1. [req[r] EXCEPT !.got = got, !.pc = "end"].pc = "end"
    BY <1>1 DEF Pages
  <2> DEFINE next == [req[r] EXCEPT !.got = got, !.pc = "end"]
  <2>2. req' = [req EXCEPT ![r] = next] /\ next.pc = "end"
    BY <1>6, <2>1
  <2> HIDE DEF next
  <2> QED
    BY <1>4, <2>2
<1> QED
  BY <1>2, <1>5, <1>6

LEMMA TimelineMoves ==
    ASSUME TypeOK, NEW r \in Requests, TimelineStep(r)
    PROVE  Moves(r, TimelinePhases) /\ UNCHANGED channelVars
<1>1. CASE SendMessage(r) \/ InsertMessage(r) \/ ListMessages(r) \/ MarkChannelAsRead(r)
  <2>1. PICK x : Start(r, x) /\ x.pc \in TimelinePhases
    <3>1. CASE SendMessage(r)
      <4>1. PICK c, reply : Start(r, [pc |-> "send", channel |-> c, reply |-> reply])
        BY <3>1 DEF SendMessage
      <4> QED
        BY <4>1 DEF TimelinePhases
    <3>2. CASE InsertMessage(r)
      <4>1. PICK m : Start(r, [pc |-> "commit", message |-> m])
        BY <3>2 DEF InsertMessage
      <4> QED
        BY <4>1 DEF TimelinePhases
    <3>3. CASE ListMessages(r)
      <4>1. PICK c, u, n, present :
               Start(r, [pc |-> "page", channel |-> c, user |-> u, limit |-> n,
                         cursor |-> NoCursor, got |-> <<>>, present |-> present])
        BY <3>3 DEF ListMessages
      <4> QED
        BY <4>1 DEF TimelinePhases
    <3>4. CASE MarkChannelAsRead(r)
      <4>1. PICK s, u, began, at :
               Start(r, [pc |-> "mark", space |-> s, user |-> u, began |-> began, at |-> at])
        BY <3>4 DEF MarkChannelAsRead, BeginMark
      <4> QED
        BY <4>1 DEF TimelinePhases
    <3> QED
      BY <1>1, <3>1, <3>2, <3>3, <3>4
  <2>2. UNCHANGED channelVars
    BY <1>1 DEF SendMessage, InsertMessage, ListMessages, MarkChannelAsRead, BeginMark
  <2> QED
    BY <2>1, <2>2, StartMoves DEF Moves
<1>2. CASE CommitMessage(r) \/ StoreReadState(r)
  BY <1>2, EndMoves DEF CommitMessage, StoreReadState, Moves
<1>3. CASE FetchPage(r)
  BY <1>3, FetchGoesOn DEF FetchPage, Moves, TimelinePhases
<1> QED
  BY <1>1, <1>2, <1>3 DEF TimelineStep

LEMMA ReactionMoves ==
    ASSUME TypeOK, NEW r \in Requests, ReactionStep(r)
    PROVE  Moves(r, Working) /\ UNCHANGED <<memberships, channelVars, timelineVars>>
<1>1. CASE StartAdd(r) \/ StartRemove(r) \/ ToggleReaction(r)
  <2>1. PICK x : Start(r, x) /\ x.pc \in Working
    <3>1. PICK p \in Working : \E k, toggle, has :
             Start(r, [pc |-> p, key |-> k, toggle |-> toggle, has |-> has])
      BY <1>1 DEF StartAdd, StartRemove, ToggleReaction, BeginToggle, Working
    <3> QED
      BY <3>1
  <2>2. UNCHANGED <<memberships, channelVars, timelineVars>>
    BY <1>1 DEF StartAdd, StartRemove, ToggleReaction, BeginToggle
  <2> QED
    BY <2>1, <2>2, StartMoves DEF Moves
<1>2. CASE GoOnToggle(r) \/ StoreReaction(r) \/ DropReaction(r)
  <2>1. PICK p \in Working : Goto(r, p)
    BY <1>2 DEF GoOnToggle, StoreReaction, DropReaction, Working
  <2>2. req[r].pc \in Working
    BY <1>2 DEF GoOnToggle, StoreReaction, DropReaction, Working, At
  <2>3. Moves(r, Working)
    BY <2>1, <2>2, GotoMoves, RecordGoes DEF Moves
  <2> QED
    BY <1>2, <2>3 DEF GoOnToggle, StoreReaction, DropReaction
<1>3. CASE PublishReaction(r) \/ NameUnknown(r)
  BY <1>3, EndMoves DEF PublishReaction, NameUnknown, Moves
<1> QED
  BY <1>1, <1>2, <1>3 DEF ReactionStep

\* Every step, with what it leaves alone.
LEMMA Steps ==
    ASSUME TypeOK, [Next]_cvars
    PROVE  \/ \E r \in Requests :
                \/ /\ ChannelStep(r) /\ Moves(r, ChannelPhases)
                   /\ UNCHANGED <<memberships, timelineVars, reactionVars>>
                \/ /\ TimelineStep(r) /\ Moves(r, TimelinePhases)
                   /\ UNCHANGED <<channelVars, reactionVars>>
                \/ /\ ReactionStep(r) /\ Moves(r, Working)
                   /\ UNCHANGED <<memberships, channelVars, timelineVars>>
                \/ /\ ChangeMembership(r) /\ Moves(r, {})
                   /\ UNCHANGED <<channelVars, timelineVars, reactionVars>>
                \/ /\ Refused(r) /\ Moves(r, {})
                   /\ UNCHANGED <<memberships, channelVars, timelineVars, reactionVars>>
           \/ Tick /\ UNCHANGED <<memberships, channelVars, reactionVars, req>>
           \/ \E m \in Rows : /\ SoftDeleteMessage(m)
                              /\ UNCHANGED <<memberships, channelVars, reactionVars, req>>
           \/ \E m \in Rows : /\ LoadReactions(m)
                              /\ UNCHANGED <<memberships, channelVars, timelineVars, req>>
           \/ UNCHANGED cvars
<1>1. \A r \in Requests : ChangeMembership(r) \/ Refused(r) => Moves(r, {})
  BY EndMoves DEF ChangeMembership, Refused
<1>2. \A r \in Requests : Refused(r) => UNCHANGED memberships
  BY DEF Refused
<1> QED
  BY <1>1, <1>2, ChannelMoves, TimelineMoves, ReactionMoves
  DEF Next, ChangeMembership, Refused, Tick, SoftDeleteMessage, LoadReactions
--------------------------------------------------------------------------------
(* The order of channels. *)

\* The channel of the i-th place is not named again up to the n-th.
LastNamed(list, n, i) == \A j \in 1..n : list[j] = list[i] => j <= i

\* The first n channels of a list have got their positions, and have kept them.
InOrder(rows, list, n, s) ==
    \A i \in 1..n : LastNamed(list, n, i) =>
        /\ rows[list[i]].space = s
        /\ rows[list[i]].live => rows[list[i]].position = i - 1

Names(rows, list) == \A i \in 1..Len(list) : list[i] \in 1..Len(rows)

\* A reordering under way: what it has moved is in order, unless it was disturbed.
Halfway(rows, hit, r, q) ==
    /\ q.i \in 1..Len(q.list) /\ Names(rows, q.list)
    /\ r \notin hit => InOrder(rows, q.list, q.i - 1, q.space)
    /\ q.pc = "move" => rows[q.list[q.i]].space = q.space

OrderInv ==
    /\ \A s \in Spaces : /\ Names(channels, asked[s])
                         /\ InOrder(channels, asked[s], Len(asked[s]), s)
    /\ \A r \in Requests :
        req[r].pc \in {"whose", "move"} => Halfway(channels, disturbed, r, req[r])

\* A channel stays where it is and is not undeleted; it moves only by MoveListed.
LEMMA ChannelRows ==
    ASSUME TypeOK, NEW r \in Requests, ChannelStep(r)
    PROVE  /\ Len(channels) <= Len(channels')
           /\ \A d \in Ids :
                /\ channels'[d].space = channels[d].space
                /\ channels'[d].live => channels[d].live
                /\ \/ channels'[d].position = channels[d].position
                   \/ MoveListed(r) /\ d = req[r].list[req[r].i]
<1>1. channels \in Seq(Channel) /\ Len(channels) \in Nat /\ \A d \in Ids : channels[d] \in Channel
  BY DEF TypeOK, ChannelsType, Ids
<1>2. ASSUME channels' = channels
      PROVE  /\ Len(channels) <= Len(channels')
             /\ \A d \in Ids : channels'[d] = channels[d]
  BY <1>1, <1>2
<1>3. ASSUME NEW c, NEW x, channels' = [channels EXCEPT ![c] = x], c \in Ids => x \in Channel
      PROVE  /\ Len(channels) <= Len(channels')
             /\ \A d \in Ids : channels'[d] = IF d = c THEN x ELSE channels[d]
  <2>1. Len(channels') = Len(channels)
    BY <1>1, <1>3, RowChange
  <2>2. DOMAIN channels = Ids
    BY <1>1 DEF Ids
  <2> QED
    BY <1>1, <1>3, <2>1, <2>2
<1>4. CASE CreateChannel(r) \/ UpdateChannel(r) \/ DeleteChannel(r) \/ ReorderChannels(r)
           \/ CheckListed(r)
  <2>1. channels' = channels
    BY <1>4 DEF CreateChannel, UpdateChannel, DeleteChannel, ReorderChannels, CheckListed,
                BeginCreate, BeginUpdate, BeginDelete, BeginReorder, channelVars
  <2> QED
    BY <1>2, <2>1
<1>5. CASE InsertChannel(r)
  <2>1. PICK x : channels' = Append(channels, x)
    BY <1>5 DEF InsertChannel, InsertRow
  <2>2. Len(channels') = Len(channels) + 1 /\ \A d \in Ids : channels'[d] = channels[d]
    BY <1>1, <2>1 DEF Ids
  <2> QED
    BY <1>1, <2>2
<1>6. CASE StoreChannel(r)
  <2> DEFINE c == req[r].channel
             x == [channels[c] EXCEPT !.type = IF req[r].type = "same" THEN @ ELSE req[r].type]
  <2>1. c \in Ids /\ channels[c] \in Channel /\ req[r].type \in Kinds \cup {"same"}
    BY <1>1, <1>6, Fields DEF StoreChannel, GetChannelByID, Updates
  <2>2. /\ x \in Channel /\ x.space = channels[c].space /\ x.live = channels[c].live
        /\ x.position = channels[c].position
    BY <2>1 DEF Channel
  <2>3. channels' = [channels EXCEPT ![c] = x]
    BY <1>6 DEF StoreChannel, UpdateRow
  <2> HIDE DEF c, x
  <2> QED
    BY <1>3, <2>2, <2>3
<1>7. CASE CloseChannel(r)
  <2> DEFINE c == req[r].channel
             x == [channels[c] EXCEPT !.live = FALSE]
  <2>1. c \in Ids =>
           /\ x \in Channel /\ x.space = channels[c].space /\ x.live = FALSE
           /\ x.position = channels[c].position
    <3>1. c \in Ids => channels[c] \in Channel
      BY <1>1
    <3> QED
      BY <3>1 DEF Channel
  <2>2. channels' = [channels EXCEPT ![c] = x]
    BY <1>7 DEF CloseChannel, SoftDeleteChannel
  <2> HIDE DEF c, x
  <2> QED
    BY <1>3, <2>1, <2>2
<1>8. CASE MoveListed(r)
  <2> DEFINE c == req[r].list[req[r].i]
             x == [channels[c] EXCEPT !.position = req[r].i - 1]
  <2>1. req[r].i \in 1..MaxListed
    BY <1>8, Fields DEF MoveListed, At, Reorders
  <2>2. c \in Ids =>
           x \in Channel /\ x.space = channels[c].space /\ x.live = channels[c].live
    <3>1. c \in Ids => channels[c] \in Channel
      BY <1>1
    <3>2. req[r].i - 1 \in Nat
      BY <2>1
    <3> HIDE DEF c
    <3> QED
      BY <3>1, <3>2 DEF Channel
  <2>3. channels' = channels \/ channels' = [channels EXCEPT ![c] = x]
    BY <1>8 DEF MoveListed, UpdateChannelPosition
  <2>4. CASE channels' = channels
    BY <1>2, <2>4
  <2> HIDE DEF c, x
  <2>5. CASE channels' = [channels EXCEPT ![c] = x]
    <3>1. /\ Len(channels) <= Len(channels')
          /\ \A d \in Ids : channels'[d] = IF d = c THEN x ELSE channels[d]
      <4>1. c \in Ids => x \in Channel
        BY <2>2
      <4> QED
        BY <1>3, <2>5, <4>1
    <3> QED
      BY <1>8, <2>2, <3>1 DEF c
  <2> QED
    BY <2>3, <2>4, <2>5
<1> QED
  BY <1>4, <1>5, <1>6, <1>7, <1>8 DEF ChannelStep

LEMMA StaysInOrder ==
    ASSUME NEW rows, NEW rows2, NEW list, NEW n \in Nat, NEW s, InOrder(rows, list, n, s),
           \A i \in 1..n :
              /\ rows2[list[i]].space = rows[list[i]].space
              /\ rows2[list[i]].live => rows[list[i]].live
              /\ rows[list[i]].space = s => rows2[list[i]].position = rows[list[i]].position
    PROVE  InOrder(rows2, list, n, s)
  BY DEF InOrder

\* The place moved is in order, and so are those before it.
LEMMA MovedInOrder ==
    ASSUME NEW rows, NEW rows2, NEW list, NEW n \in Nat \ {0}, NEW s,
           InOrder(rows, list, n - 1, s),
           rows2[list[n]].space = s, rows2[list[n]].live => rows2[list[n]].position = n - 1,
           \A i \in 1..n : list[i] # list[n] =>
              /\ rows2[list[i]].space = rows[list[i]].space
              /\ rows2[list[i]].live => rows[list[i]].live
              /\ rows2[list[i]].position = rows[list[i]].position
    PROVE  InOrder(rows2, list, n, s)
<1> SUFFICES ASSUME NEW i \in 1..n, LastNamed(list, n, i)
             PROVE  /\ rows2[list[i]].space = s
                    /\ rows2[list[i]].live => rows2[list[i]].position = i - 1
  BY DEF InOrder
<1>1. CASE list[i] = list[n]
  <2>1. i = n
    BY <1>1 DEF LastNamed
  <2> QED
    BY <2>1
<1>2. CASE list[i] # list[n]
  <2>1. i \in 1..(n - 1)
    BY <1>2
  <2>2. LastNamed(list, n - 1, i)
    BY DEF LastNamed
  <2>3. rows[list[i]].space = s /\ (rows[list[i]].live => rows[list[i]].position = i - 1)
    BY <2>1, <2>2 DEF InOrder
  <2> QED
    BY <1>2, <2>3
<1> QED
  BY <1>1, <1>2

\* Steps that move no channel.
LEMMA OrderStays ==
    ASSUME TypeOK, OrderInv, channelVars' = channelVars, NEW r \in Requests,
           \A q \in Requests \ {r} : req'[q] = req[q],
           \/ req'[r] = req[r]
           \/ req'[r].pc \notin {"whose", "move"}
           \/ req'[r].pc \in {"whose", "move"} /\ Halfway(channels, disturbed, r, req'[r])
    PROVE  OrderInv'
<1>1. channels' = channels /\ asked' = asked /\ disturbed' = disturbed
  BY DEF channelVars
<1>2. \A q \in Requests : req'[q].pc \in {"whose", "move"} => Halfway(channels, disturbed, q, req'[q])
  BY DEF OrderInv
<1> QED
  BY <1>1, <1>2 DEF OrderInv

LEMMA AskedFacts ==
    ASSUME TypeOK, NEW s \in Spaces
    PROVE  /\ asked[s] = <<>> \/ asked[s] \in Lists
           /\ Len(asked[s]) \in Nat /\ DOMAIN asked[s] = 1..Len(asked[s])
<1>1. asked[s] = <<>> \/ asked[s] \in Lists
  BY DEF TypeOK, ChannelsType
<1>2. CASE asked[s] = <<>>
  BY <1>2
<1>3. CASE asked[s] \in Lists
  BY <1>3, ListFacts
<1> QED
  BY <1>1, <1>2, <1>3

LEMMA RowsAreSeqs ==
    ASSUME TypeOK, TypeOK'
    PROVE  Len(channels) \in Nat /\ Len(channels') \in Nat
<1>1. channels \in Seq(Channel) /\ channels' \in Seq(Channel)
  BY DEF TypeOK, ChannelsType
<1> QED
  BY <1>1

\* A step that changes no position but those a list gives: the others' order remains.
LEMMA OthersStay ==
    ASSUME TypeOK, TypeOK', OrderInv, NEW r \in Requests, ChannelStep(r),
           NEW list, NEW n \in Nat, NEW s, Names(channels, list), n <= Len(list), Len(list) \in Nat,
           MoveListed(r) => req[r].space # s,
           InOrder(channels, list, n, s)
    PROVE  Names(channels', list) /\ InOrder(channels', list, n, s)
<1>1. /\ Len(channels) <= Len(channels')
      /\ \A d \in Ids :
           /\ channels'[d].space = channels[d].space
           /\ channels'[d].live => channels[d].live
           /\ \/ channels'[d].position = channels[d].position
              \/ MoveListed(r) /\ d = req[r].list[req[r].i]
  BY ChannelRows
<1>2. Len(channels) \in Nat /\ Len(channels') \in Nat
  BY RowsAreSeqs
<1>3. MoveListed(r) => channels[req[r].list[req[r].i]].space = req[r].space
  BY DEF OrderInv, Halfway, MoveListed, At
<1>4. \A i \in 1..n : list[i] \in Ids
  BY DEF Names, Ids
<1>5. Names(channels', list)
  BY <1>1, <1>2 DEF Names
<1>6. InOrder(channels', list, n, s)
  BY <1>1, <1>3, <1>4, StaysInOrder
<1> QED
  BY <1>5, <1>6

\* A reordering by another request, half-way.
LEMMA OthersHalfway ==
    ASSUME TypeOK, TypeOK', OrderInv, NEW r \in Requests, ChannelStep(r), NEW q \in Requests \ {r},
           req[q].pc \in {"whose", "move"},
           MoveListed(r) \/ disturbed' = disturbed
    PROVE  Halfway(channels', disturbed', q, req[q])
<1> DEFINE list == req[q].list
           n == req[q].i - 1
           s == req[q].space
<1>1. req[q] \in Reorders /\ Halfway(channels, disturbed, q, req[q])
  BY Fields DEF OrderInv
<1>2. /\ n \in Nat /\ Len(list) \in Nat /\ n <= Len(list) /\ Names(channels, list)
      /\ list[req[q].i] \in Ids
  BY <1>1, ListFacts DEF Halfway, Reorders, Names, Ids
<1>3. Names(channels', list)
  BY <1>2, ChannelRows, RowsAreSeqs DEF Names, Ids
<1>4. ASSUME q \notin disturbed'
      PROVE  InOrder(channels', list, n, s)
  <2>1. q \notin disturbed /\ InOrder(channels, list, n, s)
    <3>1. q \notin disturbed
      BY <1>4 DEF MoveListed
    <3> QED
      BY <1>1, <3>1 DEF Halfway
  <2>2. CASE MoveListed(r) /\ req[r].space = s
    <3>1. ~HasMoved(q)
      BY <1>4, <2>2 DEF MoveListed, Reordering
    <3>2. n = 0
      BY <1>1, <1>2, <3>1 DEF HasMoved, Reorders
    <3> QED
      BY <3>2 DEF InOrder
  <2>3. CASE MoveListed(r) => req[r].space # s
    <3> HIDE DEF list, n, s
    <3> QED
      BY <1>2, <2>1, <2>3, OthersStay
  <2> QED
    BY <2>2, <2>3
<1>5. channels'[list[req[q].i]].space = channels[list[req[q].i]].space
  BY <1>2, ChannelRows
<1> QED
  BY <1>1, <1>3, <1>4, <1>5 DEF Halfway

\* The place a reordering has just given.
LEMMA MoveGivesPlace ==
    ASSUME TypeOK, TypeOK', OrderInv, NEW r \in Requests, MoveListed(r)
    PROVE  LET list == req[r].list
           IN /\ req[r] \in Reorders /\ req[r].i \in 1..Len(list) /\ Names(channels', list)
              /\ \A i \in 1..Len(list) : channels'[list[i]].space = channels[list[i]].space
              /\ r \notin disturbed => InOrder(channels', list, req[r].i, req[r].space)
<1> DEFINE list == req[r].list
           n == req[r].i
           s == req[r].space
           c == list[n]
<1>1. req[r] \in Reorders /\ req[r].pc = "move" /\ Halfway(channels, disturbed, r, req[r])
  BY Fields DEF OrderInv, MoveListed, At
<1>2. /\ n \in Nat \ {0} /\ n \in 1..Len(list) /\ Len(list) \in Nat /\ Names(channels, list)
      /\ c \in Ids /\ channels[c].space = s
  BY <1>1, ListFacts DEF Halfway, Reorders, Names, Ids
<1>3. ChannelStep(r)
  BY DEF ChannelStep
<1>4. /\ Len(channels) <= Len(channels')
      /\ \A d \in Ids :
           /\ channels'[d].space = channels[d].space
           /\ channels'[d].live => channels[d].live
           /\ d # c => channels'[d].position = channels[d].position
  BY <1>3, ChannelRows
<1>5. Names(channels', list)
  BY <1>2, <1>4, RowsAreSeqs DEF Names
<1>6. channels'[c].live => channels'[c].position = n - 1
  <2>1. channels \in Seq(Channel) /\ channels[c] \in Channel
    BY <1>2 DEF TypeOK, ChannelsType, Ids
  <2>2. CASE ~channels[c].live
    BY <1>2, <1>4, <2>2
  <2>3. CASE channels[c].live
    <3>1. channels' = [channels EXCEPT ![c].position = n - 1]
      BY <2>3 DEF MoveListed, UpdateChannelPosition
    <3> HIDE DEF c, n
    <3>2. channels'[c] = [channels[c] EXCEPT !.position = n - 1]
      BY <1>2, <2>1, <3>1 DEF Ids
    <3> QED
      BY <2>1, <3>2 DEF Channel
  <2> QED
    BY <2>2, <2>3
<1>7. \A i \in 1..Len(list) : list[i] \in Ids
  BY <1>2 DEF Names, Ids
<1>8. ASSUME r \notin disturbed
      PROVE  InOrder(channels', list, n, s)
  <2>1. InOrder(channels, list, n - 1, s)
    BY <1>1, <1>8 DEF Halfway
  <2>2. channels'[c].space = s
    BY <1>2, <1>4
  <2>3. \A i \in 1..n : list[i] # c =>
           /\ channels'[list[i]].space = channels[list[i]].space
           /\ channels'[list[i]].live => channels[list[i]].live
           /\ channels'[list[i]].position = channels[list[i]].position
    BY <1>2, <1>4, <1>7
  <2> HIDE DEF list, n, s
  <2> QED
    BY <1>2, <1>6, <2>1, <2>2, <2>3, MovedInOrder
<1> QED
  BY <1>1, <1>2, <1>4, <1>5, <1>7, <1>8

LEMMA OrderStep ==
    ASSUME TypeOK, TypeOK', OrderInv, NEW r \in Requests, ChannelStep(r)
    PROVE  OrderInv'
<1>1. Moves(r, ChannelPhases)
  BY ChannelMoves
<1>2. ASSUME UNCHANGED channelVars,
             \/ req'[r].pc \notin {"whose", "move"}
             \/ Halfway(channels, disturbed, r, req'[r])
      PROVE  OrderInv'
  BY <1>1, <1>2, OrderStays DEF Moves
<1>3. CASE CreateChannel(r)
  <2>1. PICK s, k : Start(r, [pc |-> "insert", space |-> s, type |-> k])
    BY <1>3 DEF CreateChannel, BeginCreate
  <2>2. req'[r].pc \notin {"whose", "move"}
    BY <2>1, StartMoves
  <2> QED
    BY <1>2, <1>3, <2>2 DEF CreateChannel, BeginCreate
<1>4. CASE UpdateChannel(r)
  <2>1. PICK c, k : Start(r, [pc |-> "update", channel |-> c, type |-> k])
    BY <1>4 DEF UpdateChannel, BeginUpdate
  <2>2. req'[r].pc \notin {"whose", "move"}
    BY <2>1, StartMoves
  <2> QED
    BY <1>2, <1>4, <2>2 DEF UpdateChannel, BeginUpdate
<1>5. CASE DeleteChannel(r)
  <2>1. PICK c : Start(r, [pc |-> "close", channel |-> c])
    BY <1>5 DEF DeleteChannel, BeginDelete
  <2>2. req'[r].pc \notin {"whose", "move"}
    BY <2>1, StartMoves
  <2> QED
    BY <1>2, <1>5, <2>2 DEF DeleteChannel, BeginDelete
<1>6. CASE ReorderChannels(r)
  <2>1. PICK s \in Spaces, list \in Lists :
           /\ \A i \in DOMAIN list : list[i] \in Ids
           /\ Start(r, [pc |-> "whose", space |-> s, list |-> list, i |-> 1])
    BY <1>6 DEF ReorderChannels, BeginReorder
  <2> DEFINE q == [pc |-> "whose", space |-> s, list |-> list, i |-> 1]
  <2>2. req'[r] = q
    BY <2>1, StartMoves
  <2>3. 1 \in 1..Len(list) /\ Names(channels, list)
    BY <2>1, ListFacts DEF Names, Ids
  <2>4. InOrder(channels, list, 0, s)
    BY DEF InOrder
  <2>5. Halfway(channels, disturbed, r, q)
    BY <2>3, <2>4 DEF Halfway
  <2> QED
    BY <1>2, <1>6, <2>2, <2>5 DEF ReorderChannels, BeginReorder
<1>7. CASE CheckListed(r)
  <2>1. req[r].pc = "whose" /\ Goto(r, "move")
    BY <1>7 DEF CheckListed, At
  <2>2. /\ req'[r].pc = "move" /\ req'[r].space = req[r].space
        /\ req'[r].list = req[r].list /\ req'[r].i = req[r].i
    BY <2>1, RecordGoes
  <2>3. Halfway(channels, disturbed, r, req[r])
    BY <2>1 DEF OrderInv
  <2>4. channels[req[r].list[req[r].i]].space = req[r].space
    BY <1>7 DEF CheckListed, GetSpaceIDByChannelID
  <2>5. Halfway(channels, disturbed, r, req'[r])
    BY <2>2, <2>3, <2>4 DEF Halfway
  <2> QED
    BY <1>2, <1>7, <2>5 DEF CheckListed
<1>8. CASE InsertChannel(r) \/ StoreChannel(r) \/ CloseChannel(r)
  <2>1. End(r) /\ asked' = asked /\ disturbed' = disturbed
    BY <1>8 DEF InsertChannel, StoreChannel, CloseChannel
  <2>2. ~MoveListed(r)
    BY <1>8 DEF InsertChannel, StoreChannel, CloseChannel, MoveListed, At
  <2>3. \A s \in Spaces : Names(channels', asked[s]) /\ InOrder(channels', asked[s], Len(asked[s]), s)
    BY <2>2, AskedFacts, OthersStay DEF OrderInv
  <2>4. \A q \in Requests \ {r} :
           req[q].pc \in {"whose", "move"} => Halfway(channels', disturbed', q, req[q])
    BY <2>1, OthersHalfway
  <2>5. req'[r].pc = "done"
    BY <2>1, EndMoves DEF Done
  <2> QED
    BY <1>1, <2>1, <2>3, <2>4, <2>5 DEF OrderInv, Moves
<1>9. CASE MoveListed(r)
  <2> DEFINE list == req[r].list
             n == req[r].i
             t == req[r].space
  <2>1. /\ req[r] \in Reorders /\ n \in 1..Len(list) /\ Names(channels', list)
        /\ r \notin disturbed => InOrder(channels', list, n, t)
    BY <1>9, MoveGivesPlace
  <2>2. \A q \in Requests \ {r} :
           req[q].pc \in {"whose", "move"} => Halfway(channels', disturbed', q, req[q])
    BY <1>9, OthersHalfway
  <2>3. \A s \in Spaces \ {t} :
           Names(channels', asked[s]) /\ InOrder(channels', asked[s], Len(asked[s]), s)
    BY AskedFacts, OthersStay DEF OrderInv
  <2>4. asked \in [Spaces -> Lists \cup {<<>>}] /\ t \in Spaces /\ list \in Lists
    BY <2>1 DEF TypeOK, ChannelsType, Reorders
  <2>5. Names(channels', <<>>) /\ InOrder(channels', <<>>, Len(<<>>), t)
    BY DEF Names, InOrder
  <2>6. CASE n < Len(list)
    <3>1. asked' = [asked EXCEPT ![t] = <<>>]
      BY <1>9, <2>6 DEF MoveListed
    <3>2. req' = [req EXCEPT ![r].pc = "whose", ![r].i = n + 1]
      BY <1>9, <2>6 DEF MoveListed
    <3>3. /\ req'[r].pc = "whose" /\ req'[r].space = t /\ req'[r].list = list
          /\ req'[r].i = n + 1
      <4>1. req'[r] = [req[r] EXCEPT !.pc = "whose", !.i = n + 1]
        BY <2>1, <3>2, Fields
      <4> QED
        BY <2>1, <4>1 DEF Reorders
    <3>4. disturbed \subseteq disturbed'
      BY <1>9 DEF MoveListed
    <3>5. Halfway(channels', disturbed', r, req'[r])
      <4>1. n + 1 \in 1..Len(list) /\ n + 1 - 1 = n
        BY <2>1, <2>4, <2>6, ListFacts
      <4>2. r \notin disturbed' => InOrder(channels', list, n + 1 - 1, t)
        BY <2>1, <3>4, <4>1
      <4> QED
        BY <2>1, <3>3, <4>1, <4>2 DEF Halfway
    <3>6. \A s \in Spaces : Names(channels', asked'[s])
                            /\ InOrder(channels', asked'[s], Len(asked'[s]), s)
      BY <2>3, <2>4, <2>5, <3>1
    <3> QED
      BY <1>1, <2>2, <3>5, <3>6 DEF OrderInv, Moves
  <2>7. CASE ~(n < Len(list))
    <3>1. asked' = [asked EXCEPT ![t] = IF r \in disturbed THEN <<>> ELSE list] /\ End(r)
      BY <1>9, <2>7 DEF MoveListed
    <3>2. n = Len(list)
      BY <2>1, <2>4, <2>7, ListFacts
    <3>3. req'[r].pc = "done"
      BY <3>1, EndMoves DEF Done
    <3>4. \A s \in Spaces : Names(channels', asked'[s])
                            /\ InOrder(channels', asked'[s], Len(asked'[s]), s)
      BY <2>1, <2>3, <2>4, <2>5, <3>1, <3>2
    <3> QED
      BY <1>1, <2>2, <3>3, <3>4 DEF OrderInv, Moves
  <2> QED
    BY <2>6, <2>7
<1> QED
  BY <1>3, <1>4, <1>5, <1>6, <1>7, <1>8, <1>9 DEF ChannelStep

LEMMA OrderInit ==
    ASSUME Init
    PROVE  OrderInv
  BY DEF Init, OrderInv, Names, InOrder, Idle

LEMMA OrderNext ==
    ASSUME TypeOK, TypeOK', OrderInv, [Next]_cvars
    PROVE  OrderInv'
<1>1. ASSUME UNCHANGED <<channelVars, req>>
      PROVE  OrderInv'
  BY <1>1 DEF OrderInv, channelVars
<1>2. ASSUME NEW r \in Requests, Moves(r, TimelinePhases \cup Working), UNCHANGED channelVars
      PROVE  OrderInv'
  <2>1. req'[r].pc \notin {"whose", "move"}
    BY <1>2 DEF Moves, TimelinePhases, Working
  <2> QED
    BY <1>2, <2>1, OrderStays DEF Moves
<1>3. \A r \in Requests :
         Moves(r, TimelinePhases) \/ Moves(r, Working) \/ Moves(r, {}) =>
            Moves(r, TimelinePhases \cup Working)
  BY DEF Moves
<1> QED
  BY <1>1, <1>2, <1>3, Steps, OrderStep DEF cvars

LEMMA OrderApplied ==
    ASSUME TypeOK, OrderInv
    PROVE  ReorderApplied
<1> SUFFICES ASSUME NEW s \in Spaces, NEW i \in DOMAIN asked[s], NEW j \in DOMAIN asked[s], i < j,
                    \A n \in DOMAIN asked[s] : asked[s][n] = asked[s][i] => n <= i,
                    \A n \in DOMAIN asked[s] : asked[s][n] = asked[s][j] => n <= j,
                    GetChannelByID(asked[s][i]), GetChannelByID(asked[s][j])
             PROVE  <<asked[s][i], asked[s][j]>> \in ListSpaceChannels(s)
  BY DEF ReorderApplied
<1> DEFINE list == asked[s]
           c == list[i]
           d == list[j]
<1>1. InOrder(channels, list, Len(list), s) /\ DOMAIN list = 1..Len(list) /\ Len(list) \in Nat
  BY AskedFacts DEF OrderInv
<1>2. LastNamed(list, Len(list), i) /\ LastNamed(list, Len(list), j)
  BY <1>1 DEF LastNamed
<1>3. /\ c \in Ids /\ channels[c].live /\ channels[c].space = s /\ channels[c].position = i - 1
      /\ d \in Ids /\ channels[d].live /\ channels[d].space = s /\ channels[d].position = j - 1
  BY <1>1, <1>2 DEF InOrder, GetChannelByID
<1>4. channels[c].position < channels[d].position
  BY <1>1, <1>3
<1> HIDE DEF c, d
<1> DEFINE p == <<c, d>>
<1>5. p \in Ids \X Ids /\ p[1] = c /\ p[2] = d
  BY <1>3
<1>6. \A k \in {1, 2} : channels[p[k]].live /\ channels[p[k]].space = s
  BY <1>3, <1>5
<1>7. p \in ListSpaceChannels(s)
  <2> HIDE DEF p
  <2> QED
    BY <1>4, <1>5, <1>6 DEF ListSpaceChannels
<1> QED
  BY <1>7 DEF c, d

LEMMA OnlyItsSpaceMoves ==
    ASSUME TypeOK, OrderInv, [Next]_cvars
    PROVE  \A c \in Ids :
              channels'[c].position # channels[c].position =>
                 \E r \in Requests : At(r, "move") /\ req[r].space = channels[c].space
<1> SUFFICES ASSUME NEW c \in Ids, channels'[c].position # channels[c].position
             PROVE  \E r \in Requests : At(r, "move") /\ req[r].space = channels[c].space
  OBVIOUS
<1>1. channels' # channels
  OBVIOUS
<1>2. PICK r \in Requests : ChannelStep(r)
  BY <1>1, Steps DEF channelVars, cvars
<1>3. MoveListed(r) /\ c = req[r].list[req[r].i]
  BY <1>2, ChannelRows
<1> QED
  BY <1>3 DEF MoveListed, OrderInv, Halfway, At
--------------------------------------------------------------------------------
(* Messages, and who commits them. *)

LEMMA CommitInit ==
    ASSUME Init
    PROVE  CommitInv
  BY DEF Init, CommitInv, At, Idle

\* What becomes of a row.
LEMMA MessagesStay ==
    ASSUME TypeOK, CommitInv, [Next]_cvars
    PROVE  \A m \in Rows :
        /\ messages[m].state # "free" =>
              /\ messages'[m].state # "free" /\ messages'[m].channel = messages[m].channel
              /\ messages'[m].at = messages[m].at /\ messages'[m].reply = messages[m].reply
        /\ messages[m].state = "free" =>
              \/ messages'[m].state = "free"
              \/ messages'[m].state = "inserted" /\ messages'[m].at = now
        /\ messages[m].state = "inserted" =>
              \/ messages'[m].state = "inserted"
              \/ \E r \in Requests : CommitMessage(r) /\ req[r].message = m
        /\ messages[m].state \in {"visible", "deleted"} =>
              messages'[m].state \in {messages[m].state, "deleted"}
<1> DEFINE Stays(m) ==
        /\ messages[m].state # "free" =>
              /\ messages'[m].state # "free" /\ messages'[m].channel = messages[m].channel
              /\ messages'[m].at = messages[m].at /\ messages'[m].reply = messages[m].reply
        /\ messages[m].state = "free" =>
              \/ messages'[m].state = "free"
              \/ messages'[m].state = "inserted" /\ messages'[m].at = now
        /\ messages[m].state = "inserted" =>
              \/ messages'[m].state = "inserted"
              \/ \E r \in Requests : CommitMessage(r) /\ req[r].message = m
        /\ messages[m].state \in {"visible", "deleted"} =>
              messages'[m].state \in {messages[m].state, "deleted"}
<1> SUFFICES ASSUME NEW m \in Rows PROVE Stays(m)
  OBVIOUS
<1>1. messages \in [Rows -> Message \cup {Free}]
      /\ messages[m].state \in {"free", "inserted", "visible", "deleted"}
  BY DEF TypeOK, TimelineType, Message, Free
<1>2. ASSUME messages'[m] = messages[m]
      PROVE  Stays(m)
  BY <1>1, <1>2
<1>3. ASSUME NEW r \in Requests, InsertMessage(r)
      PROVE  Stays(m)
  <2>1. PICK x \in Rows : messages[x] = Free /\ CreateMessage(x, req[r].channel, req[r].reply)
    BY <1>3 DEF InsertMessage
  <2>2. CASE x # m
    BY <1>1, <1>2, <2>1, <2>2 DEF CreateMessage
  <2>3. CASE x = m
    <3>1. messages[m].state = "free" /\ messages'[m].state = "inserted" /\ messages'[m].at = now
      BY <1>1, <2>1, <2>3 DEF CreateMessage, Free
    <3> QED
      BY <3>1
  <2> QED
    BY <2>2, <2>3
<1>4. ASSUME NEW r \in Requests, CommitMessage(r)
      PROVE  Stays(m)
  <2>1. req[r].message \in Rows /\ messages[req[r].message].state = "inserted"
    BY <1>4, Fields DEF CommitMessage, CommitInv, Commits, At
  <2>2. messages' = [messages EXCEPT ![req[r].message].state = "visible"]
    BY <1>4 DEF CommitMessage
  <2>3. CASE req[r].message # m
    BY <1>1, <1>2, <2>2, <2>3
  <2>4. CASE req[r].message = m
    <3>1. messages[m] \in Message
      BY <2>1, <2>4, RowIsMessage
    <3>2. messages'[m] = [messages[m] EXCEPT !.state = "visible"]
      BY <1>1, <2>2, <2>4
    <3> QED
      BY <1>4, <2>1, <2>4, <3>1, <3>2 DEF Message
  <2> QED
    BY <2>3, <2>4
<1>5. ASSUME NEW x \in Rows, SoftDeleteMessage(x)
      PROVE  Stays(m)
  <2>1. messages[x].state = "visible" /\ messages' = [messages EXCEPT ![x].state = "deleted"]
    BY <1>5 DEF SoftDeleteMessage, GetMessageByID, Visible
  <2>2. CASE x # m
    BY <1>1, <1>2, <2>1, <2>2
  <2>3. CASE x = m
    <3>1. messages[m] \in Message
      BY <2>1, <2>3, RowIsMessage
    <3>2. messages'[m] = [messages[m] EXCEPT !.state = "deleted"]
      BY <1>1, <2>1, <2>3
    <3> QED
      BY <2>1, <2>3, <3>1, <3>2 DEF Message
  <2> QED
    BY <2>2, <2>3
<1>6. ASSUME NEW r \in Requests, TimelineStep(r)
      PROVE  Stays(m)
  <2>1. InsertMessage(r) \/ CommitMessage(r) \/ messages' = messages
    BY <1>6 DEF TimelineStep, SendMessage, ListMessages, FetchPage, MarkChannelAsRead,
                BeginMark, StoreReadState, timelineVars
  <2> QED
    BY <1>2, <1>3, <1>4, <2>1
<1>7. ASSUME UNCHANGED timelineVars
      PROVE  Stays(m)
  BY <1>2, <1>7 DEF timelineVars
<1>8. ASSUME Tick
      PROVE  Stays(m)
  BY <1>2, <1>8 DEF Tick
<1> HIDE DEF Stays
<1> QED
  BY <1>5, <1>6, <1>7, <1>8, Steps DEF cvars

LEMMA CommitNext ==
    ASSUME TypeOK, CommitInv, [Next]_cvars
    PROVE  CommitInv'
<1>1. \A r \in Requests : At(r, "commit") =>
         req[r].message \in Rows /\ messages[req[r].message].state = "inserted"
  BY Fields DEF CommitInv, Commits
\* No other request ends with the message, and none starts with it.
<1>2. ASSUME NEW r \in Requests, Moves(r, TimelinePhases \cup ChannelPhases \cup Working),
             req'[r].pc = "commit" =>
                \A q \in Requests \ {r} : At(q, "commit") => req[q].message # req'[r].message,
             req'[r].pc = "commit" => messages'[req'[r].message].state = "inserted",
             \A q \in Requests \ {r} : At(q, "commit") =>
                messages'[req[q].message].state = "inserted"
      PROVE  CommitInv'
  <2>1. \A q \in Requests : At(q, "commit")' =>
           /\ messages'[req'[q].message].state = "inserted"
           /\ q # r => req'[q] = req[q] /\ At(q, "commit")
    BY <1>2 DEF Moves, At
  <2>2. \A p, q \in Requests : At(p, "commit")' /\ At(q, "commit")'
                               /\ req'[p].message = req'[q].message => p = q
    BY <1>2, <2>1 DEF CommitInv, At
  <2> QED
    BY <2>1, <2>2 DEF CommitInv
<1>3. ASSUME UNCHANGED <<messages, req>>
      PROVE  CommitInv'
  BY <1>3 DEF CommitInv, At
<1>4. ASSUME NEW r \in Requests, Moves(r, TimelinePhases \cup ChannelPhases \cup Working),
             req'[r].pc # "commit", messages' = messages
      PROVE  CommitInv'
  BY <1>1, <1>2, <1>4
<1>5. ASSUME NEW r \in Requests, Moves(r, TimelinePhases), InsertMessage(r)
      PROVE  CommitInv'
  <2>1. PICK m \in Rows : /\ messages[m] = Free
                          /\ CreateMessage(m, req[r].channel, req[r].reply)
                          /\ Start(r, [pc |-> "commit", message |-> m])
    BY <1>5 DEF InsertMessage
  <2>2. messages[m].state = "free" /\ messages \in [Rows -> Message \cup {Free}]
    BY <2>1 DEF Free, TypeOK, TimelineType
  <2>3. messages'[m].state = "inserted" /\ \A x \in Rows \ {m} : messages'[x] = messages[x]
    BY <2>1, <2>2 DEF CreateMessage
  <2>4. req'[r].message = m
    BY <2>1, StartMoves
  <2>5. \A q \in Requests : At(q, "commit") => req[q].message # m
    BY <1>1, <2>2
  <2>6. Moves(r, TimelinePhases \cup ChannelPhases \cup Working)
    BY <1>5 DEF Moves
  <2> QED
    BY <1>1, <1>2, <2>3, <2>4, <2>5, <2>6
<1>6. ASSUME NEW r \in Requests, Moves(r, TimelinePhases), CommitMessage(r)
      PROVE  CommitInv'
  <2>1. req'[r].pc # "commit"
    BY <1>6, EndMoves DEF CommitMessage, Done
  <2>2. \A q \in Requests \ {r} : At(q, "commit") => req[q].message # req[r].message
    BY <1>6 DEF CommitMessage, CommitInv
  <2>3. messages' = [messages EXCEPT ![req[r].message].state = "visible"]
    BY <1>6 DEF CommitMessage
  <2>4. \A q \in Requests \ {r} : At(q, "commit") => messages'[req[q].message].state = "inserted"
    BY <1>1, <2>2, <2>3 DEF TypeOK, TimelineType
  <2>5. Moves(r, TimelinePhases \cup ChannelPhases \cup Working)
    BY <1>6 DEF Moves
  <2> QED
    BY <1>2, <2>1, <2>4, <2>5
<1>7. ASSUME NEW r \in Requests, Moves(r, TimelinePhases), TimelineStep(r)
      PROVE  CommitInv'
  <2>1. CASE InsertMessage(r) \/ CommitMessage(r)
    BY <1>5, <1>6, <1>7, <2>1
  <2>2. CASE SendMessage(r) \/ ListMessages(r) \/ MarkChannelAsRead(r)
    <3>1. messages' = messages
      BY <2>2 DEF SendMessage, ListMessages, MarkChannelAsRead, BeginMark, timelineVars
    <3>2. req'[r].pc # "commit"
      <4>1. CASE SendMessage(r)
        <5>1. PICK c, reply : Start(r, [pc |-> "send", channel |-> c, reply |-> reply])
          BY <4>1 DEF SendMessage
        <5> QED
          BY <5>1, StartMoves
      <4>2. CASE ListMessages(r)
        <5>1. PICK c, u, n, present :
                 Start(r, [pc |-> "page", channel |-> c, user |-> u, limit |-> n,
                           cursor |-> NoCursor, got |-> <<>>, present |-> present])
          BY <4>2 DEF ListMessages
        <5> QED
          BY <5>1, StartMoves
      <4>3. CASE MarkChannelAsRead(r)
        <5>1. PICK s, u, began, at :
                 Start(r, [pc |-> "mark", space |-> s, user |-> u, began |-> began, at |-> at])
          BY <4>3 DEF MarkChannelAsRead, BeginMark
        <5> QED
          BY <5>1, StartMoves
      <4> QED
        BY <2>2, <4>1, <4>2, <4>3
    <3> QED
      BY <1>4, <1>7, <3>1, <3>2 DEF Moves
  <2>3. CASE FetchPage(r)
    <3>1. messages' = messages
      BY <2>3 DEF FetchPage, timelineVars
    <3>2. req'[r].pc # "commit"
      BY <2>3, FetchGoesOn
    <3> QED
      BY <1>4, <1>7, <3>1, <3>2 DEF Moves
  <2>4. CASE StoreReadState(r)
    <3>1. messages' = messages /\ req'[r].pc # "commit"
      BY <2>4, EndMoves DEF StoreReadState, Done
    <3> QED
      BY <1>4, <1>7, <3>1 DEF Moves
  <2> QED
    BY <1>7, <2>1, <2>2, <2>3, <2>4 DEF TimelineStep
<1>8. ASSUME NEW r \in Requests, Moves(r, ChannelPhases \cup Working), messages' = messages
      PROVE  CommitInv'
  <2>1. req'[r].pc # "commit"
    BY <1>8 DEF Moves, ChannelPhases, Working
  <2>2. Moves(r, TimelinePhases \cup ChannelPhases \cup Working)
    BY <1>8 DEF Moves
  <2> QED
    BY <1>4, <1>8, <2>1, <2>2
<1>9. \A r \in Requests : Moves(r, ChannelPhases) \/ Moves(r, Working) \/ Moves(r, {}) =>
         Moves(r, ChannelPhases \cup Working)
  BY DEF Moves
<1>10. ASSUME NEW m \in Rows, SoftDeleteMessage(m), UNCHANGED req
       PROVE  CommitInv'
  <2>1. messages[m].state = "visible" /\ messages' = [messages EXCEPT ![m].state = "deleted"]
    BY <1>10 DEF SoftDeleteMessage, GetMessageByID, Visible
  <2>2. \A r \in Requests : At(r, "commit") => messages'[req[r].message].state = "inserted"
    BY <1>1, <2>1 DEF TypeOK, TimelineType
  <2> QED
    BY <1>10, <2>2 DEF CommitInv, At
<1> QED
  BY <1>3, <1>7, <1>8, <1>9, <1>10, Steps DEF cvars, timelineVars, Tick
--------------------------------------------------------------------------------
(* What users have read. *)

\* A row never marked is at 0, and none is marked beyond the time its mark began at.
ReadInv ==
    /\ \A s \in Spaces, u \in Users :
        /\ memberships[s][u].role = "none" => memberships[s][u].read = 0
        /\ memberships[s][u].read <= markedAt[s][u]
    /\ \A m \in Rows : messages[m].state # "free" => messages[m].at <= now
    /\ \A r \in Requests : At(r, "mark") => req[r].at <= req[r].began

LEMMA ReadInit ==
    ASSUME Init
    PROVE  ReadInv
<1>1. \A s \in Spaces, u \in Users : memberships[s][u].read = 0 /\ markedAt[s][u] = 0
  BY DEF Init, NoMembership
<1>2. \A m \in Rows : messages[m].state # "free" => messages[m].at <= now
  BY DEF Init, Free
<1>3. \A r \in Requests : ~At(r, "mark")
  BY DEF Init, At, Idle
<1> QED
  BY <1>1, <1>2, <1>3 DEF ReadInv

LEMMA ReadNext ==
    ASSUME TypeOK, TypeOK', CommitInv, ReadInv, [Next]_cvars
    PROVE  ReadInv'
<1>1. /\ memberships \in [Spaces -> [Users -> Membership]]
      /\ markedAt \in [Spaces -> [Users -> 0..MaxTime]]
      /\ now \in Nat /\ now' \in Nat
  BY TimelineAssumption DEF TypeOK, TimelineType
<1>2. now <= now'
  <2>1. now' = now \/ now' = now + 1
    BY Steps DEF Tick, TimelineStep, SendMessage, InsertMessage, CommitMessage, ListMessages,
       FetchPage, MarkChannelAsRead, BeginMark, StoreReadState, SoftDeleteMessage,
       timelineVars, cvars
  <2> QED
    BY <1>1, <2>1
<1>3. \A m \in Rows : messages'[m].state # "free" => messages'[m].at <= now'
  <2> SUFFICES ASSUME NEW m \in Rows, messages'[m].state # "free"
               PROVE  messages'[m].at <= now'
    OBVIOUS
  <2>1. CASE messages[m].state = "free"
    <3>1. messages'[m].at = now
      BY <2>1, MessagesStay
    <3> QED
      BY <1>2, <3>1
  <2>2. CASE messages[m].state # "free"
    <3>1. messages'[m].at = messages[m].at /\ messages[m].at <= now
      BY <2>2, MessagesStay DEF ReadInv
    <3>2. messages[m].at \in Nat
      BY <2>2, RowIsMessage, TimelineAssumption DEF Message
    <3> QED
      BY <1>1, <1>2, <3>1, <3>2
  <2> QED
    BY <2>1, <2>2
<1>4. ASSUME UNCHANGED <<memberships, markedAt>>,
             \A r \in Requests : At(r, "mark")' => req'[r].at <= req'[r].began
      PROVE  ReadInv'
  BY <1>3, <1>4 DEF ReadInv
<1>5. ASSUME NEW r \in Requests, Moves(r, {}) \/ Moves(r, ChannelPhases) \/ Moves(r, Working)
      PROVE  \A q \in Requests : At(q, "mark")' => req'[q].at <= req'[q].began
  BY <1>5 DEF Moves, ChannelPhases, Working, ReadInv, At
<1>6. ASSUME NEW r \in Requests, TimelineStep(r), Moves(r, TimelinePhases)
      PROVE  ReadInv'
  <2>1. CASE StoreReadState(r)
    <3> DEFINE s == req[r].space
               u == req[r].user
    <3>1. /\ s \in Spaces /\ u \in Users /\ req[r].at \in 0..MaxTime
          /\ req[r].began \in 0..MaxTime /\ req[r].at <= req[r].began
      BY <2>1, Fields DEF StoreReadState, Marks, ReadInv
    <3>2. markedAt' = [markedAt EXCEPT ![s][u] = req[r].began]
      BY <2>1 DEF StoreReadState
    <3>3. memberships[s][u] \in Membership
      BY <1>1, <3>1
    <3>4. /\ memberships'[s][u].role = "none" => memberships'[s][u].read = 0
          /\ memberships'[s][u].read <= markedAt'[s][u]
      <4>1. markedAt'[s][u] = req[r].began
        BY <1>1, <3>1, <3>2
      <4>2. CASE memberships[s][u].role = "none"
        <5>1. memberships' = memberships /\ memberships[s][u].read = 0
          BY <2>1, <3>1, <4>2 DEF StoreReadState, UpdateReadState, ReadInv
        <5> QED
          BY <3>1, <4>1, <5>1
      <4>3. CASE memberships[s][u].role # "none"
        <5>1. memberships' = [memberships EXCEPT ![s][u].read = req[r].at]
          BY <2>1, <4>3 DEF StoreReadState, UpdateReadState
        <5>2. memberships'[s][u] = [memberships[s][u] EXCEPT !.read = req[r].at]
          BY <1>1, <3>1, <5>1
        <5>3. memberships'[s][u].role # "none" /\ memberships'[s][u].read = req[r].at
          BY <3>3, <4>3, <5>2 DEF Membership
        <5> QED
          BY <3>1, <4>1, <5>3
      <4> QED
        BY <4>2, <4>3
    <3>5. \A t \in Spaces, v \in Users : <<t, v>> # <<s, u>> =>
             memberships'[t][v] = memberships[t][v] /\ markedAt'[t][v] = markedAt[t][v]
      <4>1. \/ memberships' = memberships
            \/ memberships' = [memberships EXCEPT ![s][u].read = req[r].at]
        BY <2>1 DEF StoreReadState, UpdateReadState
      <4> HIDE DEF s, u
      <4> QED
        BY <1>1, <3>1, <3>2, <4>1
    <3>6. \A t \in Spaces, v \in Users :
             /\ memberships'[t][v].role = "none" => memberships'[t][v].read = 0
             /\ memberships'[t][v].read <= markedAt'[t][v]
      <4> HIDE DEF s, u
      <4> QED
        BY <3>4, <3>5 DEF ReadInv
    <3>7. \A q \in Requests : At(q, "mark")' => req'[q].at <= req'[q].began
      BY <1>6, <2>1, EndMoves DEF StoreReadState, Done, Moves, At, ReadInv
    <3> QED
      BY <1>3, <3>6, <3>7 DEF ReadInv
  <2>2. CASE MarkChannelAsRead(r)
    <3>1. PICK c \in Ids, u \in Users, m \in Rows \cup {NoMessage} : BeginMark(r, c, u, m)
      BY <2>2 DEF MarkChannelAsRead
    <3> DEFINE at == IF m = NoMessage THEN now ELSE messages[m].at
    <3>2. Start(r, [pc |-> "mark", space |-> channels[c].space, user |-> u, began |-> now, at |-> at])
      BY <3>1 DEF BeginMark
    <3>3. at <= now
      <4>1. CASE m = NoMessage
        BY <1>1, <4>1
      <4>2. CASE m # NoMessage
        BY <3>1, <4>2 DEF BeginMark, GetMessageByID, Visible, ReadInv
      <4> QED
        BY <4>1, <4>2
    <3>4. req'[r].at <= req'[r].began
      <4> HIDE DEF at
      <4>1. req'[r] = [pc |-> "mark", space |-> channels[c].space, user |-> u, began |-> now,
                       at |-> at]
        BY <3>2, StartMoves
      <4> QED
        BY <3>3, <4>1
    <3>5. UNCHANGED <<memberships, markedAt>>
      BY <3>1 DEF BeginMark, timelineVars
    <3> QED
      BY <1>4, <1>6, <3>4, <3>5 DEF Moves, At, ReadInv
  <2>3. CASE \/ SendMessage(r) \/ InsertMessage(r) \/ CommitMessage(r) \/ ListMessages(r)
             \/ FetchPage(r)
    <3>1. UNCHANGED <<memberships, markedAt>>
      BY <2>3 DEF SendMessage, InsertMessage, CommitMessage, ListMessages, FetchPage, timelineVars
    <3>2. req'[r].pc # "mark"
      <4>1. CASE SendMessage(r)
        <5>1. PICK c, reply : Start(r, [pc |-> "send", channel |-> c, reply |-> reply])
          BY <4>1 DEF SendMessage
        <5> QED
          BY <5>1, StartMoves
      <4>2. CASE InsertMessage(r)
        <5>1. PICK m : Start(r, [pc |-> "commit", message |-> m])
          BY <4>2 DEF InsertMessage
        <5> QED
          BY <5>1, StartMoves
      <4>3. CASE CommitMessage(r)
        BY <4>3, EndMoves DEF CommitMessage, Done
      <4>4. CASE ListMessages(r)
        <5>1. PICK c, u, n, present :
                 Start(r, [pc |-> "page", channel |-> c, user |-> u, limit |-> n,
                           cursor |-> NoCursor, got |-> <<>>, present |-> present])
          BY <4>4 DEF ListMessages
        <5> QED
          BY <5>1, StartMoves
      <4>5. CASE FetchPage(r)
        BY <4>5, FetchGoesOn
      <4> QED
        BY <2>3, <4>1, <4>2, <4>3, <4>4, <4>5
    <3> QED
      BY <1>4, <1>6, <3>1, <3>2 DEF Moves, At, ReadInv
  <2> QED
    BY <1>6, <2>1, <2>2, <2>3 DEF TimelineStep
<1>7. ASSUME NEW r \in Requests, ChangeMembership(r), Moves(r, {})
      PROVE  ReadInv'
  <2>1. PICK s \in Spaces, u \in Users :
           \/ memberships' = [memberships EXCEPT ![s][u] = NoMembership]
           \/ \E ro \in {"member", "admin"} :
                 memberships' = [memberships EXCEPT ![s][u].role = ro]
    BY <1>7 DEF ChangeMembership
  <2>2. /\ memberships'[s][u].role = "none" => memberships'[s][u].read = 0
        /\ memberships'[s][u].read \in {memberships[s][u].read, 0}
    <3>1. CASE memberships' = [memberships EXCEPT ![s][u] = NoMembership]
      BY <1>1, <3>1 DEF NoMembership
    <3>2. ASSUME NEW ro \in {"member", "admin"},
                 memberships' = [memberships EXCEPT ![s][u].role = ro]
          PROVE  /\ memberships'[s][u].role # "none"
                 /\ memberships'[s][u].read = memberships[s][u].read
      <4>1. memberships[s][u] \in Membership
        BY <1>1
      <4>2. memberships'[s][u] = [memberships[s][u] EXCEPT !.role = ro]
        BY <1>1, <3>2
      <4> QED
        BY <4>1, <4>2 DEF Membership
    <3> QED
      BY <2>1, <3>1, <3>2
  <2>3. \A t \in Spaces, v \in Users : <<t, v>> # <<s, u>> => memberships'[t][v] = memberships[t][v]
    BY <1>1, <2>1
  <2>4. markedAt' = markedAt
    BY <1>7 DEF ChangeMembership, timelineVars
  <2>5. markedAt[s][u] >= 0
    BY <1>1
  <2>6. \A t \in Spaces, v \in Users :
           /\ memberships'[t][v].role = "none" => memberships'[t][v].read = 0
           /\ memberships'[t][v].read <= markedAt'[t][v]
    BY <2>2, <2>3, <2>4, <2>5 DEF ReadInv
  <2>7. \A q \in Requests : At(q, "mark")' => req'[q].at <= req'[q].began
    BY <1>5, <1>7
  <2> QED
    BY <1>3, <2>6, <2>7 DEF ReadInv
<1>8. ASSUME UNCHANGED <<memberships, markedAt, req>>
      PROVE  ReadInv'
  BY <1>4, <1>8 DEF ReadInv, At
<1> QED
  BY <1>4, <1>5, <1>6, <1>7, <1>8, Steps
  DEF cvars, timelineVars, Tick, SoftDeleteMessage

LEMMA MarksHide ==
    ASSUME TypeOK, ReadInv
    PROVE  UnreadAfterMark
<1> SUFFICES ASSUME NEW c \in Ids, NEW u \in Users, NEW count \in Unread(c, u)
             PROVE  count >=
                      Cardinality({m \in Visible :
                        /\ messages[m].channel = c
                        /\ messages[m].at > markedAt[channels[c].space][u]})
  BY DEF UnreadAfterMark
<1> DEFINE s == channels[c].space
           unread == {m \in Visible : messages[m].channel = c
                                      /\ messages[m].at > memberships[s][u].read}
           late == {m \in Visible : messages[m].channel = c /\ messages[m].at > markedAt[s][u]}
<1>1. count = Cardinality(unread)
  BY DEF Unread, GetUnreadCount
<1>2. s \in Spaces
  <2>1. channels[c] \in Channel
    BY DEF TypeOK, ChannelsType, Ids
  <2> QED
    BY <2>1 DEF Channel
<1>3. /\ memberships[s][u].read \in Nat /\ markedAt[s][u] \in Nat
      /\ memberships[s][u].read <= markedAt[s][u]
  <2>1. memberships[s][u] \in Membership /\ markedAt[s][u] \in 0..MaxTime
    BY <1>2 DEF TypeOK, TimelineType
  <2> QED
    BY <1>2, <2>1, TimelineAssumption DEF Membership, ReadInv
<1> HIDE DEF s
<1>4. late \in SUBSET unread
  BY <1>3, VisibleRows
<1>5. unread \in SUBSET Rows
  BY VisibleRows
<1>6. IsFiniteSet(unread) /\ Cardinality(unread) \in Nat
  BY <1>5, RowsFinite
<1>7. Cardinality(late) <= Cardinality(unread) /\ IsFiniteSet(late)
  BY <1>4, <1>6, FS_Subset
<1>8. Cardinality(late) \in Nat
  BY <1>7, FS_CardinalityType
<1> HIDE DEF unread, late
<1>9. count >= Cardinality(late)
  BY <1>1, <1>6, <1>7, <1>8
<1> QED
  BY <1>9 DEF late, s
--------------------------------------------------------------------------------
(* Pages of messages. *)

Before(rows, m, n) == rows[m].at > rows[n].at \/ (rows[m].at = rows[n].at /\ m > n)
LastOf(got) == got[Len(got)]

\* What a client has got is in order, its cursor is at the last of it, and what was there
\* from the start, still is and is missing comes after that.
PageOK(rows, q) ==
    /\ \A m \in q.present : rows[m].state \in {"visible", "deleted"} /\ rows[m].channel = q.channel
    /\ \A i \in 1..Len(q.got) : rows[q.got[i]].state # "free"
    /\ \A i, j \in 1..Len(q.got) : i < j => Before(rows, q.got[i], q.got[j])
    /\ q.pc = "page" =>
          \/ q.got = <<>> /\ q.cursor = NoCursor
          \/ q.got # <<>> /\ q.cursor = [at |-> rows[LastOf(q.got)].at, id |-> LastOf(q.got)]
    /\ \A m \in q.present : rows[m].state = "visible" /\ ~rows[m].reply =>
          \/ \E i \in 1..Len(q.got) : q.got[i] = m
          \/ q.pc = "page" /\ (q.got = <<>> \/ Before(rows, LastOf(q.got), m))

PageInv == \A r \in Requests : req[r].pc \in {"page", "end"} => PageOK(messages, req[r])

LEMMA PageFields ==
    ASSUME NEW q \in Pages
    PROVE  /\ q.got \in Seq(Rows) /\ Len(q.got) \in Nat /\ DOMAIN q.got = 1..Len(q.got)
           /\ \A i \in 1..Len(q.got) : q.got[i] \in Rows
           /\ q.present \subseteq Rows
           /\ q.got # <<>> => Len(q.got) \in 1..Len(q.got) /\ LastOf(q.got) \in Rows
<1>1. q.got \in Seq(Rows) /\ q.present \subseteq Rows
  BY DEF Pages
<1> DEFINE got == q.got
<1> HIDE DEF got
<1>2. got \in Seq(Rows)
  BY <1>1 DEF got
<1>3. /\ Len(got) \in Nat /\ DOMAIN got = 1..Len(got) /\ \A i \in 1..Len(got) : got[i] \in Rows
      /\ got # <<>> => Len(got) \in 1..Len(got)
  BY <1>2
<1> QED
  BY <1>1, <1>3 DEF got, LastOf

\* Whatever happens to the rows meanwhile, they keep their order, and none comes back.
LEMMA PageStays ==
    ASSUME NEW rows, NEW rows2, NEW q \in Pages, PageOK(rows, q),
           \A m \in Rows :
              /\ rows[m].state # "free" =>
                    /\ rows2[m].state # "free" /\ rows2[m].channel = rows[m].channel
                    /\ rows2[m].at = rows[m].at /\ rows2[m].reply = rows[m].reply
              /\ rows[m].state \in {"visible", "deleted"} =>
                    rows2[m].state \in {rows[m].state, "deleted"}
    PROVE  PageOK(rows2, q)
<1>1. /\ \A i \in 1..Len(q.got) : q.got[i] \in Rows
      /\ q.present \subseteq Rows
      /\ q.got # <<>> => Len(q.got) \in 1..Len(q.got) /\ LastOf(q.got) \in Rows
  BY PageFields
<1>2. \A m \in q.present :
         /\ rows[m].state \in {"visible", "deleted"} /\ rows2[m].state \in {"visible", "deleted"}
         /\ rows2[m].state = "visible" => rows[m].state = "visible"
         /\ rows2[m].channel = rows[m].channel /\ rows2[m].channel = q.channel
         /\ rows2[m].at = rows[m].at /\ rows2[m].reply = rows[m].reply
  BY <1>1 DEF PageOK
<1>3. \A i \in 1..Len(q.got) : /\ rows2[q.got[i]].state # "free"
                               /\ rows2[q.got[i]].at = rows[q.got[i]].at
  BY <1>1 DEF PageOK
<1>4. \A i, j \in 1..Len(q.got) : i < j => Before(rows2, q.got[i], q.got[j])
  BY <1>3 DEF PageOK, Before
<1>5. q.got # <<>> => rows2[LastOf(q.got)].at = rows[LastOf(q.got)].at
  BY <1>1, <1>3 DEF LastOf
<1>6. q.pc = "page" =>
         \/ q.got = <<>> /\ q.cursor = NoCursor
         \/ q.got # <<>> /\ q.cursor = [at |-> rows2[LastOf(q.got)].at, id |-> LastOf(q.got)]
  BY <1>5 DEF PageOK
<1>7. \A m \in q.present : rows2[m].state = "visible" /\ ~rows2[m].reply =>
         \/ \E i \in 1..Len(q.got) : q.got[i] = m
         \/ q.pc = "page" /\ (q.got = <<>> \/ Before(rows2, LastOf(q.got), m))
  BY <1>2, <1>5 DEF PageOK, Before
<1> QED
  BY <1>2, <1>3, <1>4, <1>6, <1>7 DEF PageOK

LEMMA Joined ==
    ASSUME NEW S, NEW a \in Seq(S), NEW b \in Seq(S)
    PROVE  /\ Len(a \o b) = Len(a) + Len(b) /\ Len(a) \in Nat /\ Len(b) \in Nat
           /\ \A i \in 1..Len(a) : (a \o b)[i] = a[i]
           /\ \A i \in 1..Len(b) : (a \o b)[Len(a) + i] = b[i]
           /\ \A i \in 1..Len(a \o b) :
                 i \in 1..Len(a) \/ \E j \in 1..Len(b) : i = Len(a) + j
<1>1. Len(a \o b) = Len(a) + Len(b) /\ Len(a) \in Nat /\ Len(b) \in Nat
  OBVIOUS
<1>2. \A i \in 1..Len(a) : (a \o b)[i] = a[i]
  OBVIOUS
<1>3. \A i \in 1..Len(b) : (a \o b)[Len(a) + i] = b[i]
  OBVIOUS
<1>4. ASSUME NEW i \in 1..Len(a \o b), i \notin 1..Len(a)
      PROVE  \E j \in 1..Len(b) : i = Len(a) + j
  <2>1. i - Len(a) \in 1..Len(b) /\ i = Len(a) + (i - Len(a))
    BY <1>1, <1>4
  <2> QED
    BY <2>1
<1> QED
  BY <1>1, <1>2, <1>3, <1>4

LEMMA PageFetched ==
    ASSUME TypeOK, NEW r \in Requests, FetchPage(r), PageOK(messages, req[r])
    PROVE  PageOK(messages, req'[r])
<1> DEFINE old == req[r].got
           c == req[r].channel
           n == req[r].limit
           F == Following(req[r])
           rows == FirstOf(F, n + 1)
<1>1. /\ req[r] \in Pages /\ n \in Nat \ {0} /\ rows \in Seq(F) /\ Len(rows) \in Nat
      /\ \A i, j \in DOMAIN rows : i < j => Newer(rows[i], rows[j])
      /\ \A m \in F : \/ \E i \in DOMAIN rows : rows[i] = m
                      \/ Len(rows) > n /\ \A i \in DOMAIN rows : Newer(rows[i], m)
  BY PageFacts
<1>2. PICK page \in Seq(F) :
         /\ \A i \in 1..Len(page) : page[i] = rows[i]
         /\ \/ /\ Len(rows) = n + 1 /\ Len(page) = n
               /\ req' = [req EXCEPT ![r] = [req[r] EXCEPT !.got = req[r].got \o page,
                                             !.cursor = EncodeCursor(rows[n])]]
            \/ /\ Len(rows) <= n /\ Len(page) = Len(rows)
               /\ req' = [req EXCEPT ![r] = [req[r] EXCEPT !.got = req[r].got \o page,
                                             !.pc = "end"]]
  BY PageFacts
<1> DEFINE got == old \o page
<1>3. req[r].pc = "page"
  BY DEF FetchPage, At
<1>4. F \subseteq Visible /\ F \subseteq Rows
  BY VisibleRows DEF Following
<1>5. \A m \in F : /\ messages[m].state = "visible" /\ messages[m].channel = c
                   /\ ~messages[m].reply
  BY DEF Following, Visible
\* What is fetched comes after what the client has.
<1>6. \A m \in F : old # <<>> => Before(messages, LastOf(old), m)
  <2> SUFFICES ASSUME NEW m \in F, old # <<>>
               PROVE  Before(messages, LastOf(old), m)
    OBVIOUS
  <2>1. req[r].cursor = [at |-> messages[LastOf(old)].at, id |-> LastOf(old)]
    BY <1>3 DEF PageOK
  <2>2. LastOf(old) \in 1..MaxMessages
    BY <1>1, PageFields DEF Rows
  <2>3. req[r].cursor # NoCursor
    BY <2>1, <2>2, TimelineAssumption DEF NoCursor
  <2>4. ComesAfter(m, req[r].cursor)
    BY <2>3 DEF Following
  <2>5. /\ messages[m].at \in Nat /\ messages[LastOf(old)].at \in Nat /\ m \in Nat
        /\ LastOf(old) \in Nat
    <3>1. messages[LastOf(old)].state # "free" /\ LastOf(old) \in Rows
      BY <1>1, PageFields DEF PageOK, LastOf
    <3>2. messages[LastOf(old)].at \in 0..MaxTime
      BY <3>1, RowIsMessage DEF Message
    <3> QED
      BY <1>4, <3>1, <3>2, VisibleRows, TimelineAssumption DEF Rows
  <2> HIDE DEF F, old
  <2> QED
    BY <2>1, <2>4, <2>5 DEF ComesAfter, Before
\* What is missing is fetched, if it is not behind the page.
<1>7. \A m \in req[r].present : messages[m].state = "visible" /\ ~messages[m].reply =>
         (\E i \in 1..Len(old) : old[i] = m) \/ m \in F
  <2> SUFFICES ASSUME NEW m \in req[r].present, messages[m].state = "visible", ~messages[m].reply,
                      old = <<>> \/ Before(messages, LastOf(old), m)
               PROVE  m \in F
    BY DEF PageOK
  <2>1. m \in Visible /\ messages[m].channel = c
    BY <1>1, PageFields DEF PageOK, Visible
  <2>2. req[r].cursor # NoCursor => ComesAfter(m, req[r].cursor)
    <3> SUFFICES ASSUME req[r].cursor # NoCursor
                 PROVE  ComesAfter(m, req[r].cursor)
      OBVIOUS
    <3>1. old # <<>> /\ req[r].cursor = [at |-> messages[LastOf(old)].at, id |-> LastOf(old)]
      BY <1>3 DEF PageOK
    <3>2. Before(messages, LastOf(old), m)
      BY <3>1
    <3>3. /\ messages[m].at \in Nat /\ messages[LastOf(old)].at \in Nat /\ m \in Nat
          /\ LastOf(old) \in Nat
      <4>1. messages[LastOf(old)].state # "free" /\ LastOf(old) \in Rows
        BY <1>1, <3>1, PageFields DEF PageOK, LastOf
      <4>2. messages[LastOf(old)].at \in 0..MaxTime
        BY <4>1, RowIsMessage DEF Message
      <4> QED
        BY <2>1, <4>1, <4>2, VisibleRows, TimelineAssumption DEF Rows
    <3> HIDE DEF old
    <3> QED
      BY <3>1, <3>2, <3>3 DEF ComesAfter, Before
  <2> QED
    BY <2>1, <2>2 DEF Following
<1>8. /\ old \in Seq(Rows) /\ page \in Seq(Rows) /\ rows \in Seq(Rows) /\ DOMAIN rows = 1..Len(rows)
      /\ \A i \in 1..Len(page) : page[i] \in F
  BY <1>1, <1>2, <1>4, PageFields
<1>9. /\ Len(got) = Len(old) + Len(page) /\ Len(old) \in Nat /\ Len(page) \in Nat
      /\ \A i \in 1..Len(old) : got[i] = old[i]
      /\ \A i \in 1..Len(page) : got[Len(old) + i] = page[i]
      /\ \A i \in 1..Len(got) :
            i \in 1..Len(old) \/ \E j \in 1..Len(page) : i = Len(old) + j
  <2> HIDE DEF old
  <2> QED
    BY <1>8, Joined
<1> HIDE DEF got, F, rows, n, old
<1>10. \A i, j \in 1..Len(page) : i < j => Before(messages, page[i], page[j])
  <2>1. \A i \in 1..Len(page) : i \in 1..Len(rows)
    BY <1>1, <1>2, <1>9
  <2> QED
    BY <1>1, <1>2, <1>8, <2>1 DEF Newer, Before
<1>11. \A i, j \in 1..Len(old) : i < j => Before(messages, old[i], old[j])
  BY DEF PageOK, old
<1>12. \A i \in 1..Len(old), j \in 1..Len(page) : Before(messages, old[i], page[j])
  <2> SUFFICES ASSUME NEW i \in 1..Len(old), NEW j \in 1..Len(page)
               PROVE  Before(messages, old[i], page[j])
    OBVIOUS
  <2>1. old # <<>> /\ Len(old) \in 1..Len(old) /\ LastOf(old) = old[Len(old)]
    BY <1>8 DEF LastOf
  <2>2. Before(messages, LastOf(old), page[j])
    BY <1>6, <1>8, <2>1
  <2>3. i = Len(old) \/ Before(messages, old[i], LastOf(old))
    BY <1>9, <1>11, <2>1
  <2>4. \A m \in {old[i], LastOf(old), page[j]} : messages[m].at \in Nat /\ m \in Nat
    <3>1. \A k \in 1..Len(old) : messages[old[k]].state # "free" /\ old[k] \in Rows
      BY <1>1, PageFields DEF PageOK, old
    <3>2. \A m \in Rows : messages[m].state # "free" => messages[m].at \in Nat /\ m \in Nat
      BY RowIsMessage, TimelineAssumption DEF Message, Rows
    <3>3. page[j] \in Rows /\ messages[page[j]].state # "free"
      BY <1>4, <1>5, <1>8
    <3> QED
      BY <2>1, <3>1, <3>2, <3>3
  <2> QED
    BY <2>1, <2>2, <2>3, <2>4 DEF Before
<1>13. \A i, j \in 1..Len(got) : i < j => Before(messages, got[i], got[j])
  <2> SUFFICES ASSUME NEW i \in 1..Len(got), NEW j \in 1..Len(got), i < j
               PROVE  Before(messages, got[i], got[j])
    OBVIOUS
  <2>1. CASE i \in 1..Len(old) /\ j \in 1..Len(old)
    BY <1>9, <1>11, <2>1
  <2>2. CASE i \in 1..Len(old) /\ j \notin 1..Len(old)
    BY <1>9, <1>12, <2>2
  <2>3. CASE i \notin 1..Len(old)
    <3>1. PICK k \in 1..Len(page) : i = Len(old) + k
      BY <1>9, <2>3
    <3>2. PICK l \in 1..Len(page) : j = Len(old) + l
      BY <1>9, <2>3, <3>1
    <3> QED
      BY <1>9, <1>10, <3>1, <3>2
  <2> QED
    BY <2>1, <2>2, <2>3
<1>14. \A i \in 1..Len(got) : messages[got[i]].state # "free"
  <2>1. \A i \in 1..Len(old) : messages[old[i]].state # "free"
    BY DEF PageOK, old
  <2>2. \A i \in 1..Len(page) : messages[page[i]].state # "free"
    BY <1>5, <1>8
  <2> SUFFICES ASSUME NEW i \in 1..Len(got)
               PROVE  messages[got[i]].state # "free"
    OBVIOUS
  <2>3. CASE i \in 1..Len(old)
    BY <1>9, <2>1, <2>3
  <2>4. CASE i \notin 1..Len(old)
    <3>1. PICK j \in 1..Len(page) : i = Len(old) + j
      BY <1>9, <2>4
    <3> QED
      BY <1>9, <2>2, <3>1
  <2> QED
    BY <2>3, <2>4
<1>15. \A m : (\E i \in 1..Len(old) : old[i] = m) \/ (\E i \in 1..Len(page) : page[i] = m)
              => \E i \in 1..Len(got) : got[i] = m
  <2>1. \A i \in 1..Len(old) : i \in 1..Len(got)
    BY <1>9
  <2>2. \A i \in 1..Len(page) : Len(old) + i \in 1..Len(got)
    BY <1>9
  <2>3. \A i \in 1..Len(old) : \E k \in 1..Len(got) : got[k] = old[i]
    BY <1>9, <2>1
  <2>4. \A i \in 1..Len(page) : \E k \in 1..Len(got) : got[k] = page[i]
    BY <1>9, <2>2
  <2> QED
    BY <2>3, <2>4
<1>16. CASE /\ Len(rows) = n + 1 /\ Len(page) = n
            /\ req' = [req EXCEPT ![r] = [req[r] EXCEPT !.got = got,
                                          !.cursor = EncodeCursor(rows[n])]]
  <2> DEFINE q == req'[r]
  <2>1. /\ q.got = got /\ q.cursor = EncodeCursor(rows[n]) /\ q.pc = "page"
        /\ q.present = req[r].present /\ q.channel = req[r].channel
    <3>1. req'[r] = [req[r] EXCEPT !.got = got, !.cursor = EncodeCursor(rows[n])]
      BY <1>16, Fields
    <3> QED
      BY <1>1, <1>3, <3>1 DEF Pages
  <2>2. LastOf(got) = rows[n] /\ got # <<>> /\ n \in 1..Len(rows)
    <3>1. n \in 1..Len(page) /\ Len(got) = Len(old) + n /\ Len(got) # 0
      BY <1>1, <1>9, <1>16
    <3> QED
      BY <1>2, <1>9, <1>16, <3>1 DEF LastOf
  <2>3. \A m \in F : (\E i \in 1..Len(page) : page[i] = m) \/ Before(messages, rows[n], m)
    <3> SUFFICES ASSUME NEW m \in F
                 PROVE  (\E i \in 1..Len(page) : page[i] = m) \/ Before(messages, rows[n], m)
      OBVIOUS
    <3>1. CASE \A i \in DOMAIN rows : Newer(rows[i], m)
      BY <1>8, <2>2, <3>1 DEF Newer, Before
    <3>2. ASSUME NEW i \in DOMAIN rows, rows[i] = m
          PROVE  (\E k \in 1..Len(page) : page[k] = m) \/ Before(messages, rows[n], m)
      <4>1. i \in 1..n \/ i = n + 1
        BY <1>1, <1>8, <1>16, <3>2
      <4>2. CASE i \in 1..n
        BY <1>2, <1>16, <3>2, <4>2
      <4>3. CASE i = n + 1
        <5>1. Newer(rows[n], rows[i])
          BY <1>1, <1>8, <2>2, <4>3
        <5> QED
          BY <3>2, <5>1 DEF Newer, Before
      <4> QED
        BY <4>1, <4>2, <4>3
    <3> QED
      BY <1>1, <3>1, <3>2
  <2>4. \A m \in q.present : messages[m].state = "visible" /\ ~messages[m].reply =>
           \/ \E i \in 1..Len(q.got) : q.got[i] = m
           \/ q.pc = "page" /\ (q.got = <<>> \/ Before(messages, LastOf(q.got), m))
    BY <1>7, <1>15, <2>1, <2>2, <2>3
  <2>5. q.cursor = [at |-> messages[LastOf(q.got)].at, id |-> LastOf(q.got)]
    BY <2>1, <2>2 DEF EncodeCursor
  <2> QED
    BY <1>13, <1>14, <2>1, <2>2, <2>4, <2>5 DEF PageOK
<1>17. CASE /\ Len(rows) <= n /\ Len(page) = Len(rows)
            /\ req' = [req EXCEPT ![r] = [req[r] EXCEPT !.got = got, !.pc = "end"]]
  <2> DEFINE q == req'[r]
  <2>1. /\ q.got = got /\ q.pc = "end" /\ q.present = req[r].present
        /\ q.channel = req[r].channel
    <3>1. req'[r] = [req[r] EXCEPT !.got = got, !.pc = "end"]
      BY <1>17, Fields
    <3> QED
      BY <1>1, <3>1 DEF Pages
  <2>2. \A m \in F : \E i \in 1..Len(page) : page[i] = m
    <3>1. ~(Len(rows) > n)
      BY <1>1, <1>17
    <3>2. \A m \in F : \E i \in 1..Len(rows) : rows[i] = m
      BY <1>1, <1>8, <3>1
    <3> QED
      BY <1>2, <1>17, <3>2
  <2>3. \A m \in q.present : messages[m].state = "visible" /\ ~messages[m].reply =>
           \E i \in 1..Len(q.got) : q.got[i] = m
    BY <1>7, <1>15, <2>1, <2>2
  <2> QED
    BY <1>13, <1>14, <2>1, <2>3 DEF PageOK
<1> QED
  BY <1>2, <1>16, <1>17 DEF got, rows, old, n, F

LEMMA PageInit ==
    ASSUME Init
    PROVE  PageInv
  BY DEF Init, PageInv, Idle

LEMMA PageNext ==
    ASSUME TypeOK, CommitInv, PageInv, [Next]_cvars
    PROVE  PageInv'
<1>1. \A r \in Requests : req[r].pc \in {"page", "end"} =>
         req[r] \in Pages /\ PageOK(messages', req[r])
  <2> SUFFICES ASSUME NEW r \in Requests, req[r].pc \in {"page", "end"}
               PROVE  req[r] \in Pages /\ PageOK(messages', req[r])
    OBVIOUS
  <2>1. req[r] \in Pages /\ PageOK(messages, req[r])
    BY Fields DEF PageInv
  <2> QED
    BY <2>1, MessagesStay, PageStays
<1>2. ASSUME NEW r \in Requests, \A q \in Requests \ {r} : req'[q] = req[q],
             req'[r].pc \in {"page", "end"} => PageOK(messages', req'[r])
      PROVE  PageInv'
  BY <1>1, <1>2 DEF PageInv
<1>3. ASSUME req' = req
      PROVE  PageInv'
  BY <1>1, <1>3 DEF PageInv
<1>4. ASSUME NEW r \in Requests, Moves(r, {}) \/ Moves(r, ChannelPhases) \/ Moves(r, Working)
      PROVE  PageInv'
  BY <1>2, <1>4 DEF Moves, ChannelPhases, Working
<1>5. ASSUME NEW r \in Requests, TimelineStep(r), Moves(r, TimelinePhases)
      PROVE  PageInv'
  <2>1. CASE ListMessages(r)
    <3>1. PICK c \in Ids, u \in Users, n \in PageSizes :
             Start(r, [pc |-> "page", channel |-> c, user |-> u, limit |-> n,
                       cursor |-> NoCursor, got |-> <<>>,
                       present |-> {m \in Visible : messages[m].channel = c}])
      BY <2>1 DEF ListMessages
    <3> DEFINE there == {m \in Visible : messages[m].channel = c}
               q == [pc |-> "page", channel |-> c, user |-> u, limit |-> n,
                     cursor |-> NoCursor, got |-> <<>>, present |-> there]
    <3>2. req'[r] = q
      BY <3>1, StartMoves
    <3>3. \A m \in there : messages[m].state = "visible" /\ messages[m].channel = c
      BY DEF Visible
    <3>4. PageOK(messages, q)
      <4> HIDE DEF there
      <4> QED
        BY <3>3 DEF PageOK
    <3>5. messages' = messages
      BY <2>1 DEF ListMessages, timelineVars
    <3> QED
      BY <1>2, <1>5, <3>2, <3>4, <3>5 DEF Moves
  <2>2. CASE FetchPage(r)
    <3>1. PageOK(messages, req[r])
      BY <2>2 DEF FetchPage, At, PageInv
    <3>2. messages' = messages /\ PageOK(messages, req'[r])
      BY <2>2, <3>1, PageFetched DEF FetchPage, timelineVars
    <3> QED
      BY <1>2, <1>5, <3>2 DEF Moves
  <2>3. CASE SendMessage(r)
    <3>1. PICK c, reply : Start(r, [pc |-> "send", channel |-> c, reply |-> reply])
      BY <2>3 DEF SendMessage
    <3> QED
      BY <1>2, <3>1, StartMoves
  <2>4. CASE InsertMessage(r)
    <3>1. PICK m : Start(r, [pc |-> "commit", message |-> m])
      BY <2>4 DEF InsertMessage
    <3> QED
      BY <1>2, <3>1, StartMoves
  <2>5. CASE MarkChannelAsRead(r)
    <3>1. PICK s, u, began, at :
             Start(r, [pc |-> "mark", space |-> s, user |-> u, began |-> began, at |-> at])
      BY <2>5 DEF MarkChannelAsRead, BeginMark
    <3> QED
      BY <1>2, <3>1, StartMoves
  <2>6. CASE CommitMessage(r) \/ StoreReadState(r)
    BY <1>4, <2>6, EndMoves DEF CommitMessage, StoreReadState
  <2> QED
    BY <1>5, <2>1, <2>2, <2>3, <2>4, <2>5, <2>6 DEF TimelineStep
<1> QED
  BY <1>3, <1>4, <1>5, Steps DEF cvars

LEMMA PagesHaveAll ==
    ASSUME TypeOK, PageInv
    PROVE  PagesComplete
<1> SUFFICES ASSUME NEW r \in Requests, req[r].pc \in {"page", "end"}
             PROVE  /\ \A i, j \in DOMAIN req[r].got :
                          i < j => Newer(req[r].got[i], req[r].got[j])
                    /\ At(r, "end") =>
                         {m \in req[r].present \cap Visible : ~messages[m].reply}
                            \subseteq ToSet(req[r].got)
  BY DEF PagesComplete
<1>1. PageOK(messages, req[r]) /\ DOMAIN req[r].got = 1..Len(req[r].got)
  BY Fields, PageFields DEF PageInv
<1>2. \A i, j \in DOMAIN req[r].got : i < j => Newer(req[r].got[i], req[r].got[j])
  BY <1>1 DEF PageOK, Before, Newer
<1>3. ASSUME At(r, "end"), NEW m \in req[r].present \cap Visible, ~messages[m].reply
      PROVE  m \in ToSet(req[r].got)
  <2>1. \E i \in 1..Len(req[r].got) : req[r].got[i] = m
    BY <1>1, <1>3 DEF PageOK, At, Visible
  <2> QED
    BY <1>1, <2>1 DEF ToSet
<1> QED
  BY <1>2, <1>3
--------------------------------------------------------------------------------
(* Reactions. *)

Wrote(q, k) == q.pc \in {"added", "removed"} /\ q.key = k

\* What a request that works on a reaction says of it is so.
Right(rows, q) ==
    q.pc \in Working =>
        /\ q.pc \in {"added", "removed"} => (q.pc = "added" <=> q.key \in rows)
        /\ q.pc \in {"add", "remove"} /\ q.toggle => (q.pc = "remove" <=> q.key \in rows)
        /\ q.pc = "has?" => (q.has <=> q.key \in rows)

\* Unless two requests have worked on it at once: and the client shows it as it is, unless
\* an event of it is under way or was not sent.
KeyOK(rows, shown, missed, requests, k) ==
    /\ \A r \in Requests :
          requests[r].pc \in Working /\ requests[r].key = k => Right(rows, requests[r])
    /\ k \notin missed /\ (\A r \in Requests : ~Wrote(requests[r], k)) =>
          (k \in shown <=> k \in rows)

ReactInv == \A k \in Keys \ mixed : KeyOK(reactions, view, unsaid, req, k)

LEMMA ReactInit ==
    ASSUME Init
    PROVE  ReactInv
<1>1. reactions = view
  BY DEF Init
<1>2. \A r \in Requests : req[r].pc \notin Working
  BY DEF Init, Idle, Working
<1> QED
  BY <1>1, <1>2 DEF ReactInv, KeyOK

\* A request that does not write: it may go on, if what it says is so.
LEMMA ReactStays ==
    ASSUME ReactInv, UNCHANGED reactionVars, NEW r \in Requests,
           \A q \in Requests \ {r} : req'[q] = req[q],
           req[r].pc \notin {"added", "removed"},
           req'[r].pc \in Working =>
              req'[r].pc \notin {"added", "removed"}
              /\ (req'[r].key \notin mixed => Right(reactions, req'[r]))
    PROVE  ReactInv'
<1>1. UNCHANGED <<reactions, view, unsaid, mixed>>
  BY DEF reactionVars
<1> SUFFICES ASSUME NEW k \in Keys \ mixed
             PROVE  KeyOK(reactions, view, unsaid, req', k)
  BY <1>1 DEF ReactInv
<1>2. KeyOK(reactions, view, unsaid, req, k)
  BY DEF ReactInv
<1>3. \A q \in Requests : req'[q].pc \in Working /\ req'[q].key = k => Right(reactions, req'[q])
  BY <1>2 DEF KeyOK
<1>4. (\A q \in Requests : ~Wrote(req'[q], k)) => \A q \in Requests : ~Wrote(req[q], k)
  BY DEF Wrote
<1> QED
  BY <1>2, <1>3, <1>4 DEF KeyOK

\* A write of one reaction leaves the others as they are.
LEMMA OtherKeys ==
    ASSUME ReactInv, NEW r \in Requests, \A q \in Requests \ {r} : req'[q] = req[q],
           req[r].pc \in Working, req'[r].pc \in Working => req'[r].key = req[r].key,
           mixed \subseteq mixed',
           NEW k \in Keys \ mixed', k # req[r].key,
           k \in reactions' <=> k \in reactions, k \in view' <=> k \in view,
           k \in unsaid' <=> k \in unsaid
    PROVE  KeyOK(reactions', view', unsaid', req', k)
<1>1. KeyOK(reactions, view, unsaid, req, k)
  BY DEF ReactInv
<1>2. \A q \in Requests : req'[q].pc \in Working /\ req'[q].key = k => Right(reactions', req'[q])
  BY <1>1 DEF KeyOK, Right
<1>3. (\A q \in Requests : ~Wrote(req'[q], k)) => \A q \in Requests : ~Wrote(req[q], k)
  BY DEF Wrote
<1> QED
  BY <1>1, <1>2, <1>3 DEF KeyOK

LEMMA ReactStep ==
    ASSUME TypeOK, ReactInv, NEW r \in Requests, ReactionStep(r)
    PROVE  ReactInv'
<1>1. \A q \in Requests \ {r} : req'[q] = req[q]
  BY ReactionMoves DEF Moves
<1>2. CASE StartAdd(r) \/ StartRemove(r)
  <2>1. PICK p \in {"add", "remove"} : \E k \in Keys :
           Start(r, [pc |-> p, key |-> k, toggle |-> FALSE, has |-> FALSE])
    BY <1>2 DEF StartAdd, StartRemove
  <2>2. req'[r].pc \in {"add", "remove"} /\ req'[r].toggle = FALSE
    BY <2>1, StartMoves
  <2>3. Right(reactions, req'[r])
    BY <2>2 DEF Right
  <2>4. req[r].pc = "idle" /\ UNCHANGED reactionVars
    BY <1>2 DEF StartAdd, StartRemove, At
  <2> QED
    BY <1>1, <2>2, <2>3, <2>4, ReactStays
<1>3. CASE ToggleReaction(r)
  <2>1. PICK k \in Keys :
           Start(r, [pc |-> "has?", key |-> k, toggle |-> TRUE, has |-> HasUserReacted(k)])
    BY <1>3 DEF ToggleReaction, BeginToggle
  <2>2. /\ req'[r].pc = "has?" /\ req'[r].key = k
        /\ req'[r].has = HasUserReacted(k)
    BY <2>1, StartMoves
  <2>3. Right(reactions, req'[r])
    BY <2>2 DEF Right, HasUserReacted
  <2>4. req[r].pc = "idle" /\ UNCHANGED reactionVars
    BY <1>3 DEF ToggleReaction, BeginToggle, At
  <2> QED
    BY <1>1, <2>2, <2>3, <2>4, ReactStays
<1>4. CASE GoOnToggle(r)
  <2>1. PICK p \in {"add", "remove"} : Goto(r, p) /\ (p = "remove" <=> req[r].has)
    <3>1. req[r].has \/ ~req[r].has
      OBVIOUS
    <3> QED
      BY <1>4, <3>1 DEF GoOnToggle
  <2>2. req[r].pc = "has?" /\ req[r].key \in Keys /\ UNCHANGED reactionVars
    BY <1>4, Fields DEF GoOnToggle, At, Working, ReactionRequest
  <2>3. req'[r].pc = p /\ req'[r].key = req[r].key
    BY <2>1, <2>2, RecordGoes DEF Working
  <2>4. req[r].key \notin mixed => (req[r].has <=> req[r].key \in reactions)
    BY <2>2 DEF ReactInv, KeyOK, Right, Working
  <2>5. req'[r].key \notin mixed => Right(reactions, req'[r])
    BY <2>1, <2>3, <2>4 DEF Right
  <2> QED
    BY <1>1, <2>1, <2>2, <2>3, <2>5, ReactStays
<1>5. ASSUME StoreReaction(r) \/ DropReaction(r)
      PROVE  ReactInv'
  <2> DEFINE x == req[r].key
  <2>1. /\ req[r].pc \in {"add", "remove"} /\ Meet(r) /\ view' = view /\ unsaid' = unsaid
        /\ \/ Goto(r, "added") /\ reactions' = reactions \cup {x}
           \/ Goto(r, "removed") /\ reactions' = reactions \ {x}
    BY <1>5 DEF StoreReaction, DropReaction, At, AddReaction, RemoveReaction
  <2>2. /\ req'[r].key = x
        /\ \/ req'[r].pc = "added" /\ x \in reactions'
           \/ req'[r].pc = "removed" /\ x \notin reactions'
    BY <2>1, RecordGoes DEF Working
  <2>3. mixed \subseteq mixed' /\ (x \notin mixed' => Others(r) = {})
    BY <2>1 DEF Meet
  <2>4. \A k \in Keys \ mixed' : k # x => KeyOK(reactions', view', unsaid', req', k)
    BY <1>1, <2>1, <2>2, <2>3, OtherKeys DEF Working
  <2>5. x \notin mixed' => KeyOK(reactions', view', unsaid', req', x)
    <3> SUFFICES ASSUME x \notin mixed'
                 PROVE  KeyOK(reactions', view', unsaid', req', x)
      OBVIOUS
    <3>1. \A q \in Requests : req'[q].pc \in Working /\ req'[q].key = x => q = r
      BY <1>1, <2>3 DEF Others
    <3>2. Right(reactions', req'[r]) /\ Wrote(req'[r], x)
      BY <2>2 DEF Right, Wrote
    <3> QED
      BY <3>1, <3>2 DEF KeyOK
  <2> QED
    BY <2>4, <2>5 DEF ReactInv
<1>6. ASSUME PublishReaction(r)
      PROVE  ReactInv'
  <2> DEFINE x == req[r].key
  <2>1. /\ UNCHANGED <<reactions, unsaid, mixed>>
        /\ \/ req[r].pc = "added" /\ view' = view \cup {x}
           \/ req[r].pc = "removed" /\ view' = view \ {x}
    BY <1>6 DEF PublishReaction, At
  <2>2. req'[r].pc \notin Working
    BY <1>6, EndMoves DEF PublishReaction, Done, Working
  <2>3. \A k \in Keys \ mixed' : k # x => KeyOK(reactions', view', unsaid', req', k)
    BY <1>1, <2>1, <2>2, OtherKeys DEF Working
  <2>4. ASSUME x \in Keys \ mixed
        PROVE  KeyOK(reactions', view', unsaid', req', x)
    <3>1. KeyOK(reactions, view, unsaid, req, x)
      BY <2>4 DEF ReactInv
    <3>2. req[r].pc = "added" <=> x \in reactions
      BY <2>1, <3>1 DEF KeyOK, Right, Working
    <3>3. x \in view' <=> x \in reactions
      BY <2>1, <3>2
    <3>4. \A q \in Requests :
             req'[q].pc \in Working /\ req'[q].key = x => Right(reactions, req'[q])
      BY <1>1, <2>2, <3>1 DEF KeyOK
    <3> QED
      BY <2>1, <3>3, <3>4 DEF KeyOK
  <2> QED
    BY <2>1, <2>3, <2>4 DEF ReactInv
<1>7. ASSUME NameUnknown(r)
      PROVE  ReactInv'
  <2> DEFINE x == req[r].key
  <2>1. /\ UNCHANGED <<reactions, view, mixed>> /\ unsaid' = unsaid \cup {x}
        /\ req[r].pc \in Working
    BY <1>7 DEF NameUnknown, Working
  <2>2. req'[r].pc \notin Working
    BY <1>7, EndMoves DEF NameUnknown, Done, Working
  <2>3. \A k \in Keys \ mixed' : k # x => KeyOK(reactions', view', unsaid', req', k)
    BY <1>1, <2>1, <2>2, OtherKeys
  <2>4. ASSUME x \in Keys \ mixed
        PROVE  KeyOK(reactions', view', unsaid', req', x)
    <3>1. KeyOK(reactions, view, unsaid, req, x)
      BY <2>4 DEF ReactInv
    <3>2. \A q \in Requests :
             req'[q].pc \in Working /\ req'[q].key = x => Right(reactions, req'[q])
      BY <1>1, <2>2, <3>1 DEF KeyOK
    <3> QED
      BY <2>1, <3>2 DEF KeyOK
  <2> QED
    BY <2>1, <2>3, <2>4 DEF ReactInv
<1> QED
  BY <1>2, <1>3, <1>4, <1>5, <1>6, <1>7 DEF ReactionStep

LEMMA ReactLoad ==
    ASSUME TypeOK, ReactInv, NEW m \in Rows, LoadReactions(m)
    PROVE  ReactInv'
<1>1. /\ view' = {k \in view : k.message # m} \cup GetMessageReactions(m)
      /\ unsaid' = {k \in unsaid : k.message # m}
      /\ mixed' = {k \in mixed : ~(k.message = m /\ \A r \in Requests :
                                     req[r].pc \in Working => req[r].key # k)}
      /\ reactions' = reactions /\ req' = req
  BY DEF LoadReactions, ReactionsTo
<1> SUFFICES ASSUME NEW k \in Keys \ mixed'
             PROVE  KeyOK(reactions, view', unsaid', req, k)
  BY <1>1 DEF ReactInv
<1>2. k \notin mixed => KeyOK(reactions, view, unsaid, req, k)
  BY DEF ReactInv
<1>3. \A r \in Requests : req[r].pc \in Working /\ req[r].key = k => Right(reactions, req[r])
  BY <1>1, <1>2 DEF KeyOK
<1>4. CASE k.message = m
  <2>1. k \in view' <=> k \in reactions
    BY <1>1, <1>4 DEF GetMessageReactions
  <2> QED
    BY <1>3, <2>1 DEF KeyOK
<1>5. CASE k.message # m
  <2>1. k \notin mixed /\ (k \in view' <=> k \in view) /\ (k \in unsaid' <=> k \in unsaid)
    BY <1>1, <1>5 DEF GetMessageReactions
  <2> QED
    BY <1>2, <1>3, <2>1 DEF KeyOK
<1> QED
  BY <1>4, <1>5

LEMMA ReactNext ==
    ASSUME TypeOK, ReactInv, [Next]_cvars
    PROVE  ReactInv'
<1>1. ASSUME UNCHANGED <<reactionVars, req>>
      PROVE  ReactInv'
  BY <1>1 DEF ReactInv, reactionVars
<1>2. ASSUME NEW r \in Requests, UNCHANGED reactionVars,
             Moves(r, {}) \/ Moves(r, ChannelPhases) \/ Moves(r, TimelinePhases),
             req[r].pc \notin {"added", "removed"}
      PROVE  ReactInv'
  <2>1. req'[r].pc \notin Working
    BY <1>2 DEF Moves, ChannelPhases, TimelinePhases, Working
  <2> QED
    BY <1>2, <2>1, ReactStays DEF Moves
<1>3. \A r \in Requests : ChannelStep(r) => req[r].pc \notin {"added", "removed"}
  BY DEF ChannelStep, CreateChannel, InsertChannel, UpdateChannel, StoreChannel, DeleteChannel,
         CloseChannel, ReorderChannels, CheckListed, MoveListed, At
<1>4. \A r \in Requests : TimelineStep(r) => req[r].pc \notin {"added", "removed"}
  BY DEF TimelineStep, SendMessage, InsertMessage, CommitMessage, ListMessages, FetchPage,
         MarkChannelAsRead, StoreReadState, At
<1>5. \A r \in Requests : ChangeMembership(r) \/ Refused(r) => req[r].pc \notin {"added", "removed"}
  BY DEF ChangeMembership, Refused, At
<1> QED
  BY <1>1, <1>2, <1>3, <1>4, <1>5, ReactStep, ReactLoad, Steps DEF cvars

LEMMA ReactionsTold ==
    ASSUME TypeOK, ReactInv
    PROVE  ReactionsAgree
<1>1. ReactionsShown
  <2> SUFFICES ASSUME NEW k \in Keys \ (unsaid \cup mixed),
                      \A r \in Requests : req[r].pc \in Working => req[r].key # k
               PROVE  k \in view <=> k \in reactions
    BY DEF ReactionsShown
  <2>1. \A r \in Requests : ~Wrote(req[r], k)
    BY DEF Wrote, Working
  <2> QED
    BY <2>1 DEF ReactInv, KeyOK
<1>2. ToggleFlips
  <2> SUFFICES ASSUME NEW r \in Requests, req[r].pc \in {"add", "remove"}, req[r].toggle,
                      req[r].key \notin mixed
               PROVE  At(r, "remove") <=> req[r].key \in reactions
    BY DEF ToggleFlips
  <2>1. req[r].pc \in Working /\ req[r].key \in Keys
    BY Fields DEF Working, ReactionRequest
  <2> QED
    BY <2>1 DEF ReactInv, KeyOK, Right, At
<1> QED
  BY <1>1, <1>2 DEF ReactionsAgree
--------------------------------------------------------------------------------
(* The theorems. *)

IInv == TypeOK /\ OrderInv /\ CommitInv /\ ReadInv /\ PageInv /\ ReactInv

LEMMA Invariant == Spec => []IInv
<1>1. Init => IInv
  BY InitTypes, OrderInit, CommitInit, ReadInit, PageInit, ReactInit DEF IInv
<1>2. IInv /\ [Next]_cvars => IInv'
  BY NextTypes, OrderNext, CommitNext, ReadNext, PageNext, ReactNext DEF IInv
<1> QED
  BY <1>1, <1>2, PTL DEF Spec

\* Every row and every request keeps its type: that a message is committed by the one
\* request that inserted it is what its state needs (messages/service.go:166).
THEOREM TypeCorrect == Spec => []TypeOK
<1>1. IInv => TypeOK
  BY DEF IInv
<1> QED
  BY <1>1, Invariant, PTL

\* The types, and what clients see of reactions (messages/reactions.go:99, 227).
THEOREM InvHolds == Spec => []Inv
<1>1. IInv => Inv
  BY ReactionsTold DEF IInv, Inv
<1> QED
  BY <1>1, Invariant, PTL

\* The order a space was last given is the order its channels are listed in, unless two
\* reorderings ran at once or one stopped half-way (channels/service.go:196-217).
THEOREM ReorderAppliedHolds == Spec => []ReorderApplied
<1>1. IInv => ReorderApplied
  BY OrderApplied DEF IInv
<1> QED
  BY <1>1, Invariant, PTL

\* Only a request for its own space moves a channel (channels/service.go:206).
THEOREM MovedByItsSpaceHolds == Spec => MovedByItsSpace
<1> DEFINE Moved == \A c \in Ids :
                       channels'[c].position # channels[c].position =>
                          \E r \in Requests : At(r, "move") /\ req[r].space = channels[c].space
<1>1. IInv /\ [Next]_cvars => [Moved]_channels
  BY OnlyItsSpaceMoves DEF IInv
<1>2. MovedByItsSpace <=> [][Moved]_channels
  BY PTL DEF MovedByItsSpace
<1> QED
  BY <1>1, <1>2, Invariant, PTL DEF Spec

\* A message created after the user last had the space marked as read is counted as unread
\* (messages/readstate.go:77).
THEOREM UnreadAfterMarkHolds == Spec => []UnreadAfterMark
<1>1. IInv => UnreadAfterMark
  BY MarksHide DEF IInv
<1> QED
  BY <1>1, Invariant, PTL

\* Paging to the beginning of a channel shows every message once, newest first, whatever
\* is sent or deleted between two pages (messages/service.go:413-499).
THEOREM PagesCompleteHolds == Spec => []PagesComplete
<1>1. IInv => PagesComplete
  BY PagesHaveAll DEF IInv
<1> QED
  BY <1>1, Invariant, PTL
================================================================================
