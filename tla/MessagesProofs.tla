----------------------------- MODULE MessagesProofs -----------------------------
(***************************************************************************)
(* Theorems about Messages for every number of messages, texts and         *)
(* requests at once.                                                       *)
(***************************************************************************)
EXTENDS Messages, FiniteSetTheorems, SequenceTheorems, TLAPS

\* A message a thread may be below: it is at the top, and marked unless it was
\* deleted first or a write failed.
Rooted(t, table, missing) ==
    /\ table[t].thread = None
    /\ table[t].root \/ table[t].deleted \/ t \in missing

\* What a request needs in its next steps.
RequestOK(q, table, missing) ==
    /\ q \in Request
    /\ q.msg \in DOMAIN table \cup {None} /\ q.thread \in DOMAIN table \cup {None}
    /\ q.pc = "idle" => q = NoRequest
    /\ q.pc \in {"mark", "count", "uncount"} => q.thread # None
    /\ q.pc \in {"mark", "count", "create"} => q.msg = None
    /\ q.pc \in {"announce", "remove", "uncount", "retract"} => q.msg # None
    /\ q.pc = "announce" /\ q.msg = First => q.new \in Texts
    /\ q.pc \in {"save", "write", "revise"} =>
           q.msg = First /\ q.old \in Texts /\ q.new \in Texts
    /\ q.pc = "remove" => q.thread = table[q.msg].thread
    /\ q.thread # None =>
           table[q.thread].thread = None /\ (q.pc # "mark" => Rooted(q.thread, table, missing))

\* The parts of the inductive invariant.
TableOK == messages \in Seq(Message)
SpaceLeft == Len(messages) + Cardinality(Sending) <= MaxMessages
RequestsOK == req \in [Requests -> Request] /\ \A r \in Requests : RequestOK(req[r], messages, drift)
TextOK ==
    /\ text \in Texts \cup {NoText} /\ shown \in Texts \cup {NoText}
    /\ edits \subseteq Texts /\ had \subseteq Texts
    /\ missed \in BOOLEAN /\ unsure \in BOOLEAN
    /\ messages # <<>> => text \in Texts
ThreadsOK ==
    /\ drift \subseteq DOMAIN messages
    /\ \A m \in DOMAIN messages : messages[m].thread # None =>
           messages[m].thread \in DOMAIN messages /\ Rooted(messages[m].thread, messages, drift)

IInv == TableOK /\ SpaceLeft /\ RequestsOK /\ TextOK /\ ThreadsOK

LEMMA RequestNow ==
    ASSUME IInv, NEW r \in Requests
    PROVE  RequestOK(req[r], messages, drift) /\ req[r] \in Request
BY DEF IInv, RequestsOK

LEMMA Table ==
    ASSUME TableOK
    PROVE  /\ Len(messages) \in Nat /\ DOMAIN messages = 1..Len(messages)
           /\ \A m \in DOMAIN messages : messages[m] \in Message
BY LenProperties DEF TableOK

LEMMA SendingFinite ==
    /\ Sending \subseteq Requests /\ Sending' \subseteq Requests
    /\ IsFiniteSet(Sending) /\ IsFiniteSet(Sending')
    /\ Cardinality(Sending) \in Nat /\ Cardinality(Sending') \in Nat
BY MessagesAssumption, FS_Subset, FS_CardinalityType DEF Sending

LEMMA IdsInTable ==
    ASSUME TableOK, SpaceLeft
    PROVE  DOMAIN messages \subseteq Ids /\ None \notin Ids /\ Len(messages) <= MaxMessages
BY Table, SendingFinite, MessagesAssumption DEF SpaceLeft, Ids, None

LEMMA InvOfIInv == IInv => Inv
<1> SUFFICES ASSUME IInv PROVE Inv
  OBVIOUS
<1>1. TypeOK
  BY IdsInTable DEF IInv, TypeOK, TableOK, RequestsOK, RequestOK, TextOK, ThreadsOK
<1>2. FlatThreads
  BY DEF IInv, ThreadsOK, FlatThreads, Rooted
<1>. QED  BY <1>1, <1>2 DEF Inv
--------------------------------------------------------------------------------
(***************************************************************************)
(* What the queries do to the table: a row keeps its thread, is not        *)
(* unmarked and does not come back, and one row may be added.              *)
(***************************************************************************)
Rewritten(m, row) ==
    /\ messages' = [messages EXCEPT ![m] = row]
    /\ row \in Message /\ row.thread = messages[m].thread
    /\ messages[m].root => row.root
    /\ messages[m].deleted => row.deleted

Row(thread) == [thread |-> thread, root |-> FALSE, replies |-> 0, deleted |-> FALSE]

Kept ==
    /\ messages' \in Seq(Message)
    /\ DOMAIN messages \subseteq DOMAIN messages'
    /\ \A m \in DOMAIN messages :
         /\ messages'[m].thread = messages[m].thread
         /\ messages[m].root => messages'[m].root
         /\ messages[m].deleted => messages'[m].deleted

LEMMA RewriteKeeps ==
    ASSUME TableOK, NEW m \in DOMAIN messages, NEW row, Rewritten(m, row)
    PROVE  /\ Kept
           /\ Len(messages') = Len(messages) /\ DOMAIN messages' = DOMAIN messages
           /\ \A i \in DOMAIN messages : messages'[i] = IF i = m THEN row ELSE messages[i]
<1>1. messages \in Seq(Message) /\ m \in 1..Len(messages) /\ row \in Message
  BY Table DEF TableOK, Rewritten
<1>2. /\ messages' \in Seq(Message)
      /\ Len(messages') = Len(messages)
      /\ \A i \in 1..Len(messages) : messages'[i] = IF i = m THEN row ELSE messages[i]
  BY <1>1, ExceptSeq DEF Rewritten
<1>3. DOMAIN messages' = DOMAIN messages
  BY <1>1, <1>2, LenProperties
<1>. QED  BY <1>2, <1>3, Table DEF Kept, Rewritten

LEMMA AppendKeeps ==
    ASSUME TableOK, NEW t \in Ids \cup {None}, messages' = WithMessage(t)
    PROVE  /\ Kept
           /\ Len(messages') = Len(messages) + 1
           /\ DOMAIN messages' = DOMAIN messages \cup {Len(messages) + 1}
           /\ \A i \in DOMAIN messages : messages'[i] = messages[i]
           /\ messages'[Len(messages) + 1] = Row(t)
<1>1. Row(t) \in Message
  BY DEF Row, Message
<1>2. /\ messages' \in Seq(Message)
      /\ Len(messages') = Len(messages) + 1
      /\ \A i \in 1..Len(messages) : messages'[i] = messages[i]
      /\ messages'[Len(messages) + 1] = Row(t)
  BY <1>1 DEF TableOK, WithMessage, Row
<1>3. DOMAIN messages' = 1..(Len(messages) + 1)
  BY <1>2, LenProperties
<1>4. DOMAIN messages' = DOMAIN messages \cup {Len(messages) + 1}
  BY <1>3, Table
<1>. QED  BY <1>2, <1>4, Table DEF Kept

LEMMA RootRewrites ==
    ASSUME TableOK, NEW m \in DOMAIN messages, messages' = WithRoot(m)
    PROVE  \E row : Rewritten(m, row) /\ row = [messages[m] EXCEPT !.root = row.root]
                    /\ (row.root \/ row.deleted)
<1>1. messages[m] \in Message
  BY Table
<1>2. CASE Live(m)
  <2>1. Rewritten(m, [messages[m] EXCEPT !.root = TRUE])
    BY <1>1, <1>2 DEF WithRoot, Rewritten, Message
  <2>. QED  BY <1>1, <2>1 DEF Message
<1>3. CASE ~Live(m)
  <2>1. messages' = messages /\ messages[m].deleted
    BY <1>3 DEF WithRoot, Live
  <2>2. messages = [messages EXCEPT ![m] = messages[m]]
    BY LenProperties DEF TableOK
  <2>3. Rewritten(m, messages[m])
    BY <1>1, <2>1, <2>2 DEF Rewritten
  <2>. QED  BY <1>1, <2>1, <2>3 DEF Message
<1>. QED  BY <1>2, <1>3

LEMMA OthersRewrite ==
    ASSUME TableOK, NEW m \in DOMAIN messages
    PROVE  /\ messages' = WithReplyMore(m) =>
                Rewritten(m, [messages[m] EXCEPT !.replies = messages[m].replies + 1])
           /\ messages' = WithReplyLess(m) =>
                Rewritten(m, [messages[m] EXCEPT !.replies =
                                IF messages[m].replies > 0 THEN messages[m].replies - 1 ELSE 0])
           /\ messages' = WithDeletion(m) =>
                Rewritten(m, [messages[m] EXCEPT !.deleted = TRUE])
<1>1. messages[m] \in Message
  BY Table
<1>2. messages[m].replies \in Nat
  BY <1>1 DEF Message
<1>3. ASSUME messages' = WithReplyMore(m)
      PROVE  Rewritten(m, [messages[m] EXCEPT !.replies = messages[m].replies + 1])
  <2>1. [messages[m] EXCEPT !.replies = messages[m].replies + 1] \in Message
    BY <1>1, <1>2 DEF Message
  <2>. QED  BY <1>1, <1>3, <2>1 DEF WithReplyMore, Rewritten, Message
<1>4. ASSUME messages' = WithReplyLess(m)
      PROVE  Rewritten(m, [messages[m] EXCEPT !.replies =
                             IF messages[m].replies > 0 THEN messages[m].replies - 1 ELSE 0])
  <2>1. (IF messages[m].replies > 0 THEN messages[m].replies - 1 ELSE 0) \in Nat
    BY <1>2
  <2>. QED  BY <1>1, <1>4, <2>1 DEF WithReplyLess, Rewritten, Message
<1>5. ASSUME messages' = WithDeletion(m)
      PROVE  Rewritten(m, [messages[m] EXCEPT !.deleted = TRUE])
  BY <1>1, <1>5 DEF WithDeletion, Rewritten, Message
<1>. QED  BY <1>3, <1>4, <1>5

\* A step changes nothing in the table, one row of it, or adds one.
Rewrites == \E m \in DOMAIN messages : \E row : Rewritten(m, row)
Appends(r) == CreateMessage(r) /\ ~Finish(r) /\ messages' = WithMessage(req[r].thread)

LEMMA TableSteps ==
    ASSUME IInv, NEW r \in Requests, RequestStep(r)
    PROVE  messages' = messages \/ Rewrites \/ Appends(r)
<1> USE DEF At
<1>0. RequestOK(req[r], messages, drift) /\ TableOK
  BY RequestNow DEF IInv
<1>1. CASE MarkAsThreadRoot(r)
  <2>1. req[r].thread \in DOMAIN messages
    BY <1>0, <1>1 DEF MarkAsThreadRoot, RequestOK
  <2>2. messages' = WithRoot(req[r].thread) => Rewrites
    BY <1>0, <2>1, RootRewrites DEF Rewrites
  <2>. QED  BY <1>1, <2>2 DEF MarkAsThreadRoot
<1>2. CASE IncrementReplyCount(r)
  BY <1>0, <1>2, OthersRewrite DEF IncrementReplyCount, RequestOK, Rewrites
<1>3. CASE CreateMessage(r)
  BY <1>0, <1>3 DEF CreateMessage, Appends, Finish, NoRequest, IInv, RequestsOK, Request
<1>4. CASE SoftDeleteMessage(r)
  BY <1>0, <1>4, OthersRewrite DEF SoftDeleteMessage, RequestOK, Rewrites
<1>5. CASE DecrementReplyCount(r)
  BY <1>0, <1>5, OthersRewrite DEF DecrementReplyCount, RequestOK, Rewrites
<1>6. CASE \/ SendMessage(r) \/ PublishMessage(r) \/ PublishMessageDelete(r)
           \/ \E m \in DOMAIN messages : DeleteMessage(r, m)
           \/ \E t \in Texts : EditMessage(r, t)
           \/ CreateMessageEdit(r) \/ UpdateMessageContent(r) \/ PublishMessageUpdate(r)
  BY <1>6 DEF SendMessage, PublishMessage, DeleteMessage, PublishMessageDelete, EditMessage,
              CreateMessageEdit, UpdateMessageContent, PublishMessageUpdate
<1>. QED  BY <1>1, <1>2, <1>3, <1>4, <1>5, <1>6 DEF RequestStep

LEMMA SameLength ==
    ASSUME TableOK, messages' = messages \/ Rewrites
    PROVE  Kept /\ Len(messages') = Len(messages) /\ DOMAIN messages' = DOMAIN messages
<1>1. CASE messages' = messages
  BY <1>1 DEF Kept, TableOK
<1>2. CASE Rewrites
  BY <1>2, RewriteKeeps DEF Rewrites
<1>. QED  BY <1>1, <1>2

LEMMA AppendsOne ==
    ASSUME IInv, NEW r \in Requests, Appends(r)
    PROVE  /\ Kept
           /\ Len(messages') = Len(messages) + 1
           /\ DOMAIN messages' = DOMAIN messages \cup {Len(messages) + 1}
           /\ \A i \in DOMAIN messages : messages'[i] = messages[i]
           /\ messages'[Len(messages) + 1] = Row(req[r].thread)
<1>1. TableOK /\ req[r].thread \in Ids \cup {None}
  BY RequestNow DEF IInv, Request
<1>. QED  BY <1>1, AppendKeeps DEF Appends

LEMMA StepKeeps ==
    ASSUME IInv, [Next]_vars
    PROVE  Kept /\ drift \subseteq drift'
<1>1. ASSUME NEW r \in Requests, RequestStep(r)
      PROVE  drift \subseteq drift'
  BY <1>1 DEF RequestStep, SendMessage, MarkAsThreadRoot, IncrementReplyCount, CreateMessage,
              PublishMessage, DeleteMessage, SoftDeleteMessage, DecrementReplyCount,
              PublishMessageDelete, EditMessage, CreateMessageEdit, UpdateMessageContent,
              PublishMessageUpdate
<1>2. CASE ListMessages \/ UNCHANGED vars
  BY <1>2, SameLength DEF ListMessages, vars, IInv
<1>. QED  BY <1>1, <1>2, TableSteps, SameLength, AppendsOne DEF Next, IInv

LEMMA RootedStays ==
    ASSUME Kept, drift \subseteq drift', NEW t \in DOMAIN messages, Rooted(t, messages, drift)
    PROVE  Rooted(t, messages', drift')
BY DEF Kept, Rooted

LEMMA RequestStays ==
    ASSUME Kept, drift \subseteq drift', NEW q, RequestOK(q, messages, drift)
    PROVE  RequestOK(q, messages', drift')
<1>1. q.thread # None => messages'[q.thread].thread = messages[q.thread].thread
                         /\ (Rooted(q.thread, messages, drift) => Rooted(q.thread, messages', drift'))
  BY RootedStays DEF RequestOK, Kept
<1>2. q.pc = "remove" => messages'[q.msg].thread = messages[q.msg].thread
  BY DEF RequestOK, Kept
<1>. QED  BY <1>1, <1>2 DEF RequestOK, Kept
--------------------------------------------------------------------------------
(***************************************************************************)
(* A step changes one request at most, and leaves it what it needs.        *)
(***************************************************************************)
StepOf(r) == \E q : RequestOK(q, messages', drift') /\ req' = [req EXCEPT ![r] = q]

LEMMA IdleOK == RequestOK(NoRequest, messages', drift')
BY DEF RequestOK, NoRequest, Request, Phases, None

LEMMA FinishOK ==
    ASSUME NEW r \in Requests, Finish(r)
    PROVE  StepOf(r)
BY IdleOK DEF Finish, StepOf

LEMMA GotoOK ==
    ASSUME NEW r \in Requests, NEW phase, Goto(r, phase), RequestOK([req[r] EXCEPT !.pc = phase], messages', drift')
    PROVE  StepOf(r)
BY DEF Goto, StepOf

\* Where a reply goes.
LEMMA ThreadOfRooted ==
    ASSUME IInv, NEW p \in DOMAIN messages
    PROVE  /\ ThreadOf(p) \in DOMAIN messages /\ messages[ThreadOf(p)].thread = None
           /\ Rooted(ThreadOf(p), messages, drift) \/ (messages[p].thread = None /\ ~messages[p].root)
BY DEF IInv, ThreadsOK, ThreadOf, Rooted

LEMMA SendSteps ==
    ASSUME IInv, Kept, NEW r \in Requests, SendMessage(r)
    PROVE  StepOf(r)
<1>0. /\ req[r] = NoRequest /\ drift' = drift /\ messages' = messages
      /\ DOMAIN messages \subseteq Ids /\ None \notin DOMAIN messages
  BY RequestNow, IdsInTable DEF SendMessage, At, RequestOK, IInv
<1>1. CASE Goto(r, "create")
  <2>1. RequestOK([req[r] EXCEPT !.pc = "create"], messages', drift')
    BY <1>0 DEF RequestOK, NoRequest, Request, Phases
  <2>. QED  BY <1>1, <2>1, GotoOK
<1>2. ASSUME NEW p \in DOMAIN messages,
             req' = [req EXCEPT ![r] =
                 [NoRequest EXCEPT !.thread = ThreadOf(p),
                                   !.pc = IF messages[p].thread = None /\ ~messages[p].root
                                          THEN "mark" ELSE "count"]]
      PROVE  StepOf(r)
  <2> DEFINE q == [NoRequest EXCEPT !.thread = ThreadOf(p),
                                   !.pc = IF messages[p].thread = None /\ ~messages[p].root
                                          THEN "mark" ELSE "count"]
  <2>1. /\ q \in Request /\ q.msg = None /\ q.thread = ThreadOf(p)
        /\ q.pc = IF messages[p].thread = None /\ ~messages[p].root THEN "mark" ELSE "count"
    BY <1>0, ThreadOfRooted DEF NoRequest, Request, Phases
  <2>2. RequestOK(q, messages, drift)
    BY <1>0, <2>1, ThreadOfRooted DEF RequestOK
  <2>3. RequestOK(q, messages', drift')
    BY <1>0, <2>2, RequestStays
  <2>. QED  BY <1>2, <2>3 DEF StepOf
<1>. QED  BY <1>1, <1>2 DEF SendMessage

LEMMA MarkSteps ==
    ASSUME IInv, Kept, drift \subseteq drift', NEW r \in Requests, MarkAsThreadRoot(r)
    PROVE  StepOf(r)
<1> DEFINE m == req[r].thread
<1>0. /\ RequestOK(req[r], messages, drift) /\ RequestOK(req[r], messages', drift') /\ req[r].pc = "mark"
      /\ m \in DOMAIN messages /\ m # None /\ TableOK
  BY RequestNow, RequestStays DEF MarkAsThreadRoot, At, RequestOK, IInv
<1>1. Rooted(m, messages', drift')
  <2>1. CASE messages' = WithRoot(m)
    <3>1. PICK row : Rewritten(m, row) /\ (row.root \/ row.deleted)
      BY <1>0, <2>1, RootRewrites
    <3>. QED  BY <1>0, <3>1, RewriteKeeps DEF Rooted, RequestOK, Rewritten
  <2>2. CASE drift' = drift \cup {m} /\ UNCHANGED messages
    BY <1>0, <2>2 DEF Rooted, RequestOK
  <2>. QED  BY <2>1, <2>2 DEF MarkAsThreadRoot
<1>2. RequestOK([req[r] EXCEPT !.pc = "count"], messages', drift')
  BY <1>0, <1>1 DEF RequestOK, Request, Phases
<1>. QED  BY <1>2, GotoOK DEF MarkAsThreadRoot

LEMMA CreateSteps ==
    ASSUME IInv, Kept, drift \subseteq drift', NEW r \in Requests, CreateMessage(r)
    PROVE  StepOf(r)
<1>0. /\ RequestOK(req[r], messages, drift) /\ RequestOK(req[r], messages', drift') /\ req[r].pc = "create" /\ TableOK
      /\ Len(messages) \in Nat
  BY RequestNow, RequestStays, Table DEF CreateMessage, At, RequestOK, IInv
<1>1. CASE Finish(r)
  BY <1>1, FinishOK
<1>2. CASE ~Finish(r)
  <2> DEFINE m == Len(messages) + 1
             q == [req[r] EXCEPT !.pc = "announce", !.msg = m,
                                 !.new = IF m = First THEN text' ELSE NoText]
  <2>1. /\ messages' = WithMessage(req[r].thread)
        /\ req' = [req EXCEPT ![r] = q]
        /\ m = First => text' \in Texts
    BY <1>2 DEF CreateMessage
  <2>2. m \in DOMAIN messages' /\ req[r].thread \in Ids \cup {None}
    BY <1>0, <2>1, AppendKeeps DEF RequestOK, Request
  <2>3. m \in Ids /\ m # None
    <3>1. r \in Sending
      BY <1>0 DEF Sending
    <3>2. Cardinality(Sending) >= 1
      BY <3>1, SendingFinite, FS_EmptySet
    <3>. QED  BY <1>0, <3>2, SendingFinite, MessagesAssumption DEF IInv, SpaceLeft, Ids, None
  <2>4. q \in Request /\ q.pc = "announce" /\ q.msg = m /\ q.thread = req[r].thread
        /\ (m = First => q.new \in Texts)
    BY <1>0, <2>1, <2>3 DEF RequestOK, Request, Phases
  <2>5. RequestOK(q, messages', drift')
    BY <1>0, <2>2, <2>3, <2>4 DEF RequestOK
  <2>. QED  BY <2>1, <2>5 DEF StepOf
<1>. QED  BY <1>1, <1>2

LEMMA DeleteSteps ==
    ASSUME IInv, Kept, NEW r \in Requests, NEW m \in DOMAIN messages, DeleteMessage(r, m)
    PROVE  StepOf(r)
<1> DEFINE q == [NoRequest EXCEPT !.pc = "remove", !.msg = m, !.thread = messages[m].thread]
<1>0. /\ drift' = drift /\ messages' = messages /\ TableOK /\ m \in Ids /\ m # None
      /\ messages[m].thread \in Ids \cup {None}
      /\ messages[m].thread \in DOMAIN messages \cup {None}
  BY IdsInTable, Table DEF DeleteMessage, IInv, ThreadsOK, Message
<1>1. /\ q \in Request /\ q.pc = "remove" /\ q.msg = m /\ q.thread = messages[m].thread
  BY <1>0 DEF NoRequest, Request, Phases
<1>2. RequestOK(q, messages, drift)
  BY <1>0, <1>1 DEF RequestOK, IInv, ThreadsOK, Rooted
<1>3. RequestOK(q, messages', drift')
  BY <1>0, <1>2, RequestStays
<1>. QED  BY <1>3 DEF DeleteMessage, StepOf

LEMMA EditSteps ==
    ASSUME IInv, Kept, NEW r \in Requests, NEW t \in Texts, EditMessage(r, t)
    PROVE  StepOf(r)
<1> DEFINE q == [NoRequest EXCEPT !.pc = "save", !.msg = First, !.old = text, !.new = t]
<1>0. /\ drift' = drift /\ messages' = messages /\ First \in DOMAIN messages /\ First \in Ids
      /\ text \in Texts
  <2>1. First \in DOMAIN messages /\ drift' = drift /\ messages' = messages
    BY DEF EditMessage, Live
  <2>2. messages # <<>> /\ First \in Ids
    BY <2>1, IdsInTable, EmptySeq, Table DEF IInv
  <2>. QED  BY <2>1, <2>2 DEF IInv, TextOK
<1>1. /\ q \in Request /\ q.pc = "save" /\ q.msg = First /\ q.thread = None
      /\ q.old = text /\ q.new = t
  BY <1>0 DEF NoRequest, Request, Phases, None
<1>2. RequestOK(q, messages, drift)
  BY <1>0, <1>1 DEF RequestOK
<1>3. RequestOK(q, messages', drift')
  BY <1>0, <1>2, RequestStays
<1>. QED  BY <1>3 DEF EditMessage, StepOf

LEMMA StepsOf ==
    ASSUME IInv, Kept, drift \subseteq drift', NEW r \in Requests, RequestStep(r)
    PROVE  StepOf(r)
<1> USE DEF At
<1>0. RequestOK(req[r], messages', drift')
  BY RequestNow, RequestStays
<1>a. ASSUME NEW phase \in {"create", "uncount", "retract", "write", "revise"},
             phase \in {"uncount", "retract"} => req[r].msg # None,
             phase = "create" => req[r].msg = None,
             phase = "uncount" => req[r].thread # None,
             phase \in {"write", "revise"} =>
                 req[r].msg = First /\ req[r].old \in Texts /\ req[r].new \in Texts,
             req[r].pc # "mark"
      PROVE  RequestOK([req[r] EXCEPT !.pc = phase], messages', drift')
  BY <1>0, <1>a DEF RequestOK, Request, Phases
<1>1. CASE IncrementReplyCount(r)
  BY <1>0, <1>1, <1>a, GotoOK DEF IncrementReplyCount, RequestOK
<1>2. CASE SoftDeleteMessage(r)
  BY <1>0, <1>2, <1>a, GotoOK, FinishOK DEF SoftDeleteMessage, RequestOK
<1>3. CASE DecrementReplyCount(r)
  BY <1>0, <1>3, <1>a, GotoOK DEF DecrementReplyCount, RequestOK
<1>4. CASE CreateMessageEdit(r)
  BY <1>0, <1>4, <1>a, GotoOK DEF CreateMessageEdit, RequestOK
<1>5. CASE UpdateMessageContent(r)
  BY <1>0, <1>5, <1>a, GotoOK, FinishOK DEF UpdateMessageContent, RequestOK
<1>6. CASE PublishMessage(r) \/ PublishMessageDelete(r) \/ PublishMessageUpdate(r)
  BY <1>6, FinishOK DEF PublishMessage, PublishMessageDelete, PublishMessageUpdate
<1>. QED  BY <1>1, <1>2, <1>3, <1>4, <1>5, <1>6, SendSteps, MarkSteps, CreateSteps,
             DeleteSteps, EditSteps DEF RequestStep

LEMMA OneRequest ==
    ASSUME IInv, Kept, drift \subseteq drift', NEW r \in Requests, StepOf(r)
    PROVE  RequestsOK'
<1>1. PICK q : RequestOK(q, messages', drift') /\ req' = [req EXCEPT ![r] = q]
  BY DEF StepOf
<1>2. q \in Request
  BY <1>1 DEF RequestOK
<1>3. \A x \in Requests : RequestOK(req[x], messages', drift')
  BY RequestNow, RequestStays
<1>4. ASSUME NEW x \in Requests
      PROVE  RequestOK(req'[x], messages', drift')
  BY <1>1, <1>3 DEF IInv, RequestsOK
<1>. QED  BY <1>1, <1>2, <1>4 DEF IInv, RequestsOK
--------------------------------------------------------------------------------
(***************************************************************************)
(* The rest of the invariant.  A request keeps the place it took until its *)
(* message is there.                                                       *)
(***************************************************************************)
LEMMA SameSpace ==
    ASSUME TableOK, SpaceLeft, Len(messages') = Len(messages), Sending' \subseteq Sending
    PROVE  SpaceLeft'
<1>1. Cardinality(Sending') <= Cardinality(Sending)
  BY SendingFinite, FS_Subset
<1>. QED  BY <1>1, SendingFinite, Table, MessagesAssumption DEF SpaceLeft

LEMMA SendEffect ==
    ASSUME IInv, NEW r \in Requests, SendMessage(r)
    PROVE  /\ UNCHANGED <<messages, text, edits, had, missed, shown, unsure, drift>>
           /\ req[r].pc = "idle" /\ req[r].msg = None
           /\ req'[r].pc \in {"mark", "count", "create"} /\ req'[r].msg = None
           /\ req'[r].pc = "create" => req'[r].thread = None
           /\ \A x \in Requests : x # r => req'[x] = req[x]
<1>0. req \in [Requests -> Request] /\ req[r] = NoRequest
  BY RequestNow DEF IInv, RequestsOK, SendMessage, At, RequestOK
<1>1. UNCHANGED <<messages, text, edits, had, missed, shown, unsure, drift>>
  BY DEF SendMessage, first, client
<1>2. CASE Goto(r, "create")
  BY <1>0, <1>1, <1>2 DEF Goto, NoRequest
<1>3. CASE ~Goto(r, "create")
  <2>1. PICK p \in DOMAIN messages : req' = [req EXCEPT ![r] =
               [NoRequest EXCEPT !.thread = ThreadOf(p),
                                 !.pc = IF messages[p].thread = None /\ ~messages[p].root
                                        THEN "mark" ELSE "count"]]
    BY <1>3 DEF SendMessage
  <2>. QED  BY <1>0, <1>1, <2>1 DEF NoRequest
<1>. QED  BY <1>2, <1>3

LEMMA SpaceStays ==
    ASSUME IInv, [Next]_vars
    PROVE  SpaceLeft'
<1> USE DEF At
<1>0. TableOK /\ SpaceLeft /\ req \in [Requests -> Request]
  BY DEF IInv, RequestsOK
<1>1. ASSUME NEW r \in Requests, RequestStep(r)
      PROVE  SpaceLeft'
  <2>0. RequestOK(req[r], messages, drift)
    BY RequestNow
  <2>1. CASE SendMessage(r)
    <3>1. Len(messages) + Cardinality(Sending) < MaxMessages
      BY <2>1 DEF SendMessage
    <3>2. Sending' = Sending \cup {r} /\ r \notin Sending
      BY <2>1, SendEffect DEF Sending
    <3>3. Cardinality(Sending') = Cardinality(Sending) + 1
      BY <3>2, SendingFinite, FS_AddElement
    <3>. QED  BY <1>0, <2>1, <3>1, <3>3, SendEffect, SendingFinite, Table, MessagesAssumption DEF SpaceLeft
  <2>2. CASE Appends(r)
    <3>1. r \in Sending /\ Sending' = Sending \ {r}
      BY <1>0, <2>2 DEF Appends, CreateMessage, Sending, Request
    <3>2. Cardinality(Sending') = Cardinality(Sending) - 1
      BY <3>1, SendingFinite, FS_RemoveElement
    <3>3. Len(messages') = Len(messages) + 1
      BY <2>2, AppendsOne
    <3>. QED  BY <1>0, <3>2, <3>3, SendingFinite, Table DEF SpaceLeft
  <2>3. CASE ~SendMessage(r) /\ ~Appends(r)
    <3>1. Len(messages') = Len(messages)
      BY <1>0, <1>1, <2>3, TableSteps, SameLength
    <3>2. \A x \in Requests : x # r => req'[x] = req[x]
      BY <1>0, <1>1
         DEF RequestStep, SendMessage, MarkAsThreadRoot, IncrementReplyCount, CreateMessage,
             PublishMessage, DeleteMessage, SoftDeleteMessage, DecrementReplyCount,
             PublishMessageDelete, EditMessage, CreateMessageEdit, UpdateMessageContent,
             PublishMessageUpdate, Goto, Finish
    <3>3. r \in Sending' => r \in Sending
      <4>1. CASE MarkAsThreadRoot(r) \/ IncrementReplyCount(r) \/ CreateMessage(r)
        BY <4>1 DEF MarkAsThreadRoot, IncrementReplyCount, CreateMessage, Sending
      <4>2. CASE \/ PublishMessage(r) \/ PublishMessageDelete(r) \/ SoftDeleteMessage(r)
                 \/ DecrementReplyCount(r) \/ CreateMessageEdit(r) \/ UpdateMessageContent(r)
                 \/ PublishMessageUpdate(r)
        BY <1>0, <4>2
           DEF PublishMessage, PublishMessageDelete, SoftDeleteMessage, DecrementReplyCount,
               CreateMessageEdit, UpdateMessageContent, PublishMessageUpdate, Sending, Goto,
               Finish, NoRequest, Request
      <4>3. CASE \/ \E m \in DOMAIN messages : DeleteMessage(r, m)
                 \/ \E t \in Texts : EditMessage(r, t)
        <5>1. req'[r].pc \in {"remove", "save"}
          BY <1>0, <4>3 DEF DeleteMessage, EditMessage, NoRequest
        <5>. QED  BY <5>1 DEF Sending
      <4>. QED  BY <1>1, <2>3, <4>1, <4>2, <4>3 DEF RequestStep
    <3>4. Sending' \subseteq Sending
      BY <3>2, <3>3 DEF Sending
    <3>. QED  BY <1>0, <3>1, <3>4, SameSpace
  <2>. QED  BY <2>1, <2>2, <2>3
<1>2. CASE ListMessages \/ UNCHANGED vars
  BY <1>0, <1>2, SameSpace DEF ListMessages, vars, Sending
<1>. QED  BY <1>1, <1>2 DEF Next

LEMMA TextStays ==
    ASSUME IInv, [Next]_vars
    PROVE  TextOK'
<1> USE DEF At
<1>0. TableOK /\ TextOK
  BY DEF IInv
<1>1. ASSUME NEW r \in Requests, RequestStep(r)
      PROVE  TextOK'
  <2>0. RequestOK(req[r], messages, drift)
    BY RequestNow
  <2>a. ~Appends(r) => (messages' # <<>> => text \in Texts)
    <3>1. ~Appends(r) => DOMAIN messages' = DOMAIN messages
      BY <1>0, <1>1, TableSteps, SameLength
    <3>2. messages' # <<>> => DOMAIN messages' # {}
      BY <1>1, StepKeeps, EmptySeq, LenProperties DEF Next, Kept
    <3>3. DOMAIN messages # {} => messages # <<>>
      BY <1>0, Table, EmptySeq
    <3>. QED  BY <1>0, <3>1, <3>2, <3>3 DEF TextOK
  <2>1. CASE CreateMessage(r) /\ ~Finish(r)
    <3>1. CASE Len(messages) = 0
      BY <1>0, <2>1, <3>1 DEF CreateMessage, TextOK, First, client
    <3>2. CASE Len(messages) # 0
      <4>1. messages # <<>> /\ Len(messages) + 1 # First
        BY <1>0, <3>2, EmptySeq, Table DEF First
      <4>. QED  BY <1>0, <2>1, <4>1 DEF CreateMessage, TextOK, client
    <3>. QED  BY <3>1, <3>2
  <2>2. CASE CreateMessage(r) /\ Finish(r)
    <3>1. ~(req' = [req EXCEPT ![r].pc = "announce", ![r].msg = Len(messages) + 1,
                               ![r].new = IF Len(messages) + 1 = First THEN text' ELSE NoText])
      BY <2>2 DEF Finish, NoRequest, IInv, RequestsOK, Request
    <3>. QED  BY <1>0, <2>2, <3>1 DEF CreateMessage, TextOK, client
  <2>3. CASE PublishMessage(r)
    BY <1>0, <2>0, <2>3, <2>a DEF PublishMessage, TextOK, RequestOK, first
  <2>4. CASE UpdateMessageContent(r)
    BY <1>0, <2>0, <2>4, <2>a DEF UpdateMessageContent, UpdateContent, TextOK, RequestOK, client
  <2>5. CASE CreateMessageEdit(r)
    BY <1>0, <2>0, <2>5, <2>a DEF CreateMessageEdit, InsertEdit, TextOK, RequestOK, client
  <2>6. CASE PublishMessageUpdate(r) \/ PublishMessageDelete(r)
    BY <1>0, <2>0, <2>6, <2>a
       DEF PublishMessageUpdate, PublishMessageDelete, TextOK, RequestOK, first
  <2>7. CASE \/ \E m \in DOMAIN messages : DeleteMessage(r, m)
             \/ \E t \in Texts : EditMessage(r, t)
    BY <1>0, <2>7, <2>a DEF DeleteMessage, EditMessage, TextOK, first
  <2>8. CASE \/ SendMessage(r) \/ MarkAsThreadRoot(r) \/ IncrementReplyCount(r)
             \/ SoftDeleteMessage(r) \/ DecrementReplyCount(r)
    BY <1>0, <2>0, <2>8, <2>a
       DEF SendMessage, MarkAsThreadRoot, IncrementReplyCount, SoftDeleteMessage,
           DecrementReplyCount, Appends, CreateMessage, TextOK, first, client
  <2>. QED  BY <1>1, <2>1, <2>2, <2>3, <2>4, <2>5, <2>6, <2>7, <2>8 DEF RequestStep
<1>2. CASE ListMessages
  <2>1. Live(First) => text \in Texts
    BY <1>0, EmptySeq, Table DEF Live, TextOK
  <2>. QED  BY <1>0, <1>2, <2>1 DEF ListMessages, TextOK, first
<1>3. CASE UNCHANGED vars
  BY <1>0, <1>3 DEF vars, TextOK
<1>. QED  BY <1>1, <1>2, <1>3 DEF Next

\* Threads stay flat: a reply is written below a root its request had found.
LEMMA ThreadsStay ==
    ASSUME IInv, Kept, drift \subseteq drift', drift' \subseteq DOMAIN messages',
           \/ DOMAIN messages' = DOMAIN messages
           \/ \E r \in Requests : At(r, "create") /\ messages' = WithMessage(req[r].thread)
    PROVE  ThreadsOK'
<1>0. TableOK /\ ThreadsOK
  BY DEF IInv
<1>1. ASSUME NEW m \in DOMAIN messages, messages'[m].thread # None
      PROVE  /\ messages'[m].thread \in DOMAIN messages'
             /\ Rooted(messages'[m].thread, messages', drift')
  BY <1>0, <1>1, RootedStays DEF ThreadsOK, Kept
<1>2. ASSUME NEW m \in DOMAIN messages', m \notin DOMAIN messages, messages'[m].thread # None
      PROVE  /\ messages'[m].thread \in DOMAIN messages'
             /\ Rooted(messages'[m].thread, messages', drift')
  <2>1. PICK r \in Requests : At(r, "create") /\ messages' = WithMessage(req[r].thread)
    BY <1>2
  <2>2. RequestOK(req[r], messages, drift) /\ RequestOK(req[r], messages', drift')
    BY RequestNow, RequestStays
  <2>3. req[r].thread \in Ids \cup {None}
    BY <2>2 DEF RequestOK, Request
  <2>4. m = Len(messages) + 1 /\ messages'[Len(messages) + 1] = Row(req[r].thread)
    BY <1>0, <1>2, <2>1, <2>3, AppendKeeps
  <2>5. messages'[m].thread = req[r].thread
    BY <2>4 DEF Row
  <2>. QED  BY <1>2, <2>1, <2>2, <2>5 DEF RequestOK, At
<1>. QED  BY <1>1, <1>2 DEF ThreadsOK

LEMMA NextKeeps ==
    ASSUME IInv, [Next]_vars
    PROVE  IInv'
<1> USE DEF At
<1>0. TableOK /\ Kept /\ ThreadsOK
  BY StepKeeps DEF IInv
<1>1. ASSUME NEW r \in Requests, RequestStep(r)
      PROVE  /\ drift \subseteq drift' /\ drift' \subseteq DOMAIN messages' /\ RequestsOK'
             /\ \/ DOMAIN messages' = DOMAIN messages
                \/ \E x \in Requests : At(x, "create") /\ messages' = WithMessage(req[x].thread)
  <2>0. RequestOK(req[r], messages, drift)
    BY RequestNow
  <2>1. drift \subseteq drift' /\ drift' \subseteq DOMAIN messages
    BY <1>0, <1>1, <2>0
       DEF RequestStep, SendMessage, MarkAsThreadRoot, IncrementReplyCount, CreateMessage,
           PublishMessage, DeleteMessage, SoftDeleteMessage, DecrementReplyCount,
           PublishMessageDelete, EditMessage, CreateMessageEdit, UpdateMessageContent,
           PublishMessageUpdate, RequestOK, ThreadsOK, Wrong
  <2>2. RequestsOK'
    BY <1>0, <1>1, <2>1, StepsOf, OneRequest
  <2>3. \/ DOMAIN messages' = DOMAIN messages
        \/ At(r, "create") /\ messages' = WithMessage(req[r].thread)
    BY <1>0, <1>1, <2>0, RootRewrites, OthersRewrite, RewriteKeeps
       DEF RequestStep, SendMessage, MarkAsThreadRoot, IncrementReplyCount, CreateMessage,
           PublishMessage, DeleteMessage, SoftDeleteMessage, DecrementReplyCount,
           PublishMessageDelete, EditMessage, CreateMessageEdit, UpdateMessageContent,
           PublishMessageUpdate, RequestOK
  <2>. QED  BY <1>0, <2>1, <2>2, <2>3 DEF Kept
<1>2. CASE ListMessages \/ UNCHANGED vars
  BY <1>0, <1>2, SpaceStays, TextStays
     DEF ListMessages, vars, IInv, TableOK, RequestsOK, ThreadsOK
<1>3. ASSUME NEW r \in Requests, RequestStep(r)
      PROVE  IInv'
  BY <1>0, <1>1, <1>3, ThreadsStay, SpaceStays, TextStays DEF IInv, TableOK, Kept, Next
<1>. QED  BY <1>2, <1>3 DEF Next

LEMMA InitIInv == Init => IInv
<1> SUFFICES ASSUME Init PROVE IInv
  OBVIOUS
<1>1. TableOK /\ DOMAIN messages = {} /\ Len(messages) = 0
  BY EmptySeq, LenProperties DEF Init, TableOK
<1>2. Sending = {}
  BY DEF Init, Sending, NoRequest
<1>3. SpaceLeft
  BY <1>1, <1>2, FS_EmptySet, MessagesAssumption DEF SpaceLeft
<1>4. RequestOK(NoRequest, messages, drift)
  BY DEF RequestOK, NoRequest, Request, Phases, None
<1>. QED  BY <1>1, <1>3, <1>4 DEF Init, IInv, RequestsOK, RequestOK, TextOK, ThreadsOK

LEMMA IInvHolds == Spec => []IInv
<1>1. IInv /\ [Next]_vars => IInv'
  BY NextKeeps
<1>. QED  BY InitIInv, <1>1, PTL DEF Spec

\* The variables keep their types, no reply count falls below zero, and every
\* reply is directly below a message at the top (service.go:144-176, 321-331).
THEOREM InvHolds == Spec => []Inv
<1>. QED  BY InvOfIInv, IInvHolds, PTL
--------------------------------------------------------------------------------
(***************************************************************************)
(* Deletion is final: the update of a content asks for a message that is   *)
(* not deleted, and the first one is created once.                         *)
(***************************************************************************)
LEMMA TextFinal ==
    ASSUME IInv, [Next]_vars, First \in DOMAIN messages, messages[First].deleted
    PROVE  text' = text
<1>1. ASSUME NEW r \in Requests, CreateMessage(r)
      PROVE  text' = text
  <2>1. Len(messages) + 1 # First
    BY Table DEF IInv, First
  <2>. QED  BY <1>1, <2>1 DEF CreateMessage
<1>2. ASSUME NEW r \in Requests, RequestStep(r), ~CreateMessage(r)
      PROVE  text' = text
  BY <1>2 DEF RequestStep, SendMessage, MarkAsThreadRoot, IncrementReplyCount, PublishMessage,
              DeleteMessage, SoftDeleteMessage, DecrementReplyCount, PublishMessageDelete,
              EditMessage, CreateMessageEdit, UpdateMessageContent, PublishMessageUpdate,
              UpdateContent, Live, first
<1>3. CASE ListMessages \/ UNCHANGED vars
  BY <1>3 DEF ListMessages, vars, first
<1>. QED  BY <1>1, <1>2, <1>3 DEF Next

\* A deleted message never changes again, nor comes back, although an edit of it
\* may be under way (service.go:224-276).
THEOREM DeletedIsFinalHolds == Spec => DeletedIsFinal
<1>1. IInv /\ [Next]_vars =>
        [\A m \in DOMAIN messages : messages[m].deleted =>
             messages'[m].deleted /\ (m = First => text' = text)]_vars
  BY StepKeeps, TextFinal DEF Kept
<1>. QED  BY IInvHolds, <1>1, PTL DEF Spec, DeletedIsFinal
--------------------------------------------------------------------------------
(***************************************************************************)
(* The edit history.  While one edit runs, it has read the content that is *)
(* there, and has recorded it before it replaces it.                       *)
(***************************************************************************)
Editing == {r \in Requests : req[r].pc \in {"save", "write"}}
HistoryInv ==
    ~missed =>
        /\ had \subseteq edits \cup {text}
        /\ \A r, x \in Editing : r = x
        /\ \A r \in Editing : IF req[r].pc = "save" THEN req[r].old = text ELSE text \in edits

\* Steps after which no more requests edit, and no content has been replaced.
LEMMA HistorySame ==
    ASSUME HistoryInv, UNCHANGED <<text, edits, had, missed>>, Editing' \subseteq Editing,
           \A r \in Editing' : req'[r] = req[r]
    PROVE  HistoryInv'
<1>1. \A r \in Editing' : req'[r].pc = req[r].pc /\ req'[r].old = req[r].old
  OBVIOUS
<1>. QED  BY <1>1 DEF HistoryInv

LEMMA HistoryStays ==
    ASSUME IInv, HistoryInv, [Next]_vars
    PROVE  HistoryInv'
<1> USE DEF At
<1>0. req \in [Requests -> Request] /\ TableOK
  BY DEF IInv, RequestsOK
<1>a. ASSUME NEW r \in Requests, UNCHANGED first,
             \A x \in Requests : x # r => req'[x] = req[x],
             req'[r].pc \notin {"save", "write"}
      PROVE  HistoryInv'
  <2>1. Editing' \subseteq Editing /\ \A x \in Editing' : req'[x] = req[x]
    BY <1>a DEF Editing
  <2>. QED  BY <1>a, <2>1, HistorySame DEF first
<1>1. ASSUME NEW r \in Requests, RequestStep(r)
      PROVE  HistoryInv'
  <2>0. RequestOK(req[r], messages, drift)
    BY RequestNow
  <2>1. CASE CreateMessage(r)
    <3>1. /\ \A x \in Requests : x # r => req'[x] = req[x]
          /\ req'[r].pc \notin {"save", "write"} /\ UNCHANGED <<edits, missed>>
      BY <1>0, <2>1 DEF CreateMessage, Finish, NoRequest, Request
    <3>2. CASE UNCHANGED <<text, had>>
      BY <1>a, <3>1, <3>2 DEF first
    <3>3. CASE Len(messages) + 1 = First /\ had' = {text'}
      <4>1. First \notin DOMAIN messages
        BY <1>0, <3>3, Table DEF First
      <4>2. Editing' = {}
        BY <3>1, <4>1, RequestNow DEF Editing, RequestOK, First, None
      <4>. QED  BY <3>3, <4>2 DEF HistoryInv
    <3>. QED  BY <2>1, <3>2, <3>3 DEF CreateMessage
  <2>2. CASE \E t \in Texts : EditMessage(r, t)
    <3>1. /\ UNCHANGED <<text, edits, had>>
          /\ missed' = (missed \/ \E x \in Requests : At(x, "save") \/ At(x, "write"))
          /\ \A x \in Requests : x # r => req'[x] = req[x]
          /\ req'[r].pc = "save" /\ req'[r].old = text
      BY <1>0, <2>2 DEF EditMessage, NoRequest
    <3>2. ~missed' => ~missed /\ Editing' = {r}
      BY <3>1 DEF Editing
    <3>. QED  BY <3>1, <3>2 DEF HistoryInv
  <2>3. CASE CreateMessageEdit(r)
    <3>1. /\ UNCHANGED <<text, had>> /\ r \in Editing /\ req[r].pc = "save"
          /\ \A x \in Requests : x # r => req'[x] = req[x]
          /\ req'[r].pc = "write" /\ Editing' = Editing
      BY <1>0, <2>3 DEF CreateMessageEdit, Goto, Request, Editing
    <3>2. \/ edits' = edits \cup {req[r].old} /\ missed' = missed
          \/ missed' = TRUE
      BY <2>3 DEF CreateMessageEdit, InsertEdit
    <3>3. CASE edits' = edits \cup {req[r].old} /\ missed' = missed
      BY <3>1, <3>3 DEF HistoryInv
    <3>4. CASE missed' = TRUE
      BY <3>4 DEF HistoryInv
    <3>. QED  BY <3>2, <3>3, <3>4
  <2>4. CASE UpdateMessageContent(r)
    <3>1. /\ UNCHANGED <<edits, missed>> /\ r \in Editing /\ req[r].pc = "write"
          /\ \A x \in Requests : x # r => req'[x] = req[x]
          /\ req'[r].pc \notin {"save", "write"} /\ Editing' = Editing \ {r}
      BY <1>0, <2>4 DEF UpdateMessageContent, Goto, Finish, NoRequest, Request, Editing
    <3>2. CASE UNCHANGED <<text, had>>
      BY <1>a, <3>1, <3>2 DEF first
    <3>3. CASE text' = req[r].new /\ had' = had \cup {req[r].new}
      <4>1. ~missed => had \subseteq edits /\ Editing' = {}
        BY <3>1 DEF HistoryInv
      <4>. QED  BY <3>1, <3>3, <4>1 DEF HistoryInv
    <3>. QED  BY <2>4, <3>2, <3>3 DEF UpdateMessageContent, UpdateContent
  <2>5. CASE MarkAsThreadRoot(r) \/ IncrementReplyCount(r) \/ PublishMessage(r)
    BY <1>0, <1>a, <2>5
       DEF MarkAsThreadRoot, IncrementReplyCount, PublishMessage, Goto, Finish, NoRequest, Request, first
  <2>6. CASE \/ SoftDeleteMessage(r) \/ DecrementReplyCount(r) \/ PublishMessageDelete(r)
             \/ PublishMessageUpdate(r)
    BY <1>0, <1>a, <2>6
       DEF SoftDeleteMessage, DecrementReplyCount, PublishMessageDelete, PublishMessageUpdate,
           Goto, Finish, NoRequest, Request, first
  <2>7. CASE SendMessage(r)
    BY <1>a, <2>7, SendEffect DEF first
  <2>8. CASE \E m \in DOMAIN messages : DeleteMessage(r, m)
    <3>1. PICK m \in DOMAIN messages : DeleteMessage(r, m)
      BY <2>8
    <3>2. req'[r].pc = "remove" /\ \A x \in Requests : x # r => req'[x] = req[x]
      BY <1>0, <3>1 DEF DeleteMessage, NoRequest
    <3>. QED  BY <1>a, <3>1, <3>2 DEF DeleteMessage, first
  <2>. QED  BY <1>1, <2>1, <2>2, <2>3, <2>4, <2>5, <2>6, <2>7, <2>8 DEF RequestStep
<1>2. CASE ListMessages \/ UNCHANGED vars
  <2>1. UNCHANGED <<text, edits, had, missed, req>>
    BY <1>2 DEF ListMessages, vars, first
  <2>2. Editing' = Editing
    BY <2>1 DEF Editing
  <2>. QED  BY <2>1, <2>2, HistorySame
<1>. QED  BY <1>1, <1>2 DEF Next

LEMMA InitHistory == Init => HistoryInv
BY DEF Init, HistoryInv, Editing, NoRequest

\* No content is lost from an edited message's history, unless two edits ran at
\* once or a record failed (service.go:259-276).
THEOREM HistoryCompleteHolds == Spec => []HistoryComplete
<1>1. IInv /\ HistoryInv /\ [Next]_vars => HistoryInv'
  BY HistoryStays
<1>2. HistoryInv => HistoryComplete
  BY DEF HistoryInv, HistoryComplete
<1>. QED  BY IInvHolds, InitHistory, <1>1, <1>2, PTL DEF Spec
--------------------------------------------------------------------------------
(***************************************************************************)
(* What each query changes, row by row.                                    *)
(***************************************************************************)
SameFields(fields) ==
    /\ DOMAIN messages' = DOMAIN messages
    /\ \A i \in DOMAIN messages, f \in fields : messages'[i][f] = messages[i][f]

LEMMA RootEffect ==
    ASSUME TableOK, NEW m \in DOMAIN messages, messages' = WithRoot(m)
    PROVE  SameFields({"thread", "replies", "deleted"})
<1>1. PICK row : Rewritten(m, row) /\ row = [messages[m] EXCEPT !.root = row.root]
  BY RootRewrites
<1>2. /\ row.thread = messages[m].thread /\ row.replies = messages[m].replies
      /\ row.deleted = messages[m].deleted
  BY <1>1, Table DEF Message
<1>. QED  BY <1>1, <1>2, RewriteKeeps DEF SameFields

LEMMA MoreEffect ==
    ASSUME TableOK, NEW m \in DOMAIN messages, messages' = WithReplyMore(m)
    PROVE  /\ SameFields({"thread", "deleted"})
           /\ \A i \in DOMAIN messages : messages'[i].replies =
                  IF i = m THEN messages[i].replies + 1 ELSE messages[i].replies
<1> DEFINE row == [messages[m] EXCEPT !.replies = messages[m].replies + 1]
<1>1. Rewritten(m, row) /\ messages[m] \in Message
  BY OthersRewrite, Table
<1>2. /\ row.thread = messages[m].thread /\ row.deleted = messages[m].deleted
      /\ row.replies = messages[m].replies + 1
  BY <1>1 DEF Message
<1> HIDE DEF row
<1>. QED  BY <1>1, <1>2, RewriteKeeps DEF SameFields

LEMMA LessEffect ==
    ASSUME TableOK, NEW m \in DOMAIN messages, messages' = WithReplyLess(m)
    PROVE  /\ SameFields({"thread", "deleted"})
           /\ \A i \in DOMAIN messages : messages'[i].replies =
                  IF i = m THEN IF messages[i].replies > 0 THEN messages[i].replies - 1 ELSE 0
                           ELSE messages[i].replies
<1> DEFINE less == IF messages[m].replies > 0 THEN messages[m].replies - 1 ELSE 0
           row == [messages[m] EXCEPT !.replies = less]
<1>1. Rewritten(m, row) /\ messages[m] \in Message
  BY OthersRewrite, Table
<1>2. /\ row.thread = messages[m].thread /\ row.deleted = messages[m].deleted
      /\ row.replies = less
  BY <1>1 DEF Message
<1> HIDE DEF row
<1>. QED  BY <1>1, <1>2, RewriteKeeps DEF SameFields

LEMMA DeletionEffect ==
    ASSUME TableOK, NEW m \in DOMAIN messages, messages' = WithDeletion(m)
    PROVE  /\ SameFields({"thread", "replies"})
           /\ \A i \in DOMAIN messages :
                  messages'[i].deleted = IF i = m THEN TRUE ELSE messages[i].deleted
<1> DEFINE row == [messages[m] EXCEPT !.deleted = TRUE]
<1>1. Rewritten(m, row) /\ messages[m] \in Message
  BY OthersRewrite, Table
<1>2. /\ row.thread = messages[m].thread /\ row.replies = messages[m].replies
      /\ row.deleted = TRUE
  BY <1>1 DEF Message
<1> HIDE DEF row
<1>3. /\ DOMAIN messages' = DOMAIN messages
      /\ \A i \in DOMAIN messages : messages'[i] = IF i = m THEN row ELSE messages[i]
  BY <1>1, RewriteKeeps
<1>4. \A i \in DOMAIN messages : /\ messages'[i].thread = messages[i].thread
                                 /\ messages'[i].replies = messages[i].replies
  BY <1>2, <1>3
<1>. QED  BY <1>2, <1>3, <1>4 DEF SameFields
--------------------------------------------------------------------------------
(***************************************************************************)
(* The client's view of the first message.  While one request is about it, *)
(* the view is what it was before, and the event will make it right.       *)
(***************************************************************************)
Shows == shown = IF Live(First) THEN text ELSE NoText
Fits(q) ==
    /\ q.pc \notin {"mark", "count", "create"}
    /\ q.pc \in {"remove", "save", "write"} => Shows
    /\ q.pc \in {"save", "write", "revise", "announce"} => Live(First)
    /\ q.pc \in {"uncount", "retract"} => ~Live(First)
    /\ q.pc \in {"announce", "revise"} => q.new = text
    /\ q.pc = "revise" => shown # NoText
About == {r \in Requests : req[r].msg = First}
ViewInv ==
    ~unsure =>
        /\ About = {} => Shows
        /\ \A r, x \in About : r = x
        /\ \A r \in About : Fits(req[r])

LEMMA TextThere ==
    ASSUME IInv, Live(First)
    PROVE  text \in Texts /\ text # NoText
BY EmptySeq, Table, MessagesAssumption DEF IInv, TextOK, Live

\* A request about another message, or about none yet.
LEMMA ElsewhereKeepsView ==
    ASSUME ViewInv, NEW r \in Requests, req[r].msg # First, req'[r].msg # First,
           \A x \in Requests : x # r => req'[x] = req[x],
           UNCHANGED <<text, shown>>, unsure' = unsure, Live(First)' = Live(First)
    PROVE  ViewInv'
<1>1. About' = About /\ Shows' = Shows
  BY DEF About, Shows
<1>2. \A x \in About : req'[x] = req[x]
  BY DEF About
<1>. QED  BY <1>1, <1>2 DEF ViewInv, Fits

\* The one request about the first message goes on, or ends.
LEMMA GoingOnKeepsView ==
    ASSUME ViewInv, NEW r \in Requests, req[r].msg = First, req'[r].msg = First,
           \A x \in Requests : x # r => req'[x] = req[x], unsure' = unsure,
           ~unsure => Fits(req[r])'
    PROVE  ViewInv'
<1>1. About' = About /\ r \in About
  BY DEF About
<1>2. ~unsure => About = {r}
  BY <1>1 DEF ViewInv
<1>. QED  BY <1>1, <1>2 DEF ViewInv

LEMMA EndKeepsView ==
    ASSUME ViewInv, NEW r \in Requests, req[r].msg = First, req'[r].msg # First,
           \A x \in Requests : x # r => req'[x] = req[x], unsure' = unsure,
           ~unsure => Shows'
    PROVE  ViewInv'
<1>1. r \in About /\ About' = About \ {r}
  BY DEF About
<1>2. ~unsure => About' = {}
  BY <1>1 DEF ViewInv
<1>. QED  BY <1>1, <1>2 DEF ViewInv

\* A request about it starts: with another one running, the view may be wrong.
LEMMA StartKeepsView ==
    ASSUME ViewInv, NEW r \in Requests, req[r].msg # First, req'[r].msg = First,
           \A x \in Requests : x # r => req'[x] = req[x],
           ~unsure' => ~unsure /\ About = {} /\ Fits(req[r])'
    PROVE  ViewInv'
<1>1. About' = About \cup {r}
  BY DEF About
<1>. QED  BY <1>1 DEF ViewInv

LEMMA UnsureView ==
    ASSUME unsure' = TRUE
    PROVE  ViewInv'
BY DEF ViewInv

LEMMA IdleAboutNone == NoRequest.msg # First
BY DEF NoRequest, None, First

LEMMA OurRequest ==
    ASSUME ViewInv, NEW r \in Requests, req[r].msg = First, ~unsure
    PROVE  Fits(req[r]) /\ About = {r}
BY DEF ViewInv, About

LEMMA SendingKeepsView ==
    ASSUME IInv, ViewInv, NEW r \in Requests,
           SendMessage(r) \/ MarkAsThreadRoot(r) \/ IncrementReplyCount(r)
    PROVE  ViewInv'
<1> USE DEF At
<1>0. RequestOK(req[r], messages, drift) /\ TableOK /\ req \in [Requests -> Request]
  BY RequestNow DEF IInv, RequestsOK
<1>1. CASE SendMessage(r)
  BY <1>1, SendEffect, ElsewhereKeepsView DEF Live, First, None
<1>2. CASE MarkAsThreadRoot(r) \/ IncrementReplyCount(r)
  <2>1. /\ req[r].msg # First /\ req'[r].msg # First /\ req[r].thread \in DOMAIN messages
        /\ \A x \in Requests : x # r => req'[x] = req[x]
        /\ UNCHANGED <<text, shown, unsure>>
    BY <1>0, <1>2 DEF MarkAsThreadRoot, IncrementReplyCount, Goto, RequestOK, Request, First,
                      None, first, client
  <2>2. Live(First)' = Live(First)
    BY <1>0, <1>2, <2>1, RootEffect, MoreEffect
       DEF MarkAsThreadRoot, IncrementReplyCount, SameFields, Live
  <2>. QED  BY <2>1, <2>2, ElsewhereKeepsView
<1>. QED  BY <1>1, <1>2

LEMMA CreatingKeepsView ==
    ASSUME IInv, ViewInv, NEW r \in Requests, CreateMessage(r)
    PROVE  ViewInv'
<1> USE DEF At
<1>0. RequestOK(req[r], messages, drift) /\ TableOK /\ req \in [Requests -> Request]
  BY RequestNow DEF IInv, RequestsOK
<1>1. /\ req[r].msg # First /\ UNCHANGED <<shown, unsure>>
      /\ \A x \in Requests : x # r => req'[x] = req[x]
  BY <1>0 DEF CreateMessage, RequestOK, First, None, client, Finish
<1>2. CASE Finish(r)
  <2>1. ~Appends(r)
    BY <1>2 DEF Appends
  <2>2. UNCHANGED <<messages, text>>
    BY <1>0, <1>2 DEF CreateMessage, Finish, NoRequest, Request
  <2>3. req'[r].msg # First
    BY <1>0, <1>2 DEF Finish, NoRequest, First, None
  <2>. QED  BY <1>1, <2>2, <2>3, ElsewhereKeepsView DEF Live
<1>3. CASE ~Finish(r)
  <2> DEFINE m == Len(messages) + 1
  <2>1. /\ Appends(r)
        /\ req' = [req EXCEPT ![r].pc = "announce", ![r].msg = m,
                              ![r].new = IF m = First THEN text' ELSE NoText]
        /\ m # First => text' = text
    BY <1>3 DEF CreateMessage, Appends
  <2>2. req'[r].pc = "announce" /\ req'[r].msg = m /\ (m = First => req'[r].new = text')
    BY <1>0, <2>1 DEF Request
  <2>3. CASE m = First
    <3>1. First \notin DOMAIN messages
      BY <1>0, <2>3, Table DEF First
    <3>2. About = {}
      BY <3>1, RequestNow DEF About, RequestOK, First, None
    <3>3. Live(First)'
      <4>1. /\ First \in DOMAIN messages'
            /\ messages'[First] = Row(req[r].thread)
        BY <2>1, <2>3, AppendsOne
      <4>. QED  BY <4>1 DEF Live, Row
    <3>4. Fits(req[r])'
      BY <2>2, <2>3, <3>3 DEF Fits
    <3>. QED  BY <1>1, <2>2, <2>3, <3>2, <3>4, StartKeepsView
  <2>4. CASE m # First
    <3>1. Live(First)' = Live(First)
      BY <2>1, <2>4, AppendsOne DEF Live
    <3>. QED  BY <1>1, <2>1, <2>2, <2>4, <3>1, ElsewhereKeepsView
  <2>. QED  BY <2>3, <2>4
<1>. QED  BY <1>2, <1>3

LEMMA AnnouncingKeepsView ==
    ASSUME IInv, ViewInv, NEW r \in Requests,
           PublishMessage(r) \/ PublishMessageDelete(r) \/ PublishMessageUpdate(r)
    PROVE  ViewInv'
<1> USE DEF At
<1>0. req \in [Requests -> Request]
  BY DEF IInv, RequestsOK
<1>1. /\ UNCHANGED <<messages, text>> /\ req'[r].msg # First /\ (Live(First)' = Live(First))
      /\ \A x \in Requests : x # r => req'[x] = req[x]
  BY <1>0 DEF PublishMessage, PublishMessageDelete, PublishMessageUpdate, first, Finish,
              NoRequest, First, None, Live
<1>2. CASE req[r].msg # First
  <2>1. shown' = shown /\ unsure' = unsure
    BY <1>2, RequestNow
       DEF PublishMessage, PublishMessageDelete, PublishMessageUpdate, RequestOK, IInv, TextOK
  <2>. QED  BY <1>1, <1>2, <2>1, ElsewhereKeepsView
<1>3. CASE req[r].msg = First /\ unsure' = unsure
  <2>1. ~unsure => Shows'
    <3> SUFFICES ASSUME ~unsure PROVE Shows'
      OBVIOUS
    <3>1. Fits(req[r])
      BY <1>3, OurRequest
    <3>2. CASE PublishMessage(r)
      BY <1>1, <1>3, <3>1, <3>2 DEF PublishMessage, Fits, Shows
    <3>3. CASE PublishMessageDelete(r)
      BY <1>1, <1>3, <3>1, <3>3 DEF PublishMessageDelete, Fits, Shows
    <3>4. CASE PublishMessageUpdate(r)
      BY <1>1, <1>3, <3>1, <3>4 DEF PublishMessageUpdate, Fits, Shows
    <3>. QED  BY <3>2, <3>3, <3>4
  <2>. QED  BY <1>1, <1>3, <2>1, EndKeepsView
<1>4. CASE req[r].msg = First /\ unsure' # unsure
  BY <1>4, UnsureView
     DEF PublishMessage, PublishMessageDelete, PublishMessageUpdate, IInv, TextOK
<1>. QED  BY <1>2, <1>3, <1>4

LEMMA DeletingKeepsView ==
    ASSUME IInv, ViewInv, NEW r \in Requests,
           \/ \E m \in DOMAIN messages : DeleteMessage(r, m)
           \/ SoftDeleteMessage(r) \/ DecrementReplyCount(r)
    PROVE  ViewInv'
<1> USE DEF At
<1>0. /\ RequestOK(req[r], messages, drift) /\ TableOK /\ req \in [Requests -> Request]
      /\ unsure \in BOOLEAN
  BY RequestNow DEF IInv, RequestsOK, TextOK
<1>1. ASSUME NEW m \in DOMAIN messages, DeleteMessage(r, m)
      PROVE  ViewInv'
  <2>1. /\ UNCHANGED <<messages, text, shown>> /\ Live(m) /\ (Live(First)' = Live(First))
        /\ req'[r].msg = m /\ req'[r].pc = "remove" /\ req[r].msg # First
        /\ \A x \in Requests : x # r => req'[x] = req[x]
        /\ unsure' = (unsure \/ (m = First /\ About # {}))
    <3>1. /\ req'[r].msg = m /\ req'[r].pc = "remove"
          /\ \A x \in Requests : x # r => req'[x] = req[x]
      BY <1>0, <1>1 DEF DeleteMessage, NoRequest
    <3>2. req[r].msg # First
      BY <1>0, <1>1, IdleAboutNone DEF DeleteMessage, RequestOK
    <3>. QED  BY <1>1, <3>1, <3>2 DEF DeleteMessage, first, Live, Overlap, Handling, About
  <2>2. CASE m # First
    <3>1. unsure' = unsure
      BY <1>0, <2>1, <2>2
    <3>. QED  BY <2>1, <2>2, <3>1, ElsewhereKeepsView
  <2>3. CASE m = First
    <3>1. ~unsure' => ~unsure /\ About = {}
      BY <2>1, <2>3
    <3>2. ~unsure' => Fits(req[r])'
      BY <2>1, <3>1 DEF ViewInv, Fits, Shows
    <3>. QED  BY <2>1, <2>3, <3>1, <3>2, StartKeepsView
  <2>. QED  BY <2>2, <2>3
<1>2. CASE SoftDeleteMessage(r)
  <2>0. /\ UNCHANGED <<text, shown, unsure>> /\ req[r].pc = "remove"
        /\ req[r].msg \in DOMAIN messages
        /\ \A x \in Requests : x # r => req'[x] = req[x]
    BY <1>0, <1>2 DEF SoftDeleteMessage, RequestOK, first, client, Goto, Finish
  <2>1. CASE messages' = WithDeletion(req[r].msg)
             /\ Goto(r, IF req[r].thread # None THEN "uncount" ELSE "retract")
    <3>1. req'[r].msg = req[r].msg /\ req'[r].pc \in {"uncount", "retract"}
      BY <1>0, <2>1 DEF Goto, Request
    <3>2. CASE req[r].msg # First
      <4>1. Live(First)' = Live(First)
        BY <1>0, <2>0, <2>1, <3>2, DeletionEffect DEF SameFields, Live
      <4>. QED  BY <2>0, <3>1, <3>2, <4>1, ElsewhereKeepsView
    <3>3. CASE req[r].msg = First
      <4>1. ~Live(First)'
        BY <1>0, <2>0, <2>1, <3>3, DeletionEffect DEF SameFields, Live
      <4>2. Fits(req[r])'
        BY <3>1, <4>1 DEF Fits
      <4>. QED  BY <2>0, <3>1, <3>3, <4>2, GoingOnKeepsView
    <3>. QED  BY <3>2, <3>3
  <2>2. CASE Finish(r) /\ UNCHANGED messages
    <3>1. req'[r].msg # First /\ (Live(First)' = Live(First))
      BY <1>0, <2>2 DEF Finish, NoRequest, First, None, Live
    <3>2. req[r].msg = First /\ ~unsure => Shows'
      BY <2>0, <3>1, OurRequest DEF Fits, Shows
    <3>. QED  BY <2>0, <3>1, <3>2, ElsewhereKeepsView, EndKeepsView
  <2>. QED  BY <1>2, <2>1, <2>2 DEF SoftDeleteMessage
<1>3. CASE DecrementReplyCount(r)
  <2>1. /\ UNCHANGED <<text, shown, unsure>> /\ req[r].pc = "uncount"
        /\ req'[r].pc = "retract" /\ req'[r].msg = req[r].msg
        /\ req[r].thread \in DOMAIN messages
        /\ \A x \in Requests : x # r => req'[x] = req[x]
    BY <1>0, <1>3 DEF DecrementReplyCount, RequestOK, first, client, Goto, Request
  <2>2. Live(First)' = Live(First)
    BY <1>0, <1>3, <2>1, LessEffect DEF DecrementReplyCount, SameFields, Live
  <2>3. req[r].msg = First /\ ~unsure => Fits(req[r])'
    <3>1. ASSUME req[r].msg = First, ~unsure
          PROVE  ~Live(First)
      BY <2>1, <3>1, OurRequest DEF Fits
    <3>. QED  BY <2>1, <2>2, <3>1 DEF Fits
  <2>. QED  BY <2>1, <2>2, <2>3, ElsewhereKeepsView, GoingOnKeepsView
<1>. QED  BY <1>1, <1>2, <1>3

LEMMA EditingKeepsView ==
    ASSUME IInv, ViewInv, NEW r \in Requests,
           \/ \E t \in Texts : EditMessage(r, t)
           \/ CreateMessageEdit(r) \/ UpdateMessageContent(r)
    PROVE  ViewInv'
<1> USE DEF At
<1>0. /\ RequestOK(req[r], messages, drift) /\ req \in [Requests -> Request]
      /\ unsure \in BOOLEAN
  BY RequestNow DEF IInv, RequestsOK, TextOK
<1>l. messages' = messages => (Live(First)' = Live(First))
  BY DEF Live
<1>1. ASSUME NEW t \in Texts, EditMessage(r, t)
      PROVE  ViewInv'
  <2>1. /\ UNCHANGED <<messages, text, shown>> /\ Live(First)
        /\ req'[r].msg = First /\ req'[r].pc = "save" /\ req[r].msg # First
        /\ \A x \in Requests : x # r => req'[x] = req[x]
        /\ unsure' = (unsure \/ About # {})
    <3>1. /\ req'[r].msg = First /\ req'[r].pc = "save"
          /\ \A x \in Requests : x # r => req'[x] = req[x]
      BY <1>0, <1>1 DEF EditMessage, NoRequest
    <3>2. req[r].msg # First
      BY <1>0, <1>1, IdleAboutNone DEF EditMessage, RequestOK
    <3>. QED  BY <1>1, <3>1, <3>2 DEF EditMessage, Overlap, Handling, About
  <2>2. ~unsure' => ~unsure /\ About = {}
    BY <2>1
  <2>3. ~unsure' => Fits(req[r])'
    BY <1>l, <2>1, <2>2 DEF ViewInv, Fits, Shows
  <2>. QED  BY <2>1, <2>2, <2>3, StartKeepsView
<1>2. CASE CreateMessageEdit(r)
  <2>1. /\ UNCHANGED <<messages, text, shown, unsure>> /\ req[r].pc = "save"
        /\ req[r].msg = First /\ req'[r].msg = First /\ req'[r].pc = "write"
        /\ \A x \in Requests : x # r => req'[x] = req[x]
    BY <1>0, <1>2 DEF CreateMessageEdit, RequestOK, client, Goto, Request
  <2>2. ~unsure => Fits(req[r])'
    BY <1>l, <2>1, OurRequest DEF Fits, Shows
  <2>. QED  BY <2>1, <2>2, GoingOnKeepsView
<1>3. CASE UpdateMessageContent(r)
  <2>1. /\ UNCHANGED <<messages, shown, unsure>> /\ req[r].pc = "write" /\ req[r].msg = First
        /\ \A x \in Requests : x # r => req'[x] = req[x]
    BY <1>0, <1>3 DEF UpdateMessageContent, RequestOK, client, Goto, Finish
  <2>2. CASE UpdateContent(req[r].new) /\ Goto(r, "revise")
    <3>1. /\ Live(First) /\ text' = req[r].new
          /\ req'[r].msg = First /\ req'[r].pc = "revise" /\ req'[r].new = req[r].new
      BY <1>0, <2>1, <2>2 DEF UpdateContent, Goto, Request
    <3>2. ~unsure => shown # NoText
      BY <2>1, <3>1, OurRequest, TextThere DEF Fits, Shows
    <3>3. ~unsure => Fits(req[r])'
      BY <1>l, <2>1, <3>1, <3>2 DEF Fits
    <3>. QED  BY <2>1, <3>1, <3>3, GoingOnKeepsView
  <2>3. CASE Finish(r) /\ UNCHANGED text
    <3>1. req'[r].msg # First
      BY <1>0, <2>3 DEF Finish, NoRequest, First, None
    <3>2. ~unsure => Shows'
      BY <1>l, <2>1, <2>3, OurRequest DEF Fits, Shows
    <3>. QED  BY <2>1, <3>1, <3>2, EndKeepsView
  <2>. QED  BY <1>3, <2>2, <2>3 DEF UpdateMessageContent
<1>. QED  BY <1>1, <1>2, <1>3

LEMMA ListingKeepsView ==
    ASSUME IInv, ViewInv, ListMessages
    PROVE  ViewInv'
<1>1. /\ UNCHANGED <<messages, text, req>> /\ shown' = IF Live(First) THEN text ELSE NoText
      /\ unsure' = (unsure /\ About # {}) /\ unsure \in BOOLEAN
  BY DEF ListMessages, first, Handling, About, IInv, TextOK
<1>2. About' = About /\ Shows' /\ Live(First)' = Live(First)
  BY <1>1 DEF About, Shows, Live
<1>3. CASE About = {}
  BY <1>2, <1>3 DEF ViewInv
<1>4. CASE About # {} /\ ~unsure
  <2>1. \A r \in About : Fits(req[r])'
    BY <1>1, <1>2, <1>4, TextThere DEF ViewInv, Fits
  <2>. QED  BY <1>1, <1>2, <1>4, <2>1 DEF ViewInv
<1>5. CASE About # {} /\ unsure
  BY <1>1, <1>5, UnsureView
<1>. QED  BY <1>1, <1>3, <1>4, <1>5

LEMMA ViewStays ==
    ASSUME IInv, ViewInv, [Next]_vars
    PROVE  ViewInv'
<1>1. CASE UNCHANGED vars
  BY <1>1 DEF vars, ViewInv, About, Shows, Fits, Live
<1>. QED  BY <1>1, SendingKeepsView, CreatingKeepsView, AnnouncingKeepsView, DeletingKeepsView,
             EditingKeepsView, ListingKeepsView DEF Next, RequestStep

LEMMA InitView == Init => ViewInv
<1> SUFFICES ASSUME Init PROVE ViewInv
  OBVIOUS
<1>1. About = {} /\ shown = NoText
  BY DEF Init, About, NoRequest, First, None
<1>2. DOMAIN messages = {}
  BY EmptySeq, LenProperties DEF Init
<1>. QED  BY <1>1, <1>2 DEF ViewInv, Shows, Live

\* When the requests about a message are over, the client of a connected member
\* shows what the database has, unless two ran at once or an event was not sent
\* (service.go:195-217, 278-300, 333-346).
THEOREM ViewMatchesHolds == Spec => []ViewMatches
<1>1. IInv /\ ViewInv /\ [Next]_vars => ViewInv'
  BY ViewStays
<1>2. ViewInv => ViewMatches
  BY DEF ViewInv, ViewMatches, About, Handling, Shows
<1>. QED  BY IInvHolds, InitView, <1>1, <1>2, PTL DEF Spec
--------------------------------------------------------------------------------
(***************************************************************************)
(* Reply counts.  A reply is counted before it exists and until after it   *)
(* is deleted: the request that makes or deletes it makes up the           *)
(* difference.                                                             *)
(***************************************************************************)
Replies(m) == {i \in DOMAIN messages : messages[i].thread = m /\ Live(i)}
Pending(m) == {r \in Requests : req[r].thread = m /\ req[r].pc \in {"create", "uncount"}}
CountOK(m) == messages[m].replies = Cardinality(Replies(m)) + Cardinality(Pending(m))

LEMMA CountMeans ==
    /\ ReplyCount <=> \A m \in DOMAIN messages \ drift : CountOK(m)
    /\ ReplyCount' <=> \A m \in DOMAIN messages' \ drift' : CountOK(m)'
BY DEF ReplyCount, CountOK, Replies, Pending

LEMMA CountsFinite ==
    ASSUME IInv, Kept, NEW m
    PROVE  /\ IsFiniteSet(Replies(m)) /\ IsFiniteSet(Replies(m)')
           /\ IsFiniteSet(Pending(m)) /\ IsFiniteSet(Pending(m)')
           /\ Cardinality(Replies(m)) \in Nat /\ Cardinality(Replies(m)') \in Nat
           /\ Cardinality(Pending(m)) \in Nat /\ Cardinality(Pending(m)') \in Nat
<1>1. IsFiniteSet(DOMAIN messages)
  BY Table, FS_Interval DEF IInv
<1>2. IsFiniteSet(DOMAIN messages')
  BY LenProperties, FS_Interval DEF Kept
<1>3. /\ Replies(m) \subseteq DOMAIN messages /\ Replies(m)' \subseteq DOMAIN messages'
      /\ Pending(m) \subseteq Requests /\ Pending(m)' \subseteq Requests
  BY DEF Replies, Pending
<1>. QED  BY <1>1, <1>2, <1>3, MessagesAssumption, FS_Subset, FS_CardinalityType

LEMMA SameCount ==
    ASSUME NEW m \in DOMAIN messages, CountOK(m), messages'[m].replies = messages[m].replies,
           Replies(m)' = Replies(m), Pending(m)' = Pending(m)
    PROVE  CountOK(m)'
BY DEF CountOK

\* The counts of a step that is about one thread only, or that leaves all rows'
\* threads and deletions.
LEMMA SameReplies ==
    ASSUME SameFields({"thread", "deleted"}), NEW m
    PROVE  Replies(m)' = Replies(m)
BY DEF SameFields, Replies, Live

LEMMA SamePending ==
    ASSUME NEW r \in Requests, NEW m, \A x \in Requests : x # r => req'[x] = req[x],
           req[r].thread = m => req[r].pc \notin {"create", "uncount"},
           req'[r].thread = m => req'[r].pc \notin {"create", "uncount"}
    PROVE  Pending(m)' = Pending(m)
BY DEF Pending

LEMMA MorePending ==
    ASSUME IInv, Kept, NEW r \in Requests, NEW m,
           \A x \in Requests : x # r => req'[x] = req[x],
           req[r].pc \notin {"create", "uncount"},
           req'[r].thread = m, req'[r].pc \in {"create", "uncount"}
    PROVE  Cardinality(Pending(m)') = Cardinality(Pending(m)) + 1
<1>1. r \notin Pending(m) /\ Pending(m)' = Pending(m) \cup {r}
  BY DEF Pending
<1>2. IsFiniteSet(Pending(m))
  BY CountsFinite
<1>. QED  BY <1>1, <1>2, FS_AddElement

LEMMA LessPending ==
    ASSUME IInv, Kept, NEW r \in Requests, NEW m,
           \A x \in Requests : x # r => req'[x] = req[x],
           req[r].thread = m, req[r].pc \in {"create", "uncount"},
           req'[r].pc \notin {"create", "uncount"}
    PROVE  Cardinality(Pending(m)') = Cardinality(Pending(m)) - 1
<1>1. r \in Pending(m) /\ Pending(m)' = Pending(m) \ {r}
  BY DEF Pending
<1>2. IsFiniteSet(Pending(m))
  BY CountsFinite
<1>. QED  BY <1>1, <1>2, FS_RemoveElement

LEMMA MarkCounts ==
    ASSUME IInv, Kept, ReplyCount, NEW r \in Requests, SendMessage(r) \/ MarkAsThreadRoot(r)
    PROVE  ReplyCount'
<1> USE DEF At
<1>0. RequestOK(req[r], messages, drift) /\ TableOK /\ req \in [Requests -> Request]
  BY RequestNow DEF IInv, RequestsOK
<1>1. CASE SendMessage(r)
  <2>1. ASSUME NEW m \in DOMAIN messages \ drift
        PROVE  CountOK(m)'
    <3>1. m # None
      BY IdsInTable DEF IInv
    <3>2. Pending(m)' = Pending(m)
      BY <1>1, <3>1, SendEffect, SamePending
    <3>3. Replies(m)' = Replies(m) /\ messages' = messages
      BY <1>1, SendEffect DEF Replies, Live
    <3>. QED  BY <3>2, <3>3, SameCount, CountMeans
  <2>. QED  BY <1>1, <2>1, SendEffect, CountMeans
<1>2. CASE MarkAsThreadRoot(r)
  <2>1. /\ req[r].thread \in DOMAIN messages /\ drift \subseteq drift'
        /\ req[r].pc = "mark" /\ req'[r].pc = "count"
        /\ \A x \in Requests : x # r => req'[x] = req[x]
    BY <1>0, <1>2 DEF MarkAsThreadRoot, RequestOK, Goto, Request
  <2>2. SameFields({"thread", "replies", "deleted"})
    BY <1>0, <1>2, <2>1, RootEffect DEF MarkAsThreadRoot, SameFields
  <2>3. ASSUME NEW m \in DOMAIN messages \ drift
        PROVE  CountOK(m)'
    <3>1. Replies(m)' = Replies(m)
      BY <2>2, SameReplies DEF SameFields
    <3>2. Pending(m)' = Pending(m)
      BY <2>1, SamePending
    <3>3. messages'[m].replies = messages[m].replies
      BY <2>2 DEF SameFields
    <3>. QED  BY <3>1, <3>2, <3>3, SameCount, CountMeans
  <2>4. DOMAIN messages' \ drift' \subseteq DOMAIN messages \ drift
    BY <2>1, <2>2 DEF SameFields
  <2>. QED  BY <2>3, <2>4, CountMeans
<1>. QED  BY <1>1, <1>2

LEMMA IncrementCounts ==
    ASSUME IInv, Kept, ReplyCount, NEW r \in Requests, IncrementReplyCount(r)
    PROVE  ReplyCount'
<1> USE DEF At
<1> DEFINE t == req[r].thread
<1>0. RequestOK(req[r], messages, drift) /\ TableOK /\ req \in [Requests -> Request]
  BY RequestNow DEF IInv, RequestsOK
<1>1. /\ t \in DOMAIN messages
      /\ req[r].pc = "count" /\ req'[r].pc = "create" /\ req'[r].thread = t
      /\ \A x \in Requests : x # r => req'[x] = req[x]
  BY <1>0 DEF IncrementReplyCount, RequestOK, Goto, Request
<1>2. ASSUME NEW m \in DOMAIN messages \ drift, m # t
      PROVE  Pending(m)' = Pending(m)
  BY <1>1, <1>2, SamePending
<1>3. CASE messages' = WithReplyMore(t) /\ drift' = drift
  <2>1. ASSUME NEW m \in DOMAIN messages \ drift
        PROVE  CountOK(m)'
    <3>1. Replies(m)' = Replies(m)
      BY <1>0, <1>1, <1>3, MoreEffect, SameReplies
    <3>2. messages'[m].replies = IF m = t THEN messages[m].replies + 1 ELSE messages[m].replies
      BY <1>0, <1>1, <1>3, MoreEffect
    <3>3. CASE m # t
      BY <1>2, <3>1, <3>2, <3>3, SameCount, CountMeans
    <3>4. CASE m = t
      <4>1. Cardinality(Pending(m)') = Cardinality(Pending(m)) + 1
        BY <1>1, <3>4, MorePending
      <4>2. CountOK(m)
        BY CountMeans
      <4>. QED  BY <3>1, <3>2, <3>4, <4>1, <4>2, CountsFinite DEF CountOK
    <3>. QED  BY <3>3, <3>4
  <2>2. DOMAIN messages' = DOMAIN messages
    BY <1>0, <1>1, <1>3, MoreEffect DEF SameFields
  <2>. QED  BY <1>3, <2>1, <2>2, CountMeans
<1>4. CASE drift' = drift \cup {t} /\ UNCHANGED messages
  <2>1. ASSUME NEW m \in DOMAIN messages \ drift, m # t
        PROVE  CountOK(m)'
    <3>1. Replies(m)' = Replies(m)
      BY <1>4 DEF Replies, Live
    <3>. QED  BY <1>2, <1>4, <2>1, <3>1, SameCount, CountMeans
  <2>. QED  BY <1>4, <2>1, CountMeans
<1>. QED  BY <1>3, <1>4 DEF IncrementReplyCount

LEMMA DecrementCounts ==
    ASSUME IInv, Kept, ReplyCount, NEW r \in Requests, DecrementReplyCount(r)
    PROVE  ReplyCount'
<1> USE DEF At
<1> DEFINE t == req[r].thread
<1>0. RequestOK(req[r], messages, drift) /\ TableOK /\ req \in [Requests -> Request]
  BY RequestNow DEF IInv, RequestsOK
<1>1. /\ t \in DOMAIN messages
      /\ req[r].pc = "uncount" /\ req'[r].pc = "retract"
      /\ \A x \in Requests : x # r => req'[x] = req[x]
  BY <1>0 DEF DecrementReplyCount, RequestOK, Goto, Request
<1>2. ASSUME NEW m \in DOMAIN messages \ drift, m # t
      PROVE  Pending(m)' = Pending(m)
  BY <1>1, <1>2, SamePending
<1>3. CASE messages' = WithReplyLess(t) /\ drift' = drift
  <2>1. ASSUME NEW m \in DOMAIN messages \ drift
        PROVE  CountOK(m)'
    <3>1. Replies(m)' = Replies(m)
      BY <1>0, <1>1, <1>3, LessEffect, SameReplies
    <3>2. messages'[m].replies =
            IF m = t THEN IF messages[m].replies > 0 THEN messages[m].replies - 1 ELSE 0
                     ELSE messages[m].replies
      BY <1>0, <1>1, <1>3, LessEffect
    <3>3. CASE m # t
      BY <1>2, <3>1, <3>2, <3>3, SameCount, CountMeans
    <3>4. CASE m = t
      <4>1. Cardinality(Pending(m)') = Cardinality(Pending(m)) - 1
        BY <1>1, <3>4, LessPending
      <4>2. CountOK(m)
        BY CountMeans
      <4>. QED  BY <3>1, <3>2, <3>4, <4>1, <4>2, CountsFinite DEF CountOK
    <3>. QED  BY <3>3, <3>4
  <2>2. DOMAIN messages' = DOMAIN messages
    BY <1>0, <1>1, <1>3, LessEffect DEF SameFields
  <2>. QED  BY <1>3, <2>1, <2>2, CountMeans
<1>4. CASE drift' = drift \cup {t} /\ UNCHANGED messages
  <2>1. ASSUME NEW m \in DOMAIN messages \ drift, m # t
        PROVE  CountOK(m)'
    <3>1. Replies(m)' = Replies(m)
      BY <1>4 DEF Replies, Live
    <3>. QED  BY <1>2, <1>4, <2>1, <3>1, SameCount, CountMeans
  <2>. QED  BY <1>4, <2>1, CountMeans
<1>. QED  BY <1>3, <1>4 DEF DecrementReplyCount

LEMMA CreateCounts ==
    ASSUME IInv, Kept, ReplyCount, NEW r \in Requests, CreateMessage(r)
    PROVE  ReplyCount'
<1> USE DEF At
<1> DEFINE t == req[r].thread
           new == Len(messages) + 1
<1>0. /\ RequestOK(req[r], messages, drift) /\ TableOK /\ req \in [Requests -> Request]
      /\ req[r].pc = "create" /\ t \in DOMAIN messages \cup {None}
      /\ \A x \in Requests : x # r => req'[x] = req[x]
  BY RequestNow DEF IInv, RequestsOK, CreateMessage, Finish, RequestOK
<1>1. CASE Finish(r)
  <2>1. ~Appends(r) /\ req'[r].pc = "idle"
    BY <1>0, <1>1 DEF Appends, Finish, NoRequest
  <2>2. messages' = messages /\ drift' = drift \cup Wrong(t)
    BY <1>0, <1>1 DEF CreateMessage, Finish, NoRequest, Request
  <2>3. ASSUME NEW m \in DOMAIN messages \ drift'
        PROVE  CountOK(m)'
    <3>1. m # None /\ m # t /\ m \notin drift
      BY <2>2, IdsInTable DEF Wrong, IInv
    <3>2. Replies(m)' = Replies(m)
      BY <2>2 DEF Replies, Live
    <3>3. Pending(m)' = Pending(m)
      BY <1>0, <2>1, <3>1, SamePending
    <3>. QED  BY <2>2, <3>1, <3>2, <3>3, SameCount, CountMeans
  <2>. QED  BY <2>2, <2>3, CountMeans
<1>2. CASE ~Finish(r)
  <2>1. Appends(r) /\ drift' = drift /\ req'[r].pc = "announce"
    BY <1>0, <1>2 DEF CreateMessage, Appends, Request
  <2>2. /\ DOMAIN messages' = DOMAIN messages \cup {new}
        /\ \A i \in DOMAIN messages : messages'[i] = messages[i]
        /\ messages'[new].thread = t /\ messages'[new].replies = 0
        /\ ~messages'[new].deleted /\ new \notin DOMAIN messages /\ new # None
    <3>1. /\ DOMAIN messages' = DOMAIN messages \cup {new}
          /\ \A i \in DOMAIN messages : messages'[i] = messages[i]
          /\ messages'[new] = Row(t)
      BY <2>1, AppendsOne
    <3>2. new \notin DOMAIN messages /\ new # None
      BY <1>0, Table DEF None
    <3>. QED  BY <3>1, <3>2 DEF Row
  <2>3. ASSUME NEW m \in DOMAIN messages \ drift
        PROVE  CountOK(m)'
    <3>1. messages'[m].replies = messages[m].replies
      BY <2>2
    <3>2. CASE m # t
      <4>1. Replies(m)' = Replies(m)
        BY <2>2, <3>2 DEF Replies, Live
      <4>2. Pending(m)' = Pending(m)
        BY <1>0, <2>1, <3>2, SamePending
      <4>. QED  BY <3>1, <4>1, <4>2, SameCount, CountMeans
    <3>3. CASE m = t
      <4>1. Replies(m)' = Replies(m) \cup {new} /\ new \notin Replies(m)
        BY <2>2, <3>3 DEF Replies, Live
      <4>2. IsFiniteSet(Replies(m))
        BY CountsFinite
      <4>3. Cardinality(Replies(m)') = Cardinality(Replies(m)) + 1
        BY <4>1, <4>2, FS_AddElement
      <4>4. Cardinality(Pending(m)') = Cardinality(Pending(m)) - 1
        BY <1>0, <2>1, <3>3, LessPending
      <4>5. CountOK(m)
        BY CountMeans
      <4>. QED  BY <3>1, <4>3, <4>4, <4>5, CountsFinite DEF CountOK
    <3>. QED  BY <3>2, <3>3
  <2>4. ASSUME NEW n, n = new
        PROVE  CountOK(n)'
    <3>1. \A i \in DOMAIN messages : messages[i].thread # n
      BY <2>2, <2>4 DEF IInv, ThreadsOK
    <3>2. Replies(n)' = {}
      BY <1>0, <2>2, <2>4, <3>1 DEF Replies, Live
    <3>3. \A x \in Requests : req[x].thread # n
      BY <2>2, <2>4, RequestNow DEF RequestOK
    <3>4. Pending(n)' = {}
      BY <1>0, <2>1, <3>3 DEF Pending
    <3>5. Cardinality(Replies(n)') = 0 /\ Cardinality(Pending(n)') = 0
      BY <3>2, <3>4, FS_EmptySet
    <3>6. messages'[n].replies = 0
      BY <2>2, <2>4
    <3>. QED  BY <3>5, <3>6 DEF CountOK
  <2>. QED  BY <2>1, <2>2, <2>3, <2>4, CountMeans
<1>. QED  BY <1>1, <1>2

LEMMA DeletionCounts ==
    ASSUME IInv, Kept, ReplyCount, NEW r \in Requests, SoftDeleteMessage(r)
    PROVE  ReplyCount'
<1> USE DEF At
<1> DEFINE t == req[r].thread
           d == req[r].msg
<1>0. /\ RequestOK(req[r], messages, drift) /\ TableOK /\ req \in [Requests -> Request]
      /\ req[r].pc = "remove" /\ d \in DOMAIN messages /\ t = messages[d].thread
      /\ \A x \in Requests : x # r => req'[x] = req[x]
  BY RequestNow DEF IInv, RequestsOK, SoftDeleteMessage, Finish, Goto, RequestOK
<1>1. CASE Finish(r) /\ UNCHANGED <<messages, drift>>
  <2>1. req'[r].pc = "idle"
    BY <1>0, <1>1 DEF Finish, NoRequest
  <2>2. ASSUME NEW m \in DOMAIN messages \ drift
        PROVE  CountOK(m)'
    <3>1. Replies(m)' = Replies(m)
      BY <1>1 DEF Replies, Live
    <3>2. Pending(m)' = Pending(m)
      BY <1>0, <2>1, SamePending
    <3>. QED  BY <1>1, <3>1, <3>2, SameCount, CountMeans
  <2>. QED  BY <1>1, <2>2, CountMeans
<1>2. CASE /\ messages' = WithDeletion(d)
           /\ Goto(r, IF t # None THEN "uncount" ELSE "retract")
           /\ drift' = IF Live(d) THEN drift ELSE drift \cup Wrong(t)
  <2>1. /\ DOMAIN messages' = DOMAIN messages
        /\ \A i \in DOMAIN messages :
             /\ messages'[i].thread = messages[i].thread
             /\ messages'[i].replies = messages[i].replies
             /\ messages'[i].deleted = IF i = d THEN TRUE ELSE messages[i].deleted
    BY <1>0, <1>2, DeletionEffect DEF SameFields
  <2>a. ASSUME NEW m
        PROVE  Replies(m)' = Replies(m) \ {d}
    <3>1. /\ DOMAIN messages' = DOMAIN messages
          /\ \A i \in DOMAIN messages : messages'[i].thread = messages[i].thread
          /\ \A i \in DOMAIN messages : messages'[i].deleted <=> messages[i].deleted \/ i = d
      BY <2>1
    <3> HIDE DEF d
    <3>. QED  BY <3>1 DEF Replies, Live
  <2>2. req'[r].thread = t /\ req'[r].pc = IF t # None THEN "uncount" ELSE "retract"
    BY <1>0, <1>2 DEF Goto, Request
  <2>3. ASSUME NEW m \in DOMAIN messages \ drift'
        PROVE  CountOK(m)'
    <3>0. m # None /\ m \notin drift /\ CountOK(m)
      BY <1>2, IdsInTable, CountMeans DEF IInv
    <3>1. CASE m # t
      <4>1. Replies(m)' = Replies(m)
        BY <1>0, <2>a, <3>1 DEF Replies
      <4>2. Pending(m)' = Pending(m)
        BY <1>0, <2>2, <3>1, SamePending
      <4>. QED  BY <2>1, <3>0, <4>1, <4>2, SameCount
    <3>2. CASE m = t
      <4>1. Live(d)
        BY <1>2, <3>0, <3>2 DEF Wrong
      <4>2. d \in Replies(m) /\ Replies(m)' = Replies(m) \ {d}
        BY <1>0, <2>a, <3>2, <4>1 DEF Replies
      <4>3. IsFiniteSet(Replies(m))
        BY CountsFinite
      <4>4. Cardinality(Replies(m)') = Cardinality(Replies(m)) - 1
        <5>1. Cardinality(Replies(m) \ {d}) = Cardinality(Replies(m)) - 1
          BY <4>2, <4>3, FS_RemoveElement
        <5>. QED  BY <4>2, <5>1
      <4>5. Cardinality(Pending(m)') = Cardinality(Pending(m)) + 1
        BY <1>0, <2>2, <3>0, <3>2, MorePending
      <4>6. messages'[m].replies = messages[m].replies
        BY <2>1
      <4>. QED  BY <3>0, <4>4, <4>5, <4>6, CountsFinite DEF CountOK
    <3>. QED  BY <3>1, <3>2
  <2>. QED  BY <2>1, <2>3, CountMeans
<1>. QED  BY <1>1, <1>2 DEF SoftDeleteMessage

LEMMA OthersCount ==
    ASSUME IInv, Kept, ReplyCount, NEW r \in Requests,
           \/ PublishMessage(r) \/ PublishMessageDelete(r) \/ PublishMessageUpdate(r)
           \/ \E m \in DOMAIN messages : DeleteMessage(r, m)
           \/ \E t \in Texts : EditMessage(r, t)
           \/ CreateMessageEdit(r) \/ UpdateMessageContent(r)
    PROVE  ReplyCount'
<1> USE DEF At
<1>0. req \in [Requests -> Request] /\ RequestOK(req[r], messages, drift)
  BY RequestNow DEF IInv, RequestsOK
<1>1. /\ UNCHANGED <<messages, drift>>
      /\ \A x \in Requests : x # r => req'[x] = req[x]
      /\ req[r].pc \notin {"create", "uncount"} /\ req'[r].pc \notin {"create", "uncount"}
  <2>1. CASE PublishMessage(r) \/ PublishMessageDelete(r) \/ PublishMessageUpdate(r)
    BY <1>0, <2>1 DEF PublishMessage, PublishMessageDelete, PublishMessageUpdate, Finish,
                      NoRequest
  <2>2. CASE CreateMessageEdit(r) \/ UpdateMessageContent(r)
    BY <1>0, <2>2 DEF CreateMessageEdit, UpdateMessageContent, Goto, Finish, NoRequest, Request
  <2>3. ASSUME NEW m \in DOMAIN messages, DeleteMessage(r, m)
        PROVE  req'[r].pc = "remove"
    BY <1>0, <2>3 DEF DeleteMessage, NoRequest
  <2>4. ASSUME NEW t \in Texts, EditMessage(r, t)
        PROVE  req'[r].pc = "save"
    BY <1>0, <2>4 DEF EditMessage, NoRequest
  <2>5. ASSUME \/ \E m \in DOMAIN messages : DeleteMessage(r, m)
               \/ \E t \in Texts : EditMessage(r, t)
        PROVE  /\ UNCHANGED <<messages, drift>> /\ req[r].pc = "idle"
               /\ \A x \in Requests : x # r => req'[x] = req[x]
    BY <1>0, <2>5 DEF DeleteMessage, EditMessage
  <2>. QED  BY <2>1, <2>2, <2>3, <2>4, <2>5
<1>2. ASSUME NEW m \in DOMAIN messages \ drift
      PROVE  CountOK(m)'
  <2>1. Replies(m)' = Replies(m)
    BY <1>1 DEF Replies, Live
  <2>2. Pending(m)' = Pending(m)
    BY <1>1, SamePending
  <2>. QED  BY <1>1, <2>1, <2>2, SameCount, CountMeans
<1>. QED  BY <1>1, <1>2, CountMeans

LEMMA CountsStay ==
    ASSUME IInv, ReplyCount, [Next]_vars
    PROVE  ReplyCount'
<1>1. CASE ListMessages \/ UNCHANGED vars
  <2>1. UNCHANGED <<messages, req, drift>>
    BY <1>1 DEF ListMessages, vars
  <2>. QED  BY <2>1 DEF ReplyCount, Live
<1>. QED  BY <1>1, StepKeeps, MarkCounts, IncrementCounts, CreateCounts, DeletionCounts,
             DecrementCounts, OthersCount DEF Next, RequestStep

LEMMA InitCounts == Init => ReplyCount
BY EmptySeq, LenProperties DEF Init, ReplyCount

\* The reply count of a thread is the number of its replies, give or take those
\* a request is about to create or to subtract (service.go:156-176, 321-331).
THEOREM ReplyCountHolds == Spec => []ReplyCount
<1>1. IInv /\ ReplyCount /\ [Next]_vars => ReplyCount'
  BY CountsStay
<1>. QED  BY IInvHolds, InitCounts, <1>1, PTL DEF Spec
================================================================================
