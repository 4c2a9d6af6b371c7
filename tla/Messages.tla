--------------------------------- MODULE Messages ---------------------------------
(***************************************************************************)
(* The messages of a channel (internal/messages/service.go): threads and   *)
(* their reply counts, edits and their history, and deletion.              *)
(*                                                                         *)
(* Sending, editing and deleting are each several calls of the database    *)
(* without a transaction, then an event.  A step is one write, or the      *)
(* reads an operation starts with; any write or lookup may fail.           *)
(*                                                                         *)
(* Of the first message the rest is followed too: its text, its history,   *)
(* and what the client of a connected member shows of it.                  *)
(***************************************************************************)
EXTENDS Naturals, Sequences, FiniteSets

CONSTANTS Texts, NoText,
          Requests,     \* slots: as many requests run at once
          MaxMessages,  \* bound on the messages that are sent
          MaxReplies    \* bound on the count up to which a thread is replied to,
                        \* which requests that fail after counting raise, too

ASSUME MessagesAssumption ==
    /\ NoText \notin Texts
    /\ IsFiniteSet(Requests)
    /\ MaxMessages \in Nat /\ MaxReplies \in Nat

VARIABLES
    messages,     \* the rows, in the order of their creation
    text,         \* content of the first message
    edits,        \* message_edits of the first message: the previous contents
    req,          \* the requests in progress
    shown,        \* the first message's content on the client, or NoText
    had,          \* history: every content the first message has had
    missed,       \* history: an edit's record failed, or two edits ran at once
    drift,        \* history: threads of which a write failed, or a reply was deleted twice
    unsure        \* history: the client may be wrong

vars == <<messages, text, edits, req, shown, had, missed, drift, unsure>>
first == <<text, edits, had, missed>>
client == <<shown, unsure>>

Ids == 1..MaxMessages
First == 1
None == 0

\* thread: the root a reply belongs to.
Message == [thread : Ids \cup {None}, root : BOOLEAN, replies : Nat, deleted : BOOLEAN]

Phases == {"idle", "mark", "count", "create", "announce", "remove", "uncount", "retract",
           "save", "write", "revise"}
Request == [pc : Phases, msg : Ids \cup {None}, thread : Ids \cup {None},
            old : Texts \cup {NoText}, new : Texts \cup {NoText}]
NoRequest == [pc |-> "idle", msg |-> None, thread |-> None, old |-> NoText, new |-> NoText]

TypeOK ==
    /\ messages \in Seq(Message) /\ Len(messages) <= MaxMessages
    /\ text \in Texts \cup {NoText} /\ shown \in Texts \cup {NoText}
    /\ edits \subseteq Texts /\ had \subseteq Texts
    /\ missed \in BOOLEAN /\ unsure \in BOOLEAN
    /\ req \in [Requests -> Request]
    /\ \A r \in Requests : /\ req[r].msg \in DOMAIN messages \cup {None}
                           /\ req[r].thread \in DOMAIN messages \cup {None}
    /\ drift \subseteq DOMAIN messages

Init ==
    /\ messages = <<>>
    /\ text = NoText /\ edits = {} /\ shown = NoText
    /\ req = [r \in Requests |-> NoRequest]
    /\ had = {} /\ missed = FALSE /\ drift = {} /\ unsure = FALSE
--------------------------------------------------------------------------------
At(r, phase) == req[r].pc = phase
Goto(r, phase) == req' = [req EXCEPT ![r].pc = phase]
Finish(r) == req' = [req EXCEPT ![r] = NoRequest]
\* What GetMessageByID finds.
Live(m) == m \in DOMAIN messages /\ ~messages[m].deleted

\* The table after each of the queries.  The counts of a deleted message go on
\* changing.
WithMessage(thread) ==
    Append(messages, [thread |-> thread, root |-> FALSE, replies |-> 0, deleted |-> FALSE])
WithRoot(m) == IF Live(m) THEN [messages EXCEPT ![m].root = TRUE] ELSE messages
WithReplyMore(m) == [messages EXCEPT ![m].replies = @ + 1]
WithReplyLess(m) == [messages EXCEPT ![m].replies = IF @ > 0 THEN @ - 1 ELSE 0]
WithDeletion(m) == [messages EXCEPT ![m].deleted = TRUE]

\* A row of the history, and the content it precedes: there is no row to update
\* once the message is deleted.
InsertEdit(old) == edits' = edits \cup {old}
UpdateContent(new) == Live(First) /\ text' = new /\ had' = had \cup {new}

\* The requests about a message that exists, and those that will make one.
Handling(m) == {r \in Requests : req[r].msg = m}
Sending == {r \in Requests : req[r].pc \in {"mark", "count", "create"}}

\* Whether a request about a message starts while another one runs.
Overlap(m) == m = First /\ Handling(First) # {}
Wrong(m) == IF m = None THEN {} ELSE {m}

\* Mutant: the reply to a reply starts a thread below it.
ThreadOfParent(p) == p

\* A reply belongs to its parent's thread, or starts one.
ThreadOf(p) == IF messages[p].thread # None THEN messages[p].thread ELSE p

\* SendMessage, without a parent or with one that was just read.
SendMessage(r) ==
    /\ At(r, "idle")
    /\ Len(messages) + Cardinality(Sending) < MaxMessages
    /\ \/ Goto(r, "create")
       \/ \E p \in DOMAIN messages :
            /\ Live(p)
            /\ messages[ThreadOf(p)].replies < MaxReplies
            /\ req' = [req EXCEPT ![r] =
                 [NoRequest EXCEPT !.thread = ThreadOf(p),
                                   !.pc = IF messages[p].thread = None /\ ~messages[p].root
                                          THEN "mark" ELSE "count"]]
    /\ UNCHANGED <<messages, first, client, drift>>

MarkAsThreadRoot(r) ==
    /\ At(r, "mark")
    /\ LET m == req[r].thread IN
         \/ messages' = WithRoot(m) /\ UNCHANGED drift
         \/ drift' = drift \cup {m} /\ UNCHANGED messages
    /\ Goto(r, "count")
    /\ UNCHANGED <<first, client>>

\* Before the reply exists.
IncrementReplyCount(r) ==
    /\ At(r, "count")
    /\ LET m == req[r].thread IN
         \/ messages' = WithReplyMore(m) /\ UNCHANGED drift
         \/ drift' = drift \cup {m} /\ UNCHANGED messages
    /\ Goto(r, "create")
    /\ UNCHANGED <<first, client>>

CreateMessage(r) ==
    /\ At(r, "create")
    /\ \/ LET m == Len(messages) + 1 IN
          /\ messages' = WithMessage(req[r].thread)
          /\ IF m = First THEN text' \in Texts /\ had' = {text'}
                          ELSE UNCHANGED <<text, had>>
          /\ req' = [req EXCEPT ![r].pc = "announce", ![r].msg = m,
                                ![r].new = IF m = First THEN text' ELSE NoText]
          /\ UNCHANGED drift
       \/ Finish(r) /\ drift' = drift \cup Wrong(req[r].thread) /\ UNCHANGED <<messages, text, had>>
    /\ UNCHANGED <<edits, missed, client>>

\* An event reaches the client, unless a lookup on the way to it fails.
PublishMessage(r) ==
    /\ At(r, "announce")
    /\ LET m == req[r].msg IN
         \/ shown' = (IF m = First THEN req[r].new ELSE shown) /\ UNCHANGED unsure
         \/ unsure' = (unsure \/ m = First) /\ UNCHANGED shown
    /\ Finish(r)
    /\ UNCHANGED <<messages, first, drift>>
--------------------------------------------------------------------------------
DeleteMessage(r, m) ==
    /\ At(r, "idle")
    /\ Live(m)
    /\ req' = [req EXCEPT ![r] = [NoRequest EXCEPT !.pc = "remove", !.msg = m,
                                                   !.thread = messages[m].thread]]
    /\ unsure' = (unsure \/ Overlap(m))
    /\ UNCHANGED <<messages, first, shown, drift>>

\* Mutant: an error of the deletion is only logged.
SoftDeleteUnchecked(r) ==
    /\ At(r, "remove")
    /\ \/ messages' = WithDeletion(req[r].msg)
       \/ UNCHANGED messages
    /\ Goto(r, IF req[r].thread # None THEN "uncount" ELSE "retract")
    /\ UNCHANGED <<drift, first, client>>

\* Mutant: the thread's count is not touched.
SoftDeleteKeepsCount(r) ==
    /\ At(r, "remove")
    /\ messages' = WithDeletion(req[r].msg)
    /\ Goto(r, "retract")
    /\ UNCHANGED <<first, client, drift>>

\* Of a message that has been deleted since, nothing is changed, and no error
\* tells the request so.
SoftDeleteMessage(r) ==
    /\ At(r, "remove")
    /\ \/ LET m == req[r].msg IN
          /\ messages' = WithDeletion(m)
          /\ Goto(r, IF req[r].thread # None THEN "uncount" ELSE "retract")
          /\ drift' = IF Live(m) THEN drift ELSE drift \cup Wrong(req[r].thread)
       \/ Finish(r) /\ UNCHANGED <<messages, drift>>
    /\ UNCHANGED <<first, client>>

\* Mutant: the count may fall below zero.
DecrementUnbounded(r) ==
    /\ At(r, "uncount")
    /\ messages' = [messages EXCEPT ![req[r].thread].replies = @ - 1]
    /\ Goto(r, "retract")
    /\ UNCHANGED <<first, client, drift>>

DecrementReplyCount(r) ==
    /\ At(r, "uncount")
    /\ LET m == req[r].thread IN
         \/ messages' = WithReplyLess(m) /\ UNCHANGED drift
         \/ drift' = drift \cup {m} /\ UNCHANGED messages
    /\ Goto(r, "retract")
    /\ UNCHANGED <<first, client>>

PublishMessageDelete(r) ==
    /\ At(r, "retract")
    /\ shown' = IF req[r].msg = First THEN NoText ELSE shown
    /\ Finish(r)
    /\ UNCHANGED <<messages, first, drift, unsure>>
--------------------------------------------------------------------------------
\* EditMessage: it reads the content that it will record as the previous one.
EditMessage(r, t) ==
    /\ At(r, "idle")
    /\ Live(First)
    /\ req' = [req EXCEPT ![r] = [NoRequest EXCEPT !.pc = "save", !.msg = First,
                                                   !.old = text, !.new = t]]
    /\ missed' = (missed \/ \E q \in Requests : At(q, "save") \/ At(q, "write"))
    /\ unsure' = (unsure \/ Overlap(First))
    /\ UNCHANGED <<messages, text, edits, had, shown, drift>>

\* Mutant: the new content is recorded.
RecordNewContent(r) ==
    /\ At(r, "save")
    /\ edits' = edits \cup {req[r].new}
    /\ Goto(r, "write")
    /\ UNCHANGED <<messages, text, had, missed, client, drift>>

CreateMessageEdit(r) ==
    /\ At(r, "save")
    /\ \/ InsertEdit(req[r].old) /\ UNCHANGED missed
       \/ missed' = TRUE /\ UNCHANGED edits
    /\ Goto(r, "write")
    /\ UNCHANGED <<messages, text, had, client, drift>>

\* Mutant: the update does not ask whether the message was deleted.
UpdateAnyContent(r) ==
    /\ At(r, "write")
    /\ text' = req[r].new
    /\ had' = had \cup {req[r].new}
    /\ Goto(r, "revise")
    /\ UNCHANGED <<messages, edits, missed, client, drift>>

UpdateMessageContent(r) ==
    /\ At(r, "write")
    /\ \/ UpdateContent(req[r].new) /\ Goto(r, "revise")
       \/ Finish(r) /\ UNCHANGED <<text, had>>
    /\ UNCHANGED <<messages, edits, missed, client, drift>>

PublishMessageUpdate(r) ==
    /\ At(r, "revise")
    /\ \/ shown' = (IF shown = NoText THEN NoText ELSE req[r].new) /\ UNCHANGED unsure
       \/ unsure' = TRUE /\ UNCHANGED shown
    /\ Finish(r)
    /\ UNCHANGED <<messages, first, drift>>

\* The client loads the channel and its threads.
ListMessages ==
    /\ shown' = IF Live(First) THEN text ELSE NoText
    /\ unsure' = (unsure /\ Handling(First) # {})
    /\ UNCHANGED <<messages, first, req, drift>>

RequestStep(r) ==
    \/ SendMessage(r) \/ MarkAsThreadRoot(r) \/ IncrementReplyCount(r)
    \/ CreateMessage(r) \/ PublishMessage(r)
    \/ \E m \in DOMAIN messages : DeleteMessage(r, m)
    \/ SoftDeleteMessage(r) \/ DecrementReplyCount(r) \/ PublishMessageDelete(r)
    \/ \E t \in Texts : EditMessage(r, t)
    \/ CreateMessageEdit(r) \/ UpdateMessageContent(r) \/ PublishMessageUpdate(r)

Next == (\E r \in Requests : RequestStep(r)) \/ ListMessages

Spec == Init /\ [][Next]_vars
--------------------------------------------------------------------------------
\* Threads are one level deep, whatever is replied to, marked or deleted in the
\* meantime, and the root of one is marked as such, unless that write failed or
\* the root was deleted first (service.go:144-154).
FlatThreads ==
    \A m \in DOMAIN messages : messages[m].thread # None =>
        LET root == messages[messages[m].thread] IN
        /\ root.thread = None
        /\ root.root \/ root.deleted \/ messages[m].thread \in drift

\* The reply count of a thread is the number of its replies that are not deleted,
\* those about to be created and those not yet subtracted included, unless a
\* write failed or two requests deleted the same reply (service.go:156-176, 321-331).
ReplyCount ==
    \A m \in DOMAIN messages \ drift :
        messages[m].replies =
            Cardinality({i \in DOMAIN messages : messages[i].thread = m /\ Live(i)})
            + Cardinality({r \in Requests : req[r].thread = m /\ req[r].pc \in {"create", "uncount"}})

\* A deleted message stays as it was when it was deleted, though an edit may have
\* read it before (service.go:224-276).
DeletedIsFinal ==
    [][\A m \in DOMAIN messages : messages[m].deleted =>
           messages'[m].deleted /\ (m = First => text' = text)]_vars

\* The edit history and the current content hold every content the message has
\* had, unless two edits ran at once or a record failed (service.go:259-276).
HistoryComplete == ~missed => had \subseteq edits \cup {text}

\* Once the requests about a message are over the client shows it as the database
\* has it, or not at all if it is deleted, unless requests about it ran at once or
\* an event was not sent.
ViewMatches ==
    ~unsure /\ Handling(First) = {} => shown = IF Live(First) THEN text ELSE NoText

\* What holds of every state whatever failed: the types (no count falls below zero)
\* and the threads' depth.
Inv == TypeOK /\ FlatThreads
================================================================================
