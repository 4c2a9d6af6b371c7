----------------------------------- MODULE Timeline -----------------------------------
(***************************************************************************)
(* The messages of channels as clients page through them                   *)
(* (ListChannelMessages in internal/messages/service.go) and count those   *)
(* they have not read (internal/messages/readstate.go).                    *)
(*                                                                         *)
(* A message is inserted by one statement: created_at is the statement's   *)
(* start, and the row is seen from its commit on.  Two messages may have   *)
(* one created_at; their ids, which are random, then decide: here the name *)
(* of the row.  The clocks of the server and of the database are one.      *)
(*                                                                         *)
(* Sending and deleting are Messages' concern: here they are single steps. *)
(* GetChannelUnreadCounts and GetReadState have no caller.                 *)
(***************************************************************************)
EXTENDS Channels, SequencesExt

CONSTANTS MaxMessages, MaxTime,   \* bounds: messages and time
          PageSizes               \* the limits clients ask for

ASSUME TimelineAssumption ==
    MaxMessages \in Nat /\ MaxTime \in Nat /\ PageSizes \subseteq Nat \ {0}

VARIABLES
    messages,   \* the rows
    now,        \* the time
    markedAt    \* history: when a user last had a space marked as read

timelineVars == <<messages, now, markedAt>>

Rows == 1..MaxMessages
Free == [state |-> "free"]
Message == [state : {"inserted", "visible", "deleted"}, channel : 1..MaxChannels,
            at : 0..MaxTime, reply : BOOLEAN]
Visible == {m \in Rows : messages[m].state = "visible"}

NoCursor == [at |-> 0, id |-> 0]
TimelineRequest ==
    [pc : {"send"}, channel : 1..MaxChannels, reply : BOOLEAN]
    \cup [pc : {"commit"}, message : Rows]
    \cup [pc : {"page", "end"}, channel : 1..MaxChannels, user : Users, limit : PageSizes,
          cursor : [at : 0..MaxTime, id : 0..MaxMessages], got : Seq(Rows),
          present : SUBSET Rows]
    \cup [pc : {"mark"}, space : Spaces, user : Users, at : 0..MaxTime, began : 0..MaxTime]

TimelineType ==
    /\ messages \in [Rows -> Message \cup {Free}]
    /\ now \in 0..MaxTime
    /\ markedAt \in [Spaces -> [Users -> 0..MaxTime]]
--------------------------------------------------------------------------------
(* The queries. *)

GetMessageByID(m) == m \in Visible

CreateMessage(m, c, reply) ==
    messages' = [messages EXCEPT ![m] = [state |-> "inserted", channel |-> c, at |-> now,
                                         reply |-> reply]]

\* Mutant: an earlier time alone comes after the cursor.
EarlierThan(m, cursor) == messages[m].at < cursor.at

ComesAfter(m, cursor) ==
    messages[m].at < cursor.at \/ (messages[m].at = cursor.at /\ m < cursor.id)

\* ORDER BY created_at DESC, id DESC
Newer(m, n) == messages[m].at > messages[n].at \/ (messages[m].at = messages[n].at /\ m > n)

Place(m, rows) == Cardinality({x \in rows : Newer(x, m)}) + 1
FirstOf(rows, n) ==
    LET size == IF Cardinality(rows) < n THEN Cardinality(rows) ELSE n
    IN [i \in 1..size |-> CHOOSE m \in rows : Place(m, rows) = i]

\* The first n rows of the channel; replies are not among them.
ListChannelMessages(c, n) ==
    FirstOf({m \in Visible : messages[m].channel = c /\ ~messages[m].reply}, n)
\* The first n of those that come after the cursor.
ListChannelMessagesCursor(c, cursor, n) ==
    FirstOf({m \in Visible : /\ messages[m].channel = c /\ ~messages[m].reply
                             /\ ComesAfter(m, cursor)}, n)

\* A cursor holds created_at as precisely as the column does.
EncodeCursor(m) == [at |-> messages[m].at, id |-> m]

\* Of the row there is; none, if the user has left.  A row never marked has time 0.
UpdateReadState(s, u, at) ==
    memberships' = IF memberships[s][u].role = "none" THEN memberships
                   ELSE [memberships EXCEPT ![s][u].read = at]

\* The user's own messages and replies count, too; without a membership all do.
GetUnreadCount(c, u) ==
    Cardinality({m \in Visible : /\ messages[m].channel = c
                                 /\ messages[m].at > memberships[channels[c].space][u].read})
--------------------------------------------------------------------------------
\* Channel and membership are looked at before anything else is.
MayRead(c, u) == GetChannelByID(c) /\ CheckSpacePermission(channels[c].space, u, "member")

SendMessage(r) ==
    /\ At(r, "idle")
    /\ \E c \in Ids, u \in Users, reply \in BOOLEAN :
        /\ MayRead(c, u)
        /\ Start(r, [pc |-> "send", channel |-> c, reply |-> reply])
    /\ UNCHANGED <<memberships, channelVars, timelineVars>>

InsertMessage(r) ==
    /\ At(r, "send")
    /\ \E m \in Rows :
        /\ messages[m] = Free
        /\ CreateMessage(m, req[r].channel, req[r].reply)
        /\ Start(r, [pc |-> "commit", message |-> m])
    /\ UNCHANGED <<memberships, channelVars, now, markedAt>>

CommitMessage(r) ==
    /\ At(r, "commit")
    /\ messages' = [messages EXCEPT ![req[r].message].state = "visible"]
    /\ End(r)
    /\ UNCHANGED <<memberships, channelVars, now, markedAt>>

\* Whoever may delete it does so at any time, in one step.
SoftDeleteMessage(m) ==
    /\ GetMessageByID(m) /\ GetChannelByID(messages[m].channel)
    /\ messages' = [messages EXCEPT ![m].state = "deleted"]
    /\ UNCHANGED <<memberships, channelVars, req, now, markedAt>>
--------------------------------------------------------------------------------
(* A client reads a channel from its end to its beginning, one request a page. *)

ListMessages(r) ==
    /\ At(r, "idle")
    /\ \E c \in Ids, u \in Users, n \in PageSizes :
        /\ MayRead(c, u)
        /\ Start(r, [pc |-> "page", channel |-> c, user |-> u, limit |-> n,
                     cursor |-> NoCursor, got |-> <<>>,
                     present |-> {m \in Visible : messages[m].channel = c}])
    /\ UNCHANGED <<memberships, channelVars, timelineVars>>

\* One row more than the page is fetched: it says whether the client is to go on.
FetchPage(r) ==
    LET c == req[r].channel
        n == req[r].limit
        cursor == req[r].cursor
        rows == IF cursor = NoCursor THEN ListChannelMessages(c, n + 1)
                ELSE ListChannelMessagesCursor(c, cursor, n + 1)
        hasMore == Len(rows) > n
        page == IF hasMore THEN SubSeq(rows, 1, n) ELSE rows
    IN /\ At(r, "page")
       /\ MayRead(c, req[r].user)
       /\ IF hasMore
            THEN req' = [req EXCEPT ![r].got = @ \o page, ![r].cursor = EncodeCursor(page[n])]
            ELSE req' = [req EXCEPT ![r].got = @ \o page, ![r].pc = "end"]
       /\ UNCHANGED <<memberships, channelVars, timelineVars>>
--------------------------------------------------------------------------------
(* Read state: one for each membership. *)

NoMessage == 0

\* The message may be of any channel; without one, the time is taken before the update.
BeginMark(r, c, u, m) ==
    /\ MayRead(c, u)
    /\ m # NoMessage => GetMessageByID(m)
    /\ Start(r, [pc |-> "mark", space |-> channels[c].space, user |-> u, began |-> now,
                 at |-> IF m = NoMessage THEN now ELSE messages[m].at])
    /\ UNCHANGED <<memberships, channelVars, timelineVars>>

MarkChannelAsRead(r) ==
    /\ At(r, "idle")
    /\ \E c \in Ids, u \in Users, m \in Rows \cup {NoMessage} : BeginMark(r, c, u, m)

\* Mutant: the time is taken by the update.
MarkUpToUpdate(r) ==
    LET s == req[r].space
        u == req[r].user
    IN /\ At(r, "mark")
       /\ UpdateReadState(s, u, now)
       /\ markedAt' = [markedAt EXCEPT ![s][u] = req[r].began]
       /\ End(r)
       /\ UNCHANGED <<channelVars, messages, now>>

StoreReadState(r) ==
    LET s == req[r].space
        u == req[r].user
    IN /\ At(r, "mark")
       /\ UpdateReadState(s, u, req[r].at)
       /\ markedAt' = [markedAt EXCEPT ![s][u] = req[r].began]
       /\ End(r)
       /\ UNCHANGED <<channelVars, messages, now>>

\* What a client that may read the channel is told.
Unread(c, u) == IF MayRead(c, u) THEN {GetUnreadCount(c, u)} ELSE {}

Tick ==
    /\ now < MaxTime
    /\ now' = now + 1
    /\ UNCHANGED <<memberships, channelVars, req, messages, markedAt>>

TimelineStep(r) ==
    \/ SendMessage(r) \/ InsertMessage(r) \/ CommitMessage(r)
    \/ ListMessages(r) \/ FetchPage(r)
    \/ MarkChannelAsRead(r) \/ StoreReadState(r)
--------------------------------------------------------------------------------
\* A client that has paged to the beginning of a channel has every message that was there
\* from the start and still is, and none twice, newest first, whatever was sent or deleted
\* between two pages (messages/service.go:413-499).
PagesComplete ==
    \A r \in Requests : req[r].pc \in {"page", "end"} =>
        LET got == req[r].got
        IN /\ \A i, j \in DOMAIN got : i < j => Newer(got[i], got[j])
           /\ At(r, "end") =>
                {m \in req[r].present \cap Visible : ~messages[m].reply} \subseteq ToSet(got)

\* A message created after the user last had anything of the space marked as read is
\* unread in its channel, however late the mark was written (messages/readstate.go:77).
UnreadAfterMark ==
    \A c \in Ids, u \in Users : \A count \in Unread(c, u) :
        count >=
            Cardinality({m \in Visible : /\ messages[m].channel = c
                                         /\ messages[m].at > markedAt[channels[c].space][u]})
================================================================================
