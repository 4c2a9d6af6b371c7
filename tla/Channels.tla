----------------------------------- MODULE Channels -----------------------------------
(***************************************************************************)
(* The channels of spaces and their order (internal/channels/service.go,   *)
(* internal/api/handlers/channels.go).                                     *)
(*                                                                         *)
(* A request is a sequence of queries without a transaction: an action is  *)
(* the reads a request starts with, or one query after them; any query may *)
(* fail.  A request that is refused at its start changes nothing and is no *)
(* step, and each request is served once.  The requests and the            *)
(* memberships are shared with Timeline and Reactions; module Conversation *)
(* puts the three together.                                                *)
(*                                                                         *)
(* A channel is named by its place in the order of creation.  Names and    *)
(* the number of participants are left out.                                *)
(***************************************************************************)
EXTENDS Integers, Sequences, FiniteSets

CONSTANTS Users, InstanceAdmins, Spaces, Requests,
          MaxChannels,   \* bound: channels ever created
          MaxListed      \* bound: channels in a request to reorder

ASSUME ChannelsAssumption ==
    InstanceAdmins \subseteq Users /\ MaxChannels \in Nat /\ MaxListed \in Nat

VARIABLES
    memberships,   \* role and read state of a user in a space
    channels,      \* the rows, in the order of created_at
    req,           \* the requests
    asked,         \* history: the order a space was last given, while nothing has disturbed it
    disturbed      \* history: reorders in whose writes another has written

channelVars == <<channels, asked, disturbed>>

Kinds == {"text", "voice"}
Channel == [space : Spaces, type : Kinds, position : Nat, live : BOOLEAN]
Ids == 1..Len(channels)
Lists == UNION {[1..n -> 1..MaxChannels] : n \in 1..MaxListed}

Idle == [pc |-> "idle"]
Done == [pc |-> "done"]
ChannelRequest ==
    [pc : {"insert"}, space : Spaces, type : Kinds]
    \cup [pc : {"update"}, channel : 1..MaxChannels, type : Kinds \cup {"same"}]
    \cup [pc : {"close"}, channel : 1..MaxChannels]
    \cup [pc : {"whose", "move"}, space : Spaces, list : Lists, i : 1..MaxListed]

ChannelsType ==
    /\ channels \in Seq(Channel) /\ Len(channels) <= MaxChannels
    /\ asked \in [Spaces -> Lists \cup {<<>>}]
    /\ disturbed \subseteq Requests
--------------------------------------------------------------------------------
At(r, phase) == req[r].pc = phase
Start(r, fields) == req' = [req EXCEPT ![r] = fields]
Goto(r, phase) == req' = [req EXCEPT ![r].pc = phase]
End(r) == req' = [req EXCEPT ![r] = Done]

(* The queries, each by the name it has in internal/db. *)

GetUserSpaceRole(s, u) == memberships[s][u].role
GetChannelByID(c) == c \in Ids /\ channels[c].live

\* Mutant: the space is not compared.
GetAnySpaceID(c, s) == c \in Ids /\ channels[c].live
GetSpaceIDByChannelID(c, s) == c \in Ids /\ channels[c].live /\ channels[c].space = s

\* Live channels of the space, by position, then by creation: the pairs of a channel
\* and one listed after it.
ListSpaceChannels(s) ==
    {p \in Ids \X Ids :
        /\ \A i \in {1, 2} : channels[p[i]].live /\ channels[p[i]].space = s
        /\ \/ channels[p[1]].position < channels[p[2]].position
           \/ channels[p[1]].position = channels[p[2]].position /\ p[1] < p[2]}

GetMaxChannelPosition(s) ==
    LET taken == {channels[c].position : c \in {d \in Ids : channels[d].live /\ channels[d].space = s}}
    IN IF taken = {} THEN -1 ELSE CHOOSE p \in taken : \A q \in taken : q <= p

InsertRow(s, k, p) ==
    channels' = Append(channels, [space |-> s, type |-> k, position |-> p, live |-> TRUE])

\* Mutant: a column the request does not name is written all the same.
OverwriteRow(c, k) ==
    channels' = [channels EXCEPT ![c].type = IF k = "same" THEN @ ELSE k, ![c].position = 0]

\* The columns the request names; the position never is.
UpdateRow(c, k) == channels' = [channels EXCEPT ![c].type = IF k = "same" THEN @ ELSE k]

SoftDeleteChannel(c) == channels' = [channels EXCEPT ![c].live = FALSE]

\* The row, unless it has been deleted since.
UpdateChannelPosition(c, p) ==
    channels' = IF channels[c].live THEN [channels EXCEPT ![c].position = p] ELSE channels

HasMinRole(ro, least) ==
    CASE least = "member" -> ro # "none"
      [] least = "admin"  -> ro \in {"admin", "owner"}

\* isInstanceAdmin comes from the access token.
CheckSpacePermission(s, u, least) ==
    u \in InstanceAdmins \/ HasMinRole(GetUserSpaceRole(s, u), least)
--------------------------------------------------------------------------------
\* Mutant: the greatest position itself.
LastPosition(s) == GetMaxChannelPosition(s)

\* The greatest position of an INT column arrives as an int32.  The code takes an int64
\* only: the position stays the 0 it starts with, whatever the space holds.
ScannedAs == "int32"
NextPosition(s) == IF ScannedAs = "int64" THEN GetMaxChannelPosition(s) + 1 ELSE 0

BeginCreate(r, s, u, k) ==
    /\ CheckSpacePermission(s, u, "admin")
    /\ Start(r, [pc |-> "insert", space |-> s, type |-> k])
    /\ UNCHANGED <<memberships, channelVars>>

CreateChannel(r) ==
    /\ At(r, "idle")
    /\ \E s \in Spaces, u \in Users, k \in Kinds : BeginCreate(r, s, u, k)

InsertChannel(r) ==
    LET s == req[r].space
    IN /\ At(r, "insert")
       /\ Len(channels) < MaxChannels
       /\ InsertRow(s, req[r].type, NextPosition(s))
       /\ End(r)
       /\ UNCHANGED <<memberships, asked, disturbed>>

BeginUpdate(r, c, u, k) ==
    /\ GetChannelByID(c)
    /\ CheckSpacePermission(channels[c].space, u, "admin")
    /\ Start(r, [pc |-> "update", channel |-> c, type |-> k])
    /\ UNCHANGED <<memberships, channelVars>>

UpdateChannel(r) ==
    /\ At(r, "idle")
    /\ \E c \in Ids, u \in Users, k \in Kinds \cup {"same"} : BeginUpdate(r, c, u, k)

StoreChannel(r) ==
    /\ At(r, "update")
    /\ GetChannelByID(req[r].channel)
    /\ UpdateRow(req[r].channel, req[r].type)
    /\ End(r)
    /\ UNCHANGED <<memberships, asked, disturbed>>

BeginDelete(r, c, u) ==
    /\ GetChannelByID(c)
    /\ CheckSpacePermission(channels[c].space, u, "admin")
    /\ Start(r, [pc |-> "close", channel |-> c])
    /\ UNCHANGED <<memberships, channelVars>>

DeleteChannel(r) == At(r, "idle") /\ \E c \in Ids, u \in Users : BeginDelete(r, c, u)

CloseChannel(r) ==
    /\ At(r, "close")
    /\ SoftDeleteChannel(req[r].channel)
    /\ End(r)
    /\ UNCHANGED <<memberships, asked, disturbed>>
--------------------------------------------------------------------------------
(* Reordering: one lookup and one update for each channel of the list. *)

BeginReorder(r, s, u, list) ==
    /\ CheckSpacePermission(s, u, "admin")
    /\ Start(r, [pc |-> "whose", space |-> s, list |-> list, i |-> 1])
    /\ UNCHANGED <<memberships, channelVars>>

ReorderChannels(r) ==
    /\ At(r, "idle")
    /\ \E s \in Spaces, u \in Users, list \in Lists :
        (\A i \in DOMAIN list : list[i] \in Ids) /\ BeginReorder(r, s, u, list)

\* A channel that is gone, or of another space, ends the request (Refused); what was
\* moved before it stays moved.
CheckListed(r) ==
    /\ At(r, "whose")
    /\ GetSpaceIDByChannelID(req[r].list[req[r].i], req[r].space)
    /\ Goto(r, "move")
    /\ UNCHANGED <<memberships, channelVars>>

Reordering(s) == {k \in Requests : req[k].pc \in {"whose", "move"} /\ req[k].space = s}
HasMoved(k) == req[k].i > 1

MoveListed(r) ==
    LET s == req[r].space
        list == req[r].list
        i == req[r].i
    IN /\ At(r, "move")
       /\ UpdateChannelPosition(list[i], i - 1)
       /\ disturbed' = disturbed \cup {k \in Reordering(s) \ {r} : HasMoved(k)}
       /\ IF i < Len(list)
            THEN /\ req' = [req EXCEPT ![r].pc = "whose", ![r].i = i + 1]
                 /\ asked' = [asked EXCEPT ![s] = <<>>]
            ELSE /\ End(r)
                 /\ asked' = [asked EXCEPT ![s] = IF r \in disturbed THEN <<>> ELSE list]
       /\ UNCHANGED memberships

ChannelStep(r) ==
    \/ CreateChannel(r) \/ InsertChannel(r) \/ UpdateChannel(r) \/ StoreChannel(r)
    \/ DeleteChannel(r) \/ CloseChannel(r)
    \/ ReorderChannels(r) \/ CheckListed(r) \/ MoveListed(r)
--------------------------------------------------------------------------------
\* The list of channels shows those of the last reordering in the order it asked for (a
\* channel it names twice by the second), whatever was created, changed or deleted since,
\* unless two reorderings ran at once or one stopped half-way (channels/service.go:196-217).
ReorderApplied ==
    \A s \in Spaces :
        \A i, j \in DOMAIN asked[s] :
            LET c == asked[s][i]
                d == asked[s][j]
                last(k) == \A n \in DOMAIN asked[s] : asked[s][n] = asked[s][k] => n <= k
            IN /\ i < j /\ last(i) /\ last(j)
               /\ GetChannelByID(c) /\ GetChannelByID(d)
               => <<c, d>> \in ListSpaceChannels(s)

\* A channel changes its position only by a request for its own space, and after it
\* was checked to belong there (channels/service.go:206).
MovedByItsSpace ==
    [][\A c \in Ids :
          channels'[c].position # channels[c].position =>
            \E r \in Requests : At(r, "move") /\ req[r].space = channels[c].space]_channels
================================================================================
