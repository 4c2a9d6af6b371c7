---------------------------------- MODULE Voice ----------------------------------
(***************************************************************************)
(* Voice channels: internal/voice/service.go and the events it publishes   *)
(* through internal/presence/hub.go.                                       *)
(*                                                                         *)
(* Join and Leave call the database, LiveKit and the hub one after the     *)
(* other without a transaction, and any call may fail.  A step here is one *)
(* write together with the reads and the LiveKit calls on the way to the   *)
(* next one.  The table has at most one row per user.                      *)
(*                                                                         *)
(* Of one user, Watched, the rest is followed too: the mutes in the row,   *)
(* and what another member sees, who applies the events it is sent to the  *)
(* lists it has loaded.  All the others compete for channels.              *)
(*                                                                         *)
(* Who is in LiveKit's rooms is not modelled: no code here depends on it,  *)
(* and nothing ties it to the rows, since a row is deleted also when       *)
(* RemoveParticipant has failed, or without calling it.                    *)
(***************************************************************************)
EXTENDS Naturals, FiniteSets

CONSTANTS Users, Channels,
          Watched,   \* the user who is followed
          Requests,  \* slots: as many Join and Leave requests run at once
          Capacity,  \* max_participants of the channels
          NoChannel, NoUser

ASSUME VoiceAssumption ==
    /\ Capacity \in Nat \ {0}
    /\ IsFiniteSet(Users) /\ IsFiniteSet(Requests)
    /\ NoChannel \notin Channels
    /\ NoUser \notin Users
    /\ Watched \in Users

VARIABLES
    row,     \* voice_connections: the channel of each user's row
    live,    \* channels that are not deleted
    req,     \* the requests in progress
    muted,   \* the mutes set in the watched user's row
    view,    \* the channels in which the watched user is shown
    unsure   \* history: the view may be wrong

vars == <<row, live, req, muted, view, unsure>>
watched == <<muted, view, unsure>>

Phases == {"idle", "find", "delete", "left", "force", "count", "insert", "joined"}
\* For a join: the channel to join.  After "find": the channel of the row found.
Request == [pc : Phases, user : Users \cup {NoUser},
            join : Channels \cup {NoChannel}, old : Channels \cup {NoChannel}]
NoRequest == [pc |-> "idle", user |-> NoUser, join |-> NoChannel, old |-> NoChannel]

\* server_muted; self_muted, which self_deafened is set along with.
Mutes == {"server", "self"}

\* The users who have a row.
Connections == {u \in Users : row[u] # NoChannel}

TypeOK ==
    /\ row \in [Users -> Channels \cup {NoChannel}]
    /\ live \subseteq Channels
    /\ muted \subseteq Mutes /\ unsure \in BOOLEAN
    /\ muted # {} => Watched \in Connections
    /\ view \subseteq Channels
    /\ req \in [Requests -> Request]
    /\ \A r \in Requests :
         /\ IF req[r].pc = "idle" THEN req[r] = NoRequest ELSE req[r].user \in Users
         /\ req[r].pc \in {"force", "count", "insert", "joined"} => req[r].join \in Channels
         /\ req[r].pc \in {"delete", "left"} => req[r].old \in Channels

Init ==
    /\ row = [u \in Users |-> NoChannel]
    /\ live = Channels
    /\ req = [r \in Requests |-> NoRequest]
    /\ muted = {} /\ view = {} /\ unsure = FALSE
--------------------------------------------------------------------------------
At(r, phase) == req[r].pc = phase
User(r) == req[r].user
Goto(r, phase) == req' = [req EXCEPT ![r].pc = phase]
Finish(r) == req' = [req EXCEPT ![r] = NoRequest]

\* The requests of a user in progress.
Handling(u) == {r \in Requests : req[r].user = u}

GetVoiceConnectionsByChannelID(c) == {u \in Users : row[u] = c}
CountVoiceConnectionsByChannelID(c) == Cardinality({u \in Users : row[u] = c})

\* user_id is unique: a user who has a row by now is refused.
CreateVoiceConnection(u, c) ==
    /\ u \notin Connections
    /\ row' = [row EXCEPT ![u] = c]

\* The watched user's row, if there is one; the mutes that are not named stay.
UpdateVoiceConnectionMuteState(mute, on) ==
    /\ Watched \in Connections
    /\ muted' = IF on THEN muted \cup {mute} ELSE muted \ {mute}
    /\ UNCHANGED <<row, live, req, view, unsure>>

\* Mutant: the next row takes over the mute of the last.
DeleteRowOnly(u) ==
    /\ row' = [row EXCEPT ![u] = NoChannel]
    /\ UNCHANGED muted

\* The row goes, and with it its mutes.
DeleteRow(u) ==
    /\ row' = [row EXCEPT ![u] = NoChannel]
    /\ muted' = IF u = Watched THEN {} ELSE muted

\* Leave has ended: with an error Join goes on to force the deletion, otherwise
\* to its own checks; a request to leave is over either way.
AfterLeave(r, phase) ==
    req' = [req EXCEPT ![r] = IF @.join = NoChannel THEN NoRequest
                              ELSE [@ EXCEPT !.pc = phase, !.old = NoChannel]]
LeaveFails(r) == AfterLeave(r, "force")
LeaveEnds(r) == AfterLeave(r, "count")

\* An event of the user's: the view changes, if the user is the watched one ...
Told(r, channels) ==
    /\ view' = IF User(r) = Watched THEN channels ELSE view
    /\ UNCHANGED unsure

\* ... or there is none, which leaves a channel that still exists wrong.
Unheard(r, c) ==
    /\ unsure' = (unsure \/ (User(r) = Watched /\ c \in live))
    /\ UNCHANGED view

Start(r, u, c) ==
    /\ At(r, "idle")
    /\ req' = [req EXCEPT ![r] = [pc |-> "find", user |-> u, join |-> c, old |-> NoChannel]]
    /\ unsure' = (unsure \/ (u = Watched /\ Handling(u) # {}))
    /\ UNCHANGED <<row, live, muted, view>>

\* Join, whose checks of the user, the channel, its type and the membership have
\* passed: a request they reject changes nothing.
Join(r, u, c) == c \in live /\ Start(r, u, c)
Leave(r, u) == Start(r, u, NoChannel)

\* Join looks for a connection, to leave it first; Leave looks for it, and asks
\* LiveKit to remove the participant, but goes on whatever the answer.
FindConnection(r) ==
    /\ At(r, "find")
    /\ \/ /\ User(r) \in Connections
          /\ req' = [req EXCEPT ![r].pc = "delete", ![r].old = row[User(r)]]
       \/ User(r) \in Connections /\ LeaveFails(r)
       \/ User(r) \notin Connections /\ LeaveEnds(r)
       \/ Finish(r)
    /\ UNCHANGED <<row, live, watched>>

\* Mutant: nobody is told when Join has left the previous channel.
DeleteUntold(r) ==
    /\ At(r, "delete")
    /\ \/ DeleteRow(User(r)) /\ IF req[r].join # NoChannel THEN LeaveEnds(r) ELSE Goto(r, "left")
       \/ LeaveFails(r) /\ UNCHANGED <<row, muted>>
    /\ UNCHANGED <<live, view, unsure>>

\* Whatever row the user has now goes.
DeleteConnection(r) ==
    /\ At(r, "delete")
    /\ \/ DeleteRow(User(r)) /\ Goto(r, "left")
       \/ LeaveFails(r) /\ UNCHANGED <<row, muted>>
    /\ UNCHANGED <<live, view, unsure>>

\* Mutant: the event names the channel that is joined.
PublishLeaveOfJoined(r) ==
    /\ At(r, "left")
    /\ LeaveEnds(r)
    /\ \/ /\ req[r].old \in live
          /\ Told(r, view \ {IF req[r].join # NoChannel THEN req[r].join ELSE req[r].old})
       \/ Unheard(r, req[r].old)
    /\ UNCHANGED <<row, live, muted>>

\* PublishVoiceLeave needs the channel; without it there is no event.
PublishVoiceLeave(r) ==
    /\ At(r, "left")
    /\ LeaveEnds(r)
    /\ \/ /\ req[r].old \in live
          /\ Told(r, view \ {req[r].old})
       \/ Unheard(r, req[r].old)
    /\ UNCHANGED <<row, live, muted>>

\* Join deletes the row when Leave has failed; nobody is told.
ForceDelete(r) ==
    /\ At(r, "force")
    /\ \/ DeleteRow(User(r)) /\ unsure' = (unsure \/ User(r) = Watched)
       \/ UNCHANGED <<row, muted, unsure>>
    /\ Goto(r, "count")
    /\ UNCHANGED <<live, view>>

\* Mutant: a full channel takes one more.
CountOffByOne(r) ==
    /\ At(r, "count")
    /\ \/ CountVoiceConnectionsByChannelID(req[r].join) <= Capacity /\ Goto(r, "insert")
       \/ Finish(r)
    /\ UNCHANGED <<row, live, watched>>

\* The channel has room; LiveKit creates the room and the token is signed.
CountConnections(r) ==
    /\ At(r, "count")
    /\ \/ CountVoiceConnectionsByChannelID(req[r].join) < Capacity /\ Goto(r, "insert")
       \/ Finish(r)
    /\ UNCHANGED <<row, live, watched>>

CreateConnection(r) ==
    /\ At(r, "insert")
    /\ \/ CreateVoiceConnection(User(r), req[r].join) /\ Goto(r, "joined")
       \/ Finish(r) /\ UNCHANGED row
    /\ UNCHANGED <<live, watched>>

\* PublishVoiceJoin needs the channel, the user and the user's connection; the
\* client gets its token with or without the event.
PublishVoiceJoin(r) ==
    /\ At(r, "joined")
    /\ Finish(r)
    /\ \/ /\ req[r].join \in live
          /\ User(r) \in Connections
          /\ Told(r, view \cup {req[r].join})
       \/ Unheard(r, req[r].join)
    /\ UNCHANGED <<row, live, muted>>
--------------------------------------------------------------------------------
\* The user's own mute.  Row and update are two calls: a row that has gone
\* between them is not updated, and one that has come is.
UpdateMuteState == \E on \in BOOLEAN : UpdateVoiceConnectionMuteState("self", on)

\* A moderator's, whatever LiveKit answers.  The update names the user, not the
\* connection whose space the moderator's role was read in.
ServerMute == \E on \in BOOLEAN : UpdateVoiceConnectionMuteState("server", on)

\* Deleting a channel leaves the connections to it.
SoftDeleteChannel(c) ==
    /\ c \in live
    /\ live' = live \ {c}
    /\ UNCHANGED <<row, req, watched>>

\* A channel that is deleted is not found.
GetChannelParticipants(c) == IF c \in live THEN GetVoiceConnectionsByChannelID(c) ELSE {}

\* The other member loads the participants of every channel.
LoadParticipants ==
    /\ view' = {c \in Channels : Watched \in GetChannelParticipants(c)}
    /\ unsure' = (unsure /\ Handling(Watched) # {})
    /\ UNCHANGED <<row, live, req, muted>>

RequestStep(r) ==
    \/ FindConnection(r) \/ DeleteConnection(r) \/ PublishVoiceLeave(r) \/ ForceDelete(r)
    \/ CountConnections(r) \/ CreateConnection(r) \/ PublishVoiceJoin(r)

Next ==
    \/ \E r \in Requests, u \in Users : Leave(r, u) \/ \E c \in Channels : Join(r, u, c)
    \/ \E r \in Requests : RequestStep(r)
    \/ UpdateMuteState \/ ServerMute
    \/ \E c \in Channels : SoftDeleteChannel(c)
    \/ LoadParticipants

Spec == Init /\ [][Next]_vars
--------------------------------------------------------------------------------
\* Once a user's requests are over, the others are shown the user in the channel
\* of the user's row and nowhere else: whichever call failed on the way, whatever
\* other users do, and unless two requests of the user ran at once, an event was
\* not sent, or the row was deleted by force (service.go:73-242).
ViewMatches ==
    ~unsure /\ Handling(Watched) = {} => view \cap live = {row[Watched]} \cap live

\* Switching channels never shows a user in two of them, even for a moment: the
\* old channel's leave is told before the new channel's join (service.go:112-133).
ShownOnce == ~unsure => Cardinality(view \cap live) <= 1

\* Joins that run at once may all be counted before any is inserted, so that a
\* channel can be overfull, but only by the joins that can run at once
\* (service.go:135-146, 174-184).
CapacityBound ==
    \A c \in Channels :
        CountVoiceConnectionsByChannelID(c) + Cardinality({r \in Requests : req[r].join = c /\ At(r, "insert")})
        <= Capacity - 1 + Cardinality(Requests)

\* What holds of every state, with whatever else a user's requests leave unsure: the
\* types (a mute is one of a row that is there) and the capacity.
Inv == TypeOK /\ CapacityBound
================================================================================
