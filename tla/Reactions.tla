----------------------------------- MODULE Reactions ----------------------------------
(***************************************************************************)
(* Reactions to messages (internal/messages/reactions.go) and what a       *)
(* client makes of the events about them.                                  *)
(***************************************************************************)
EXTENDS Timeline

CONSTANTS Emoji, Curated   \* Curated: the rows of emoji_set

ASSUME ReactionsAssumption == Curated \subseteq Emoji

VARIABLES
    reactions,   \* the rows
    view,        \* what a subscribed client shows
    unsaid,      \* history: reactions whose event was not sent since the client loaded them
    mixed        \* history: reactions two requests have worked on at once

reactionVars == <<reactions, view, unsaid, mixed>>

Keys == [message : Rows, user : Users, emoji : Emoji]
ReactionRequest ==
    [pc : {"has?", "add", "remove", "added", "removed"}, key : Keys, toggle : BOOLEAN,
     has : BOOLEAN]

ReactionsType ==
    reactions \subseteq Keys /\ view \subseteq Keys /\ unsaid \subseteq Keys /\ mixed \subseteq Keys

Working == {"has?", "add", "remove", "added", "removed"}
Others(r) == {k \in Requests \ {r} : req[k].pc \in Working /\ req[k].key = req[r].key}
--------------------------------------------------------------------------------
(* The queries. *)

IsValidEmoji(e) == e \in Curated

\* Mutant: anybody's reaction counts.
SomebodyReacted(k) == \E x \in reactions : x.message = k.message /\ x.emoji = k.emoji
HasUserReacted(k) == k \in reactions

AddReaction(k) == reactions' = reactions \cup {k}

RemoveReaction(k) == reactions' = reactions \ {k}

GetMessageReactions(m) == {k \in reactions : k.message = m}
--------------------------------------------------------------------------------
\* The message, its channel and the membership.
MayReact(k) == GetMessageByID(k.message) /\ MayRead(messages[k.message].channel, k.user)

CheckAdd(k) == IsValidEmoji(k.emoji) /\ MayReact(k)
CheckRemove(k) == MayReact(k)

StartAdd(r) ==
    /\ At(r, "idle")
    /\ \E k \in Keys :
        /\ CheckAdd(k)
        /\ Start(r, [pc |-> "add", key |-> k, toggle |-> FALSE, has |-> FALSE])
    /\ UNCHANGED <<memberships, channelVars, timelineVars, reactionVars>>

StartRemove(r) ==
    /\ At(r, "idle")
    /\ \E k \in Keys :
        /\ CheckRemove(k)
        /\ Start(r, [pc |-> "remove", key |-> k, toggle |-> FALSE, has |-> FALSE])
    /\ UNCHANGED <<memberships, channelVars, timelineVars, reactionVars>>

\* The row decides, before anybody has asked for the message or the membership.
BeginToggle(r, k) ==
    /\ Start(r, [pc |-> "has?", key |-> k, toggle |-> TRUE, has |-> HasUserReacted(k)])
    /\ UNCHANGED <<memberships, channelVars, timelineVars, reactionVars>>

ToggleReaction(r) ==
    At(r, "idle") /\ \E k \in Keys : messages[k.message] # Free /\ BeginToggle(r, k)

GoOnToggle(r) ==
    LET k == req[r].key
    IN /\ At(r, "has?")
       /\ \/ req[r].has /\ CheckRemove(k) /\ Goto(r, "remove")
          \/ ~req[r].has /\ CheckAdd(k) /\ Goto(r, "add")
       /\ UNCHANGED <<memberships, channelVars, timelineVars, reactionVars>>

\* Another request works on the same reaction.
Meet(r) == mixed' = IF Others(r) = {} THEN mixed ELSE mixed \cup {req[r].key}

StoreReaction(r) ==
    /\ At(r, "add")
    /\ AddReaction(req[r].key) /\ Meet(r)
    /\ Goto(r, "added")
    /\ UNCHANGED <<memberships, channelVars, timelineVars, view, unsaid>>

DropReaction(r) ==
    /\ At(r, "remove")
    /\ RemoveReaction(req[r].key) /\ Meet(r)
    /\ Goto(r, "removed")
    /\ UNCHANGED <<memberships, channelVars, timelineVars, view, unsaid>>

\* Mutant: the event says the contrary.
PublishContrary(r) ==
    LET k == req[r].key
    IN /\ \/ At(r, "added") /\ view' = view \ {k}
          \/ At(r, "removed") /\ view' = view \cup {k}
       /\ End(r)
       /\ UNCHANGED <<memberships, channelVars, timelineVars, reactions, unsaid, mixed>>

PublishReaction(r) ==
    LET k == req[r].key
    IN /\ \/ At(r, "added") /\ view' = view \cup {k}
          \/ At(r, "removed") /\ view' = view \ {k}
       /\ End(r)
       /\ UNCHANGED <<memberships, channelVars, timelineVars, reactions, unsaid, mixed>>

\* The user's name is looked up for the event, after the write: the query may fail, the account be gone.
NameUnknown(r) ==
    /\ req[r].pc \in {"added", "removed"}
    /\ End(r)
    /\ unsaid' = unsaid \cup {req[r].key}
    /\ UNCHANGED <<memberships, channelVars, timelineVars, reactions, view, mixed>>

\* Of a message and a channel that are there.
ReactionsTo(m) ==
    IF GetMessageByID(m) /\ GetChannelByID(messages[m].channel) THEN {GetMessageReactions(m)}
    ELSE {}

\* The client asks for all reactions to a message.
LoadReactions(m) ==
    LET ofMessage(k) == k.message = m
        settled(k) == \A r \in Requests : req[r].pc \in Working => req[r].key # k
    IN /\ \E answer \in ReactionsTo(m) : view' = {k \in view : ~ofMessage(k)} \cup answer
       /\ unsaid' = {k \in unsaid : ~ofMessage(k)}
       /\ mixed' = {k \in mixed : ~(ofMessage(k) /\ settled(k))}
       /\ UNCHANGED <<memberships, channelVars, timelineVars, req, reactions>>

ReactionStep(r) ==
    \/ StartAdd(r) \/ StartRemove(r) \/ ToggleReaction(r) \/ GoOnToggle(r)
    \/ StoreReaction(r) \/ DropReaction(r) \/ PublishReaction(r) \/ NameUnknown(r)
--------------------------------------------------------------------------------
\* A client shows the reactions there are: an event is missing or late only of a reaction
\* being written, of one two requests work on at once, and of one whose user was not found
\* after the write (messages/reactions.go:99).
ReactionsShown ==
    \A k \in Keys \ (unsaid \cup mixed) :
        (\A r \in Requests : req[r].pc \in Working => req[r].key # k) =>
            (k \in view <=> k \in reactions)

\* A toggle undoes what its user did, unless another request of the user for that very
\* reaction has come between its look and its write (messages/reactions.go:227).
ToggleFlips ==
    \A r \in Requests :
        /\ req[r].pc \in {"add", "remove"} /\ req[r].toggle
        /\ req[r].key \notin mixed
        => (At(r, "remove") <=> req[r].key \in reactions)

\* What a user sees of reactions is what there is, and so is what a toggle acts on.
ReactionsAgree == ReactionsShown /\ ToggleFlips
================================================================================
