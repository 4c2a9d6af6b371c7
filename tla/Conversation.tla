--------------------------------- MODULE Conversation ---------------------------------
(***************************************************************************)
(* Channels, the timeline of their messages and the reactions to them, on  *)
(* shared rows: each request is one of the three modules', and members     *)
(* come, go and change their roles meanwhile (module Membership).          *)
(***************************************************************************)
EXTENDS Reactions

CONSTANT Home   \* the space that has the channels and messages there are at the start

ASSUME ConversationAssumption ==
    /\ Home \in Spaces
    /\ IsFiniteSet(Spaces) /\ Cardinality(Spaces) < MaxChannels
    /\ MaxTime >= 2

cvars == <<memberships, channelVars, timelineVars, reactionVars, req>>

Roles == {"none", "member", "admin"}
Membership == [role : Roles, read : 0..MaxTime]
NoMembership == [role |-> "none", read |-> 0]

\* Every row has values of its columns' types, and every request what its steps need.
TypeOK ==
    /\ ChannelsType /\ TimelineType /\ ReactionsType
    /\ memberships \in [Spaces -> [Users -> Membership]]
    /\ req \in [Requests -> {Idle, Done} \cup ChannelRequest \cup TimelineRequest
                            \cup ReactionRequest]

\* The default channels of a space, one channel in every other; messages in the first,
\* of one time or one after the other.
Init ==
    /\ memberships = [s \in Spaces |-> [u \in Users |->
                         [NoMembership EXCEPT !.role = IF u \notin InstanceAdmins /\ s = Home
                                                         THEN "admin" ELSE "none"]]]
    /\ channels = << [space |-> Home, type |-> "text", position |-> 0, live |-> TRUE],
                     [space |-> Home, type |-> "voice", position |-> 1, live |-> TRUE] >>
                  \o SetToSeq({[space |-> s, type |-> "text", position |-> 0, live |-> TRUE] :
                                   s \in Spaces \ {Home}})
    /\ \E step \in {0, 1} :
        messages = [m \in Rows |->
                      IF m = MaxMessages THEN Free
                      ELSE [state |-> "visible", channel |-> 1,
                            at |-> IF m > 1 THEN 1 + step ELSE 1, reply |-> FALSE]]
    /\ now = 2
    /\ markedAt = [s \in Spaces |-> [u \in Users |-> 0]]
    /\ reactions = {k \in Keys : k.emoji \in Curated /\ k.message = 1}
    /\ view = reactions /\ unsaid = {} /\ mixed = {}
    /\ req = [r \in Requests |-> Idle]
    /\ asked = [s \in Spaces |-> <<>>] /\ disturbed = {}

\* The last write of a kick, which takes the read state with the row, of a join, or of a
\* change of role (module Membership).
ChangeMembership(r) ==
    /\ At(r, "idle")
    /\ \E s \in Spaces, u \in Users :
        \/ memberships' = [memberships EXCEPT ![s][u] = NoMembership]
        \/ /\ memberships[s][u].role = "none"
           /\ memberships' = [memberships EXCEPT ![s][u].role = "member"]
        \/ /\ memberships[s][u].role # "none"
           /\ \E ro \in {"member", "admin"} :
                 memberships' = [memberships EXCEPT ![s][u].role = ro]
    /\ End(r)
    /\ UNCHANGED <<channelVars, timelineVars, reactionVars>>

\* A query fails, or finds that the request is to be refused after all.
Refused(r) ==
    /\ req[r].pc \notin {"idle", "done", "end", "commit", "added", "removed"}
    /\ End(r)
    /\ UNCHANGED <<memberships, channelVars, timelineVars, reactionVars>>

Next ==
    \/ \E r \in Requests :
        \/ ChannelStep(r) /\ UNCHANGED <<timelineVars, reactionVars>>
        \/ TimelineStep(r) /\ UNCHANGED reactionVars
        \/ ReactionStep(r)
        \/ ChangeMembership(r) \/ Refused(r)
    \/ Tick /\ UNCHANGED reactionVars
    \/ \E m \in Rows : SoftDeleteMessage(m) /\ UNCHANGED reactionVars
    \/ \E m \in Rows : LoadReactions(m)

Spec == Init /\ [][Next]_cvars

--------------------------------------------------------------------------------
\* What holds of every state: the types, the reactions shown and the toggles.
Inv == TypeOK /\ ReactionsAgree
================================================================================
