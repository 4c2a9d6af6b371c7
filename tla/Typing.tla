--------------------------------- MODULE Typing ---------------------------------
(***************************************************************************)
(* Typing indicators (internal/presence/hub.go: SetTyping, cleanupTyping,  *)
(* broadcastTypingStop) for the users of one channel, as one other member  *)
(* sees them.  The hub keeps the last typing time of a user.  Starts are   *)
(* broadcast by the typist's reader goroutine, stops by a goroutine the    *)
(* cleanup spawns, and each looks the channel up in the database before it *)
(* sends: messages may overtake each other, and get lost.                  *)
(***************************************************************************)
EXTENDS Naturals, FiniteSets

CONSTANTS Typists,   \* the users who type
          Expiry,    \* 5 s: an older indicator is stale
          MaxKeys    \* bound on the typing.start frames a client sends

ASSUME TypingAssumption == Expiry \in Nat \ {0} /\ MaxKeys \in Nat

VARIABLES typing,  \* h.typing: the age of the entry, or Absent
          keys,    \* frames the client still sends
          reader,  \* the typist's reader: "idle", or "start" before its broadcast
          stops,   \* cleanup goroutines that have still to broadcast a stop
          view,    \* what the observer was last told
          late,    \* history: typists of whom a broadcast took longer than Expiry
          lost     \* history: typists whose stop was lost

typingVars == <<typing, keys, reader, stops, view, late, lost>>

Absent == Expiry + 2
Stale == Expiry + 1

TypingTypes ==
    /\ typing \in [Typists -> 0..Absent]
    /\ keys \in [Typists -> 0..MaxKeys]
    /\ reader \in [Typists -> {"idle", "start"}]
    /\ stops \in [Typists -> Nat]
    /\ view \in [Typists -> {"start", "stop"}]
    /\ late \subseteq Typists
    /\ lost \subseteq Typists

TypingInit ==
    /\ typing = [u \in Typists |-> Absent]
    /\ keys = [u \in Typists |-> MaxKeys]
    /\ reader = [u \in Typists |-> "idle"]
    /\ stops = [u \in Typists |-> 0]
    /\ view = [u \in Typists |-> "stop"]
    /\ late = {}
    /\ lost = {}

\* SetTyping's critical section; only a new entry is then announced.
SetTyping(u) ==
    /\ reader[u] = "idle"
    /\ keys[u] > 0
    /\ keys' = [keys EXCEPT ![u] = @ - 1]
    /\ typing' = [typing EXCEPT ![u] = 0]
    /\ reader' = [reader EXCEPT ![u] = IF typing[u] = Absent THEN "start" ELSE "idle"]
    /\ UNCHANGED <<stops, view, late, lost>>

\* The broadcast of the start, unless the channel cannot be looked up.
BroadcastStart(u) ==
    /\ reader[u] = "start"
    /\ reader' = [reader EXCEPT ![u] = "idle"]
    /\ \/ view' = [view EXCEPT ![u] = "start"]
       \/ UNCHANGED view
    /\ UNCHANGED <<typing, keys, stops, late, lost>>

\* Mutant: entries that were deleted age on.
TickAll ==
    /\ \E u \in Typists : typing[u] < Stale
    /\ typing' = [u \in Typists |-> IF typing[u] # Stale THEN typing[u] + 1 ELSE typing[u]]
    /\ UNCHANGED <<keys, reader, stops, view, late, lost>>

\* A second passes.
Tick ==
    /\ \E u \in Typists : typing[u] < Stale
    /\ typing' = [u \in Typists |-> IF typing[u] < Stale THEN typing[u] + 1 ELSE typing[u]]
    /\ late' = late \cup {u \in Typists : /\ reader[u] = "start" \/ stops[u] > 0
                                          /\ typing[u] = Expiry}
    /\ UNCHANGED <<keys, reader, stops, view, lost>>

\* Mutant: the stale entries go without a stop.
CleanupSilently ==
    LET expired == {u \in Typists : typing[u] = Stale} IN
    /\ expired # {}
    /\ typing' = [u \in Typists |-> IF u \in expired THEN Absent ELSE typing[u]]
    /\ UNCHANGED <<keys, reader, stops, view, late, lost>>

\* Mutant: the stale entries are deleted under another key than theirs.
CleanupOtherKey ==
    /\ \E u \in Typists : typing[u] = Stale
    /\ UNCHANGED typingVars

\* cleanupTyping, on the loop's ticker: the stale entries go, and one goroutine
\* broadcasts their stops.
CleanupTyping ==
    LET expired == {u \in Typists : typing[u] = Stale} IN
    /\ expired # {}
    /\ typing' = [u \in Typists |-> IF u \in expired THEN Absent ELSE typing[u]]
    /\ stops' = [u \in Typists |-> IF u \in expired THEN stops[u] + 1 ELSE stops[u]]
    /\ UNCHANGED <<keys, reader, view, late, lost>>

\* Mutant: the stop is sent to nobody.
StopToNobody(u) ==
    /\ stops[u] > 0
    /\ stops' = [stops EXCEPT ![u] = @ - 1]
    /\ UNCHANGED <<typing, keys, reader, view, late, lost>>

\* The broadcast of a stop, unless the channel cannot be looked up.
BroadcastTypingStop(u) ==
    /\ stops[u] > 0
    /\ stops' = [stops EXCEPT ![u] = @ - 1]
    /\ \/ view' = [view EXCEPT ![u] = "stop"] /\ UNCHANGED lost
       \/ lost' = lost \cup {u} /\ UNCHANGED view
    /\ UNCHANGED <<typing, keys, reader, late>>

TypingNext ==
    \/ \E u \in Typists : SetTyping(u) \/ BroadcastStart(u) \/ BroadcastTypingStop(u)
    \/ Tick \/ CleanupTyping

TypingSpec == TypingInit /\ [][TypingNext]_typingVars

\* Readers and cleanup goroutines are scheduled, the loop's ticker fires, and
\* time passes.  Nobody has to type.
TypingFairness ==
    /\ \A u \in Typists : WF_typingVars(BroadcastStart(u)) /\ WF_typingVars(BroadcastTypingStop(u))
    /\ WF_typingVars(Tick)
    /\ WF_typingVars(CleanupTyping)

TypingFairSpec == TypingSpec /\ TypingFairness
--------------------------------------------------------------------------------
\* An indicator the observer sees is one the hub will still take back, unless a
\* broadcast was late or lost: an entry exists, or its stop is on its way, even
\* if the user has meanwhile typed again (hub.go:353-405).
ShownIsTracked ==
    \A u \in Typists : view[u] = "start" =>
        typing[u] # Absent \/ stops[u] > 0 \/ u \in late \cup lost

\* When a user stops typing the indicator goes away for good: without late or
\* lost broadcasts no start comes after the stop that should end it, whatever
\* the other typists' broadcasts do.
IndicatorEnds ==
    \A u \in Typists : <>[](view[u] = "stop" \/ u \in late \cup lost)

\* h.typing does not keep what its users left behind: whatever is lost or late,
\* every entry goes at last (hub.go:386-401).
EntriesEnd ==
    \A u \in Typists : <>[](typing[u] = Absent)

\* What holds of every state: the types, and that what is shown is tracked.
TypingInv == TypingTypes /\ ShownIsTracked

\* When nobody types any more both the indicators and the entries end, each whatever
\* becomes of the other (hub.go:353-405).
TypingEnds == IndicatorEnds /\ EntriesEnd
================================================================================
