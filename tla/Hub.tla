---------------------------------- MODULE Hub ----------------------------------
(***************************************************************************)
(* The WebSocket presence hub: internal/presence/hub.go, connection.go and *)
(* the upgrade handler api/handlers/ws.go.                                 *)
(*                                                                         *)
(* Every connection has two goroutines, its reader (the HTTP handler that  *)
(* registers the connection and then runs ReadPump) and its writer         *)
(* (WritePump).  One goroutine runs the hub's loop, publishers are the     *)
(* HTTP handlers that broadcast, and Stop runs in main.  They share the    *)
(* hub's maps under h.mu, and each connection's closed flag and channel.   *)
(*                                                                         *)
(* A goroutine's position is kept as data: casting[p] are the recipients   *)
(* BroadcastToSpace has still to visit in p, target[p] the connection      *)
(* whose closed flag p has already checked in Send, and closer[c] the      *)
(* goroutine between closeWithCode's two halves on c.  Messages are        *)
(* counted, not distinguished.                                             *)
(***************************************************************************)
EXTENDS Naturals, FiniteSets

CONSTANTS Users, Conns, Spaces,
          Publishers,  \* HTTP handlers that broadcast to a space
          UserOf,      \* Connection.UserID
          BufferSize,  \* sendBufferSize
          Faults,      \* which of FaultKinds may happen
          NoConn, NoProc, NoSpace

\* What the environment may add to the code's own behaviour: the shutdown, a
\* kill of the process, its restart, and the failure of a presence write.
FaultKinds == {"stop", "kill", "restart", "db"}

ASSUME HubAssumption ==
    /\ UserOf \in [Conns -> Users]
    /\ BufferSize \in Nat \ {0}
    /\ Faults \subseteq FaultKinds
    /\ NoConn \notin Conns

Reader(c) == <<"reader", c>>
Writer(c) == <<"writer", c>>
Publisher(b) == <<"publisher", b>>
HubLoop == <<"hub", NoConn>>
Stopper == <<"stopper", NoConn>>

Procs == {Reader(c) : c \in Conns} \cup {Writer(c) : c \in Conns}
         \cup {Publisher(b) : b \in Publishers} \cup {HubLoop, Stopper}

ASSUME ProcAssumption == NoProc \notin Procs

VARIABLES
    connections,  \* h.connections
    spaces,       \* h.spaces: an empty set is an absent key
    presence,     \* users.presence in the database
    mu,           \* the goroutine that holds h.mu across steps
    closed,       \* Connection.closed
    sendClosed,   \* close(c.send) was executed
    closer,       \* the goroutine in the middle of closeWithCode
    buf,          \* number of messages in c.send
    rpc, wpc,     \* where the reader and the writer of a connection are
    topic,        \* the space a reader is in the middle of subscribing to
    hpc,          \* where the hub's loop is
    job,          \* the loop's handling: connection, and the range over h.spaces
    spc,          \* where Stop is
    casting, target,
    alive         \* the process runs

vars == <<connections, spaces, presence, mu, closed, sendClosed, closer, buf,
          rpc, wpc, topic, hpc, job, spc, casting, target, alive>>
maps == <<connections, spaces, presence, mu>>
links == <<closed, sendClosed, closer, buf>>
pcs == <<rpc, wpc, topic, hpc, job, spc>>
sends == <<casting, target>>

ReaderStates == {"new", "register", "auth", "start", "run", "online",
                 "unregister", "close", "done"}
WriterStates == {"none", "run", "done"}
HubStates == {"select", "register", "swap", "online", "unregister",
              "offline", "tell", "gone"}
StopStates == {"none", "signalled", "closing", "done"}
\* While hpc = "tell": the spaces the range statement must still produce, and
\* those it has produced.
Jobs == [conn : Conns \cup {NoConn}, owed : SUBSET Spaces, told : SUBSET Spaces]
NoJob == [conn |-> NoConn, owed |-> {}, told |-> {}]

TypeOK ==
    /\ connections \in [Users -> Conns \cup {NoConn}]
    /\ spaces \in [Spaces -> SUBSET Users]
    /\ presence \in [Users -> {"online", "offline"}]
    /\ mu \in Procs \cup {NoProc}
    /\ closed \in [Conns -> BOOLEAN]
    /\ sendClosed \in [Conns -> BOOLEAN]
    /\ closer \in [Conns -> Procs \cup {NoProc}]
    /\ buf \in [Conns -> 0..BufferSize]
    /\ rpc \in [Conns -> ReaderStates]
    /\ wpc \in [Conns -> WriterStates]
    /\ topic \in [Conns -> Spaces \cup {NoSpace}]
    /\ \A c \in Conns : rpc[c] = "online" => topic[c] \in Spaces
    /\ hpc \in HubStates
    /\ job \in Jobs
    /\ spc \in StopStates
    /\ casting \in [Procs -> SUBSET Users]
    /\ target \in [Procs -> Conns \cup {NoConn}]
    /\ alive \in BOOLEAN

Init ==
    /\ connections = [u \in Users |-> NoConn]
    /\ spaces = [s \in Spaces |-> {}]
    /\ presence = [u \in Users |-> "offline"]
    /\ mu = NoProc
    /\ closed = [c \in Conns |-> FALSE]
    /\ sendClosed = [c \in Conns |-> FALSE]
    /\ closer = [c \in Conns |-> NoProc]
    /\ buf = [c \in Conns |-> 0]
    /\ rpc = [c \in Conns |-> "new"]
    /\ wpc = [c \in Conns |-> "none"]
    /\ topic = [c \in Conns |-> NoSpace]
    /\ hpc = "select"
    /\ job = NoJob
    /\ spc = "none"
    /\ casting = [p \in Procs |-> {}]
    /\ target = [p \in Procs |-> NoConn]
    /\ alive = TRUE

--------------------------------------------------------------------------------
\* p is not inside BroadcastToSpace, Send or closeWithCode.
Idle(p) ==
    /\ casting[p] = {}
    /\ target[p] = NoConn
    /\ \A c \in Conns : closer[c] # p

Unlocked == mu = NoProc

\* BroadcastToSpace's snapshot, under the read lock.
StartBroadcast(p, s) ==
    /\ Unlocked
    /\ casting' = [casting EXCEPT ![p] = spaces[s]]
    /\ UNCHANGED target

\* Send's check of the closed flag, under c.mu.
StartSend(p, c) ==
    /\ target' = IF closed[c] THEN target ELSE [target EXCEPT ![p] = c]
    /\ UNCHANGED casting

\* Mutant: closeWithCode without its test of the flag.
StartCloseUnguarded(p, c) ==
    /\ closed' = [closed EXCEPT ![c] = TRUE]
    /\ closer' = [closer EXCEPT ![c] = p]

\* closeWithCode's first half: whoever sets the flag goes on to close.
StartClose(p, c) ==
    IF closed[c]
    THEN UNCHANGED <<closed, closer>>
    ELSE /\ closed' = [closed EXCEPT ![c] = TRUE]
         /\ closer' = [closer EXCEPT ![c] = p]

\* Mutant: closeWithCode leaves the channel and the socket open.
FinishCloseLeavesOpen(c) ==
    /\ alive
    /\ closer[c] # NoProc
    /\ closer' = [closer EXCEPT ![c] = NoProc]
    /\ UNCHANGED <<maps, closed, sendClosed, buf, pcs, sends, alive>>

\* closeWithCode's second half, after the close frame: the channel, the socket.
FinishClose(c) ==
    /\ alive
    /\ closer[c] # NoProc
    /\ sendClosed' = [sendClosed EXCEPT ![c] = TRUE]
    /\ closer' = [closer EXCEPT ![c] = NoProc]
    /\ UNCHANGED <<maps, closed, buf, pcs, sends, alive>>

\* BroadcastToSpace's next recipient: the lookup of its connection under the
\* read lock, then Send's check.
PickTarget(p) ==
    /\ alive
    /\ casting[p] # {}
    /\ target[p] = NoConn
    /\ \A c \in Conns : closer[c] # p
    /\ Unlocked
    /\ \E u \in casting[p] :
         /\ casting' = [casting EXCEPT ![p] = @ \ {u}]
         /\ target' = IF connections[u] # NoConn /\ ~closed[connections[u]]
                      THEN [target EXCEPT ![p] = connections[u]]
                      ELSE target
    /\ UNCHANGED <<maps, links, pcs, alive>>

\* Mutant: the room in the channel is not looked at.
EnqueueUnbounded(p) ==
    /\ alive
    /\ \E c \in Conns :
         /\ target[p] = c
         /\ ~sendClosed[c]
         /\ buf' = [buf EXCEPT ![c] = @ + 1]
    /\ target' = [target EXCEPT ![p] = NoConn]
    /\ UNCHANGED <<maps, closed, sendClosed, closer, pcs, casting, alive>>

\* Send's select: the channel has room.
Enqueue(p) ==
    /\ alive
    /\ \E c \in Conns :
         /\ target[p] = c
         /\ ~sendClosed[c]
         /\ buf[c] < BufferSize
         /\ buf' = [buf EXCEPT ![c] = @ + 1]
    /\ target' = [target EXCEPT ![p] = NoConn]
    /\ UNCHANGED <<maps, closed, sendClosed, closer, pcs, casting, alive>>

\* Send's select: the channel is full, and the sender closes the connection.
Overflow(p) ==
    /\ alive
    /\ \E c \in Conns :
         /\ target[p] = c
         /\ ~sendClosed[c]
         /\ buf[c] = BufferSize
         /\ StartClose(p, c)
    /\ target' = [target EXCEPT ![p] = NoConn]
    /\ UNCHANGED <<maps, sendClosed, buf, pcs, casting, alive>>

\* The end of the process: all that is left is the database, and the clients
\* that have not connected yet.
Die ==
    /\ alive' = FALSE
    /\ connections' = [u \in Users |-> NoConn]
    /\ spaces' = [s \in Spaces |-> {}]
    /\ mu' = NoProc
    /\ closed' = [c \in Conns |-> closed[c] \/ rpc[c] # "new"]
    /\ sendClosed' = closed'
    /\ closer' = [c \in Conns |-> NoProc]
    /\ buf' = [c \in Conns |-> 0]
    /\ rpc' = [c \in Conns |-> IF rpc[c] = "new" THEN "new" ELSE "done"]
    /\ wpc' = [c \in Conns |-> IF rpc[c] = "new" THEN "none" ELSE "done"]
    /\ topic' = [c \in Conns |-> NoSpace]
    /\ hpc' = "select"
    /\ job' = NoJob
    /\ spc' = "none"
    /\ casting' = [p \in Procs |-> {}]
    /\ target' = [p \in Procs |-> NoConn]
    /\ UNCHANGED presence

\* Send's select on a channel closed since the check panics.  net/http recovers
\* the panic of a handler: a publisher's request ends, a reader unwinds through
\* ReadPump's deferred calls, or, still in SendAuthSuccess, just returns.
PanicRecovered(p) ==
    /\ alive
    /\ \E c \in Conns : target[p] = c /\ sendClosed[c]
    /\ p \notin {Writer(c) : c \in Conns} \cup {HubLoop}
    /\ target' = [target EXCEPT ![p] = NoConn]
    /\ casting' = [casting EXCEPT ![p] = {}]
    /\ rpc' = [c \in Conns |-> IF p # Reader(c) THEN rpc[c]
                               ELSE IF rpc[c] = "start" THEN "done"
                               ELSE "unregister"]
    /\ UNCHANGED <<maps, links, wpc, topic, hpc, job, spc, alive>>

\* In the loop and in a writer nothing recovers it.
PanicFatal(p) ==
    /\ alive
    /\ \E c \in Conns : target[p] = c /\ sendClosed[c]
    /\ p \in {Writer(c) : c \in Conns} \cup {HubLoop}
    /\ Die

Sending(p) == \/ PickTarget(p) \/ Enqueue(p) \/ Overflow(p)
              \/ PanicRecovered(p) \/ PanicFatal(p)

--------------------------------------------------------------------------------
\* HandleWebSocket up to h.register <- conn: the token is valid, the user
\* exists and the socket is upgraded.
Upgrade(c) ==
    /\ alive
    /\ rpc[c] = "new"
    /\ rpc' = [rpc EXCEPT ![c] = "register"]
    /\ UNCHANGED <<maps, links, wpc, topic, hpc, job, spc, sends, alive>>

SendAuthSuccess(c) ==
    /\ alive
    /\ rpc[c] = "auth"
    /\ StartSend(Reader(c), c)
    /\ rpc' = [rpc EXCEPT ![c] = "start"]
    /\ UNCHANGED <<maps, links, wpc, topic, hpc, job, spc, alive>>

StartPumps(c) ==
    /\ alive
    /\ rpc[c] = "start"
    /\ Idle(Reader(c))
    /\ rpc' = [rpc EXCEPT ![c] = "run"]
    /\ wpc' = [wpc EXCEPT ![c] = "run"]
    /\ UNCHANGED <<maps, links, topic, hpc, job, spc, sends, alive>>

\* handleSubscribe's first half.  Frames read before the socket closed are
\* still handled after it, so nothing here depends on the closed flag.
SubscribeToSpace(c, s) ==
    /\ alive
    /\ rpc[c] = "run"
    /\ Idle(Reader(c))
    /\ Unlocked
    /\ spaces' = [spaces EXCEPT ![s] = @ \cup {UserOf[c]}]
    /\ rpc' = [rpc EXCEPT ![c] = "online"]
    /\ topic' = [topic EXCEPT ![c] = s]
    /\ UNCHANGED <<connections, presence, mu, links, wpc, hpc, job, spc, sends, alive>>

\* handleSubscribe's second half: the broadcast of user.online.
AnnounceOnline(c) ==
    /\ alive
    /\ rpc[c] = "online"
    /\ StartBroadcast(Reader(c), topic[c])
    /\ rpc' = [rpc EXCEPT ![c] = "run"]
    /\ topic' = [topic EXCEPT ![c] = NoSpace]
    /\ UNCHANGED <<maps, links, wpc, hpc, job, spc, alive>>

\* handleTypingStart, when SetTyping broadcasts (module Typing has the rest).
AnnounceTyping(c, s) ==
    /\ alive
    /\ rpc[c] = "run"
    /\ Idle(Reader(c))
    /\ StartBroadcast(Reader(c), s)
    /\ UNCHANGED <<maps, links, pcs, alive>>

UnsubscribeFromSpace(c, s) ==
    /\ alive
    /\ rpc[c] = "run"
    /\ Idle(Reader(c))
    /\ Unlocked
    /\ spaces' = [spaces EXCEPT ![s] = @ \ {UserOf[c]}]
    /\ UNCHANGED <<connections, presence, mu, links, pcs, sends, alive>>

\* ReadMessage fails: the client left, the pong is late, or the socket closed.
ReadError(c) ==
    /\ alive
    /\ rpc[c] = "run"
    /\ Idle(Reader(c))
    /\ rpc' = [rpc EXCEPT ![c] = "unregister"]
    /\ UNCHANGED <<maps, links, wpc, topic, hpc, job, spc, sends, alive>>

\* ReadPump's second deferred call.
CloseAfterRead(c) ==
    /\ alive
    /\ rpc[c] = "close"
    /\ StartClose(Reader(c), c)
    /\ rpc' = [rpc EXCEPT ![c] = "done"]
    /\ UNCHANGED <<maps, sendClosed, buf, wpc, topic, hpc, job, spc, sends, alive>>

\* WritePump takes a message, and the write succeeds or ends the pump.
WriteMessage(c) ==
    /\ alive
    /\ wpc[c] = "run"
    /\ Idle(Writer(c))
    /\ buf[c] > 0
    /\ buf' = [buf EXCEPT ![c] = @ - 1]
    /\ \/ UNCHANGED <<wpc, closed, closer>>
       \/ /\ wpc' = [wpc EXCEPT ![c] = "done"]
          /\ StartClose(Writer(c), c)
    /\ UNCHANGED <<maps, sendClosed, rpc, topic, hpc, job, spc, sends, alive>>

\* WritePump finds the channel closed and drained.
WritePumpEnds(c) ==
    /\ alive
    /\ wpc[c] = "run"
    /\ Idle(Writer(c))
    /\ sendClosed[c]
    /\ buf[c] = 0
    /\ wpc' = [wpc EXCEPT ![c] = "done"]
    /\ UNCHANGED <<maps, links, rpc, topic, hpc, job, spc, sends, alive>>

\* WritePump's ticker: the native ping fails, or the application ping is queued.
Ping(c) ==
    /\ alive
    /\ wpc[c] = "run"
    /\ Idle(Writer(c))
    /\ \/ /\ wpc' = [wpc EXCEPT ![c] = "done"]
          /\ StartClose(Writer(c), c)
          /\ UNCHANGED sends
       \/ /\ StartSend(Writer(c), c)
          /\ UNCHANGED <<wpc, closed, closer>>
    /\ UNCHANGED <<maps, sendClosed, buf, rpc, topic, hpc, job, spc, alive>>

Publish(b, s) ==
    /\ alive
    /\ Idle(Publisher(b))
    /\ StartBroadcast(Publisher(b), s)
    /\ UNCHANGED <<maps, links, pcs, alive>>

--------------------------------------------------------------------------------
\* The loop receives from h.register; the handler goes on before handleRegister
\* runs.  Once h.done is closed the loop may still choose this case.
TakeRegister(c) ==
    /\ alive
    /\ hpc = "select"
    /\ rpc[c] = "register"
    /\ hpc' = "register"
    /\ job' = [NoJob EXCEPT !.conn = c]
    /\ rpc' = [rpc EXCEPT ![c] = "auth"]
    /\ UNCHANGED <<maps, links, wpc, topic, spc, sends, alive>>

\* Mutant: the replaced connection is not closed.
ReplaceWithoutClose ==
    /\ alive
    /\ hpc = "register"
    /\ Unlocked
    /\ mu' = HubLoop
    /\ hpc' = "swap"
    /\ UNCHANGED <<connections, spaces, presence, links, rpc, wpc, topic, job, spc, sends, alive>>

\* handleRegister takes the lock and starts CloseSessionReplaced.
ReplaceExisting ==
    /\ alive
    /\ hpc = "register"
    /\ Unlocked
    /\ mu' = HubLoop
    /\ LET existing == connections[UserOf[job.conn]] IN
         IF existing = NoConn THEN UNCHANGED <<closed, closer>>
                              ELSE StartClose(HubLoop, existing)
    /\ hpc' = "swap"
    /\ UNCHANGED <<connections, spaces, presence, sendClosed, buf, rpc, wpc, topic, job, spc, sends, alive>>

\* Mutant: handleRegister does not release the lock.
InstallWithoutUnlock ==
    /\ alive
    /\ hpc = "swap"
    /\ Idle(HubLoop)
    /\ connections' = [connections EXCEPT ![UserOf[job.conn]] = job.conn]
    /\ hpc' = "online"
    /\ UNCHANGED <<spaces, presence, mu, links, rpc, wpc, topic, job, spc, sends, alive>>

InstallConnection ==
    /\ alive
    /\ hpc = "swap"
    /\ Idle(HubLoop)
    /\ connections' = [connections EXCEPT ![UserOf[job.conn]] = job.conn]
    /\ mu' = NoProc
    /\ hpc' = "online"
    /\ UNCHANGED <<spaces, presence, links, rpc, wpc, topic, job, spc, sends, alive>>

\* updateUserPresence: an error is logged and forgotten.
UpdateUserPresence(status) ==
    \/ presence' = [presence EXCEPT ![UserOf[job.conn]] = status]
    \/ "db" \in Faults /\ UNCHANGED presence

MarkOnline ==
    /\ alive
    /\ hpc = "online"
    /\ UpdateUserPresence("online")
    /\ hpc' = "select"
    /\ job' = NoJob
    /\ UNCHANGED <<connections, spaces, mu, links, rpc, wpc, topic, spc, sends, alive>>

TakeUnregister(c) ==
    /\ alive
    /\ hpc = "select"
    /\ rpc[c] = "unregister"
    /\ hpc' = "unregister"
    /\ job' = [NoJob EXCEPT !.conn = c]
    /\ rpc' = [rpc EXCEPT ![c] = "close"]
    /\ UNCHANGED <<maps, links, wpc, topic, spc, sends, alive>>

\* Mutant: handleUnregister removes whatever connection the user has.
RemoveAnyConnection ==
    /\ alive
    /\ hpc = "unregister"
    /\ Unlocked
    /\ LET u == UserOf[job.conn] IN
         /\ connections' = [connections EXCEPT ![u] = NoConn]
         /\ spaces' = [s \in Spaces |-> spaces[s] \ {u}]
    /\ hpc' = "offline"
    /\ UNCHANGED <<presence, mu, links, rpc, wpc, topic, job, spc, sends, alive>>

\* Mutant: handleUnregister leaves the connection in the map.
RemoveOnlySubscriptions ==
    /\ alive
    /\ hpc = "unregister"
    /\ Unlocked
    /\ connections[UserOf[job.conn]] = job.conn
    /\ spaces' = [s \in Spaces |-> spaces[s] \ {UserOf[job.conn]}]
    /\ hpc' = "offline"
    /\ UNCHANGED <<connections, presence, mu, links, rpc, wpc, topic, job, spc, sends, alive>>

\* handleUnregister's critical section, when conn is the current connection.
RemoveConnection ==
    /\ alive
    /\ hpc = "unregister"
    /\ Unlocked
    /\ LET u == UserOf[job.conn] IN
         /\ connections[u] = job.conn
         /\ connections' = [connections EXCEPT ![u] = NoConn]
         /\ spaces' = [s \in Spaces |-> spaces[s] \ {u}]
    /\ hpc' = "offline"
    /\ UNCHANGED <<presence, mu, links, rpc, wpc, topic, job, spc, sends, alive>>

\* Mutant: a replaced connection's user is marked offline all the same.
SkipReplacedGoesOffline ==
    /\ alive
    /\ hpc = "unregister"
    /\ Unlocked
    /\ connections[UserOf[job.conn]] # job.conn
    /\ hpc' = "offline"
    /\ UNCHANGED <<maps, links, rpc, wpc, topic, job, spc, sends, alive>>

\* handleUnregister, when conn was replaced: nothing to do.
SkipReplaced ==
    /\ alive
    /\ hpc = "unregister"
    /\ Unlocked
    /\ connections[UserOf[job.conn]] # job.conn
    /\ hpc' = "select"
    /\ job' = NoJob
    /\ UNCHANGED <<maps, links, rpc, wpc, topic, spc, sends, alive>>

\* Mutant: only the broadcast, no presence write.
TellWithoutMarking ==
    /\ alive
    /\ hpc = "offline"
    /\ hpc' = "tell"
    /\ job' = [job EXCEPT !.owed = {s \in Spaces : spaces[s] # {}}]
    /\ UNCHANGED <<maps, links, rpc, wpc, topic, spc, sends, alive>>

\* The presence write, then the start of broadcastUserOffline's range.
MarkOffline ==
    /\ alive
    /\ hpc = "offline"
    /\ UpdateUserPresence("offline")
    /\ hpc' = "tell"
    /\ job' = [job EXCEPT !.owed = {s \in Spaces : spaces[s] # {}}]
    /\ UNCHANGED <<connections, spaces, mu, links, rpc, wpc, topic, spc, sends, alive>>

\* broadcastUserOffline ranges over h.spaces without the lock: a key deleted
\* before it is reached is not produced, one added meanwhile may be.
TellSpace(s) ==
    /\ alive
    /\ hpc = "tell"
    /\ Idle(HubLoop)
    /\ s \notin job.told
    /\ spaces[s] # {}
    /\ StartBroadcast(HubLoop, s)
    /\ job' = [job EXCEPT !.owed = @ \ {s}, !.told = @ \cup {s}]
    /\ UNCHANGED <<maps, links, rpc, wpc, topic, hpc, spc, alive>>

EndTell ==
    /\ alive
    /\ hpc = "tell"
    /\ Idle(HubLoop)
    /\ \A s \in job.owed : spaces[s] = {}
    /\ hpc' = "select"
    /\ job' = NoJob
    /\ UNCHANGED <<maps, links, rpc, wpc, topic, spc, sends, alive>>

\* The same range meets a reader writing the map at that moment: the runtime
\* reports "concurrent map iteration and map write" and ends the process.
MapRace ==
    /\ alive
    /\ hpc = "tell"
    /\ Idle(HubLoop)
    /\ Unlocked
    /\ \E c \in Conns : rpc[c] = "run" /\ Idle(Reader(c))
    /\ Die

HubReturns ==
    /\ alive
    /\ hpc = "select"
    /\ spc # "none"
    /\ hpc' = "gone"
    /\ UNCHANGED <<maps, links, rpc, wpc, topic, job, spc, sends, alive>>

--------------------------------------------------------------------------------
\* Stop closes h.done, takes the lock, closes the registered connections one
\* by one and forgets them.
StopSignal ==
    /\ alive
    /\ "stop" \in Faults
    /\ spc = "none"
    /\ spc' = "signalled"
    /\ UNCHANGED <<maps, links, rpc, wpc, topic, hpc, job, sends, alive>>

StopLock ==
    /\ alive
    /\ spc = "signalled"
    /\ Unlocked
    /\ mu' = Stopper
    /\ spc' = "closing"
    /\ UNCHANGED <<connections, spaces, presence, links, rpc, wpc, topic, hpc, job, sends, alive>>

StopClose(u) ==
    /\ alive
    /\ spc = "closing"
    /\ Idle(Stopper)
    /\ connections[u] # NoConn
    /\ ~closed[connections[u]]
    /\ StartClose(Stopper, connections[u])
    /\ UNCHANGED <<maps, sendClosed, buf, pcs, sends, alive>>

StopClear ==
    /\ alive
    /\ spc = "closing"
    /\ Idle(Stopper)
    /\ \A u \in Users : connections[u] # NoConn => closed[connections[u]]
    /\ connections' = [u \in Users |-> NoConn]
    /\ mu' = NoProc
    /\ spc' = "done"
    /\ UNCHANGED <<spaces, presence, links, rpc, wpc, topic, hpc, job, sends, alive>>

\* The process ends, after Stop or by a kill.
Exit ==
    /\ alive
    /\ spc = "done" \/ "kill" \in Faults
    /\ Die

\* A new process starts on the database it finds: nothing resets presence.
Restart ==
    /\ ~alive
    /\ "restart" \in Faults
    /\ alive' = TRUE
    /\ UNCHANGED <<maps, links, pcs, sends>>

--------------------------------------------------------------------------------
ReaderStep(c) ==
    \/ Upgrade(c) \/ SendAuthSuccess(c) \/ StartPumps(c)
    \/ AnnounceOnline(c) \/ ReadError(c) \/ CloseAfterRead(c)
    \/ \E s \in Spaces : \/ SubscribeToSpace(c, s) \/ UnsubscribeFromSpace(c, s)
                         \/ AnnounceTyping(c, s)

WriterStep(c) == WriteMessage(c) \/ WritePumpEnds(c) \/ Ping(c)

HubStep ==
    \/ \E c \in Conns : TakeRegister(c) \/ TakeUnregister(c)
    \/ ReplaceExisting \/ InstallConnection \/ MarkOnline
    \/ RemoveConnection \/ SkipReplaced \/ MarkOffline
    \/ \E s \in Spaces : TellSpace(s)
    \/ EndTell \/ MapRace \/ HubReturns

StopStep ==
    \/ StopSignal \/ StopLock \/ StopClear
    \/ \E u \in Users : StopClose(u)

Next ==
    \/ \E c \in Conns : ReaderStep(c) \/ WriterStep(c) \/ FinishClose(c)
    \/ \E b \in Publishers, s \in Spaces : Publish(b, s)
    \/ \E p \in Procs : Sending(p)
    \/ HubStep \/ StopStep \/ Exit \/ Restart

Spec == Init /\ [][Next]_vars

\* The Go scheduler runs every goroutine that can go on, select takes a ready
\* case, the close frame is written within writeWait, and ReadMessage, which has
\* only finitely many frames left in its buffer once the socket is closed, at
\* last returns an error.  Clients owe nothing.
Fairness ==
    /\ \A c \in Conns :
         /\ WF_vars(FinishClose(c))
         /\ WF_vars(SendAuthSuccess(c) \/ StartPumps(c) \/ AnnounceOnline(c) \/ CloseAfterRead(c))
         /\ SF_vars(sendClosed[c] /\ ReadError(c))
         /\ WF_vars(WritePumpEnds(c) \/ (sendClosed[c] /\ WriteMessage(c)))
    /\ \A p \in Procs : WF_vars(Sending(p))
    /\ WF_vars(HubStep)

FairSpec == Spec /\ Fairness

--------------------------------------------------------------------------------
\* Connections handleRegister has put into the map.
Attached == {c \in Conns : /\ rpc[c] \notin {"new", "register"}
                           /\ hpc \in {"register", "swap"} => job.conn # c}

\* Connections nothing is read from any more, or nothing will be sent to.
Ended == {c \in Conns : closed[c] \/ rpc[c] \in {"unregister", "close", "done"}}

Registry == INSTANCE SessionRegistry
            WITH owner <- connections, attached <- Attached, ended <- Ended

\* The hub implements the registry: no connection takes a user over from a live
\* one, and only the connection in the map can vacate it (hub.go:94-98, 116).
Refines == Registry!Spec

\* One connection per user (hub.go:93): a connection that was registered and has
\* neither been closed nor stopped reading is the one in the map, whatever
\* registrations, failures and shutdowns overlap with it.
OneLiveSession ==
    \A c \in Attached \ Ended : connections[UserOf[c]] = c

\* close(c.send) panics on a closed channel: although the reader, the writer,
\* every sender, the loop and Stop may all close a connection, a goroutine that
\* is about to close the channel finds it open (connection.go:91-109).
NoDoubleClose ==
    \A c \in Conns : closer[c] # NoProc => closed[c] /\ ~sendClosed[c]

\* Everybody waits for h.mu: readers that subscribe, senders, the loop and Stop
\* (hub.go:73-79, 94-105, connection.go:91-109).  Whoever holds it across steps is
\* closing a connection, which no other goroutine can delay, or free to take its
\* next step, so that no wait for the lock is a deadlock.
HolderGoesOn ==
    mu # NoProc =>
        /\ alive
        /\ \/ \E c \in Conns : closer[c] = mu
           \/ Idle(mu) /\ mu = HubLoop /\ hpc = "swap"
           \/ Idle(mu) /\ mu = Stopper /\ spc = "closing"

\* What holds of every state: the types, and that the lock's holder is never stuck.
Inv == TypeOK /\ HolderGoesOn

\* The inductive invariant behind OneLiveSession and the refinement: who holds
\* h.mu, which connection the loop handles and how far it has come, and which
\* connections the map and the channels may refer to.
LockOK ==
    /\ mu \in {NoProc, HubLoop, Stopper}
    /\ mu = HubLoop <=> hpc = "swap"
    /\ mu = Stopper <=> spc = "closing"
JobOK ==
    /\ hpc \notin {"select", "gone"} =>
         job.conn \in Conns /\ rpc[job.conn] \notin {"new", "register"}
    /\ hpc \in {"register", "swap"} => \A u \in Users : connections[u] # job.conn
    /\ hpc = "swap" => \/ connections[UserOf[job.conn]] = NoConn
                       \/ closed[connections[UserOf[job.conn]]]
    /\ hpc = "unregister" => rpc[job.conn] \in {"close", "done"}
MapOK ==
    \A u \in Users : connections[u] # NoConn =>
        /\ UserOf[connections[u]] = u
        /\ rpc[connections[u]] \notin {"new", "register"}
CloseOK ==
    \A c \in Conns : /\ sendClosed[c] => closed[c]
                     /\ closer[c] # NoProc => closed[c] /\ ~sendClosed[c]
SenderOK ==
    \A c \in Conns : /\ target[Reader(c)] # NoConn => rpc[c] \in {"start", "run"}
                     /\ casting[Reader(c)] # {} => rpc[c] = "run"
IInv == TypeOK /\ SenderOK /\ LockOK /\ JobOK /\ MapOK /\ CloseOK /\ OneLiveSession

\* Once the loop has nothing in hand, a connection whose reader has returned is
\* out of the map or closed, so that no broadcast is queued for nobody to write.
NoSilentGhost ==
    alive /\ hpc = "select" =>
        \A u \in Users : connections[u] # NoConn /\ rpc[connections[u]] \in {"close", "done"}
                             => closed[connections[u]]

\* With presence writes that succeed, a connected user is never shown offline
\* once the loop has nothing in hand: the replaced connection's unregistration
\* does not take its successor's presence away.
ConnectedShownOnline ==
    alive /\ hpc = "select" =>
        \A u \in Users : connections[u] # NoConn => presence[u] = "online"

\* The reverse, in a process that was neither stopped nor restarted: nobody is
\* shown online without a connection.
OnlineIsConnected ==
    alive /\ hpc = "select" =>
        \A u \in Users : presence[u] = "online" => connections[u] # NoConn

\* In such a process the presence in the database is the hub's (hub.go:103, 130).
PresenceAgrees == ConnectedShownOnline /\ OnlineIsConnected

\* Send queues a message or drops it: no goroutine sends on a channel that was
\* closed since it checked the flag.
NoSendOnClosed ==
    \A p \in Procs, c \in Conns : target[p] = c => ~sendClosed[c]

\* A reader that reaches Unregister is taken by the loop and returns.
UnregisterReturns ==
    \A c \in Conns : rpc[c] = "unregister" ~> rpc[c] = "done"

\* A closed connection gives its goroutines back: replaced or overflowing, its
\* reader unregisters it and its writer ends.
ClosedIsReaped ==
    \A c \in Conns : closed[c] ~> (rpc[c] = "done" /\ wpc[c] # "run")

\* A connection waiting in Register is taken, however long its predecessor's
\* close frame keeps the loop busy.
RegisterReturns ==
    \A c \in Conns : rpc[c] = "register" /\ alive ~> rpc[c] # "register" \/ ~alive

\* The loop takes whatever readers offer it: nobody waits in Register or in Unregister
\* for ever (hub.go:48-64, 81-88).
LoopServes == UnregisterReturns /\ RegisterReturns
================================================================================
