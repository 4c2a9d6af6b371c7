------------------------------- MODULE HubProofs -------------------------------
(***************************************************************************)
(* Theorems about Hub for every set of users, connections, spaces and      *)
(* publishers, every buffer size and every choice of faults.               *)
(* The last part is about the typing indicators of the same process.       *)
(***************************************************************************)
EXTENDS Hub, Typing, TLAPS

LEMMA DieType ==
    ASSUME TypeOK, Die
    PROVE  TypeOK'
<1>1. job' \in Jobs
  BY DEF Die, NoJob, Jobs
<1>2. /\ closed' \in [Conns -> BOOLEAN]
      /\ sendClosed' \in [Conns -> BOOLEAN]
  BY DEF Die
<1>3. /\ connections' \in [Users -> Conns \cup {NoConn}]
      /\ spaces' \in [Spaces -> SUBSET Users]
      /\ presence' \in [Users -> {"online", "offline"}]
      /\ mu' \in Procs \cup {NoProc}
      /\ closer' \in [Conns -> Procs \cup {NoProc}]
  BY DEF Die, TypeOK
<1>4. /\ buf' \in [Conns -> 0..BufferSize]
      /\ rpc' \in [Conns -> ReaderStates]
      /\ wpc' \in [Conns -> WriterStates]
      /\ topic' \in [Conns -> Spaces \cup {NoSpace}]
  BY HubAssumption DEF Die, ReaderStates, WriterStates
<1>5. /\ hpc' \in HubStates
      /\ spc' \in StopStates
      /\ casting' \in [Procs -> SUBSET Users]
      /\ target' \in [Procs -> Conns \cup {NoConn}]
      /\ alive' \in BOOLEAN
  BY DEF Die, HubStates, StopStates
<1>6. \A c \in Conns : rpc'[c] = "online" => topic'[c] \in Spaces
  BY DEF Die
<1>. QED  BY <1>1, <1>2, <1>3, <1>4, <1>5, <1>6 DEF TypeOK

LEMMA StartCloseType ==
    ASSUME TypeOK, NEW p \in Procs, NEW c, StartClose(p, c)
    PROVE  /\ closed' \in [Conns -> BOOLEAN]
           /\ closer' \in [Conns -> Procs \cup {NoProc}]
  BY DEF TypeOK, StartClose

\* The sends, closes and pumps of a connection keep the types.
LEMMA SendingType ==
    ASSUME TypeOK, NEW p \in Procs, Sending(p)
    PROVE  TypeOK'
<1> USE HubAssumption DEF maps, links, pcs, sends
<1>1. CASE PickTarget(p)
  BY <1>1 DEF PickTarget, TypeOK
<1>2. CASE Enqueue(p)
  BY <1>2 DEF Enqueue, TypeOK
<1>3. CASE Overflow(p)
  <2>1. /\ closed' \in [Conns -> BOOLEAN]
        /\ closer' \in [Conns -> Procs \cup {NoProc}]
    BY <1>3, StartCloseType DEF Overflow
  <2>2. target' \in [Procs -> Conns \cup {NoConn}]
    BY <1>3 DEF Overflow, TypeOK
  <2>. QED  BY <1>3, <2>1, <2>2 DEF Overflow, TypeOK
<1>4. CASE PanicRecovered(p)
  BY <1>4 DEF PanicRecovered, ReaderStates, TypeOK
<1>5. CASE PanicFatal(p)
  BY <1>5, DieType DEF PanicFatal
<1>. QED  BY <1>1, <1>2, <1>3, <1>4, <1>5 DEF Sending

LEMMA ReaderType ==
    ASSUME TypeOK, NEW c \in Conns, ReaderStep(c)
    PROVE  TypeOK'
<1> USE DEF TypeOK, maps, links, pcs, sends, ReaderStates, WriterStates
<1>0. Reader(c) \in Procs
  BY DEF Procs
<1>1. CASE Upgrade(c)
  BY <1>1 DEF Upgrade
<1>2. CASE SendAuthSuccess(c)
  BY <1>0, <1>2 DEF SendAuthSuccess, StartSend
<1>3. CASE StartPumps(c)
  BY <1>3 DEF StartPumps
<1>4. CASE AnnounceOnline(c)
  BY <1>0, <1>4 DEF AnnounceOnline, StartBroadcast
<1>5. CASE ReadError(c)
  BY <1>5 DEF ReadError
<1>6. CASE CloseAfterRead(c)
  BY <1>0, <1>6 DEF CloseAfterRead, StartClose
<1>7. ASSUME NEW s \in Spaces, SubscribeToSpace(c, s)
      PROVE  TypeOK'
  <2>1. spaces' \in [Spaces -> SUBSET Users]
    BY <1>7, HubAssumption DEF SubscribeToSpace
  <2>2. /\ rpc' \in [Conns -> ReaderStates]
        /\ topic' \in [Conns -> Spaces \cup {NoSpace}]
        /\ \A d \in Conns : rpc'[d] = "online" => topic'[d] \in Spaces
    BY <1>7 DEF SubscribeToSpace
  <2>. QED  BY <1>7, <2>1, <2>2 DEF SubscribeToSpace
<1>8. ASSUME NEW s \in Spaces, UnsubscribeFromSpace(c, s)
      PROVE  TypeOK'
  BY <1>8 DEF UnsubscribeFromSpace
<1>9. ASSUME NEW s \in Spaces, AnnounceTyping(c, s)
      PROVE  TypeOK'
  BY <1>0, <1>9 DEF AnnounceTyping, StartBroadcast
<1>. QED  BY <1>1, <1>2, <1>3, <1>4, <1>5, <1>6, <1>7, <1>8, <1>9 DEF ReaderStep

LEMMA WriterType ==
    ASSUME TypeOK, NEW c \in Conns, WriterStep(c)
    PROVE  TypeOK'
<1> USE DEF TypeOK, maps, links, pcs, sends, WriterStates
<1>0. Writer(c) \in Procs
  BY DEF Procs
<1>1. CASE WriteMessage(c)
  <2>1. buf' \in [Conns -> 0..BufferSize]
    <3>1. buf[c] - 1 \in 0..BufferSize
      BY <1>1, HubAssumption DEF WriteMessage
    <3>. QED  BY <1>1, <3>1 DEF WriteMessage
  <2>2. CASE UNCHANGED <<wpc, closed, closer>>
    BY <1>1, <2>1, <2>2 DEF WriteMessage
  <2>3. CASE wpc' = [wpc EXCEPT ![c] = "done"] /\ StartClose(Writer(c), c)
    BY <1>0, <1>1, <2>1, <2>3, StartCloseType DEF WriteMessage
  <2>. QED  BY <1>1, <2>2, <2>3 DEF WriteMessage
<1>2. CASE WritePumpEnds(c)
  BY <1>2 DEF WritePumpEnds
<1>3. CASE Ping(c)
  <2>1. CASE wpc' = [wpc EXCEPT ![c] = "done"] /\ StartClose(Writer(c), c) /\ UNCHANGED sends
    <3>1. /\ closed' \in [Conns -> BOOLEAN]
          /\ closer' \in [Conns -> Procs \cup {NoProc}]
      BY <1>0, <2>1, StartCloseType
    <3>. QED  BY <1>3, <2>1, <3>1 DEF Ping
  <2>2. CASE StartSend(Writer(c), c) /\ UNCHANGED <<wpc, closed, closer>>
    BY <1>0, <1>3, <2>2 DEF Ping, StartSend
  <2>. QED  BY <1>3, <2>1, <2>2 DEF Ping
<1>. QED  BY <1>1, <1>2, <1>3 DEF WriterStep

LEMMA HubType ==
    ASSUME TypeOK, HubStep
    PROVE  TypeOK'
<1> USE DEF TypeOK, maps, links, pcs, sends, HubStates, Jobs
<1>0. HubLoop \in Procs /\ NoJob \in Jobs
  BY DEF Procs, NoJob
<1>1. ASSUME NEW c \in Conns, TakeRegister(c)
      PROVE  TypeOK'
  BY <1>1 DEF TakeRegister, NoJob, ReaderStates
<1>2. ASSUME NEW c \in Conns, TakeUnregister(c)
      PROVE  TypeOK'
  BY <1>2 DEF TakeUnregister, NoJob, ReaderStates
<1>3. CASE ReplaceExisting
  <2>1. /\ closed' \in [Conns -> BOOLEAN]
        /\ closer' \in [Conns -> Procs \cup {NoProc}]
    <3>1. CASE UNCHANGED <<closed, closer>>
      BY <3>1
    <3>2. CASE StartClose(HubLoop, connections[UserOf[job.conn]])
      BY <1>0, <3>2, StartCloseType
    <3>. QED  BY <1>3, <3>1, <3>2 DEF ReplaceExisting
  <2>. QED  BY <1>0, <1>3, <2>1 DEF ReplaceExisting
<1>4. CASE InstallConnection
  BY <1>4 DEF InstallConnection
<1>5. CASE MarkOnline
  BY <1>0, <1>5 DEF MarkOnline, UpdateUserPresence
<1>6. CASE RemoveConnection
  BY <1>6 DEF RemoveConnection
<1>7. CASE SkipReplaced
  BY <1>0, <1>7 DEF SkipReplaced
<1>8. CASE MarkOffline
  BY <1>8 DEF MarkOffline, UpdateUserPresence
<1>9. ASSUME NEW s \in Spaces, TellSpace(s)
      PROVE  TypeOK'
  BY <1>0, <1>9 DEF TellSpace, StartBroadcast
<1>10. CASE EndTell
  BY <1>0, <1>10 DEF EndTell
<1>11. CASE MapRace
  BY <1>11, DieType DEF MapRace
<1>12. CASE HubReturns
  BY <1>12 DEF HubReturns
<1>. QED  BY <1>1, <1>2, <1>3, <1>4, <1>5, <1>6, <1>7, <1>8, <1>9, <1>10,
             <1>11, <1>12 DEF HubStep

LEMMA StopType ==
    ASSUME TypeOK, StopStep
    PROVE  TypeOK'
<1> USE DEF TypeOK, maps, links, pcs, sends, StopStates
<1>0. Stopper \in Procs
  BY DEF Procs
<1>1. CASE StopSignal
  BY <1>1 DEF StopSignal
<1>2. CASE StopLock
  BY <1>0, <1>2 DEF StopLock
<1>3. ASSUME NEW u \in Users, StopClose(u)
      PROVE  TypeOK'
  <2>1. /\ closed' \in [Conns -> BOOLEAN]
        /\ closer' \in [Conns -> Procs \cup {NoProc}]
    BY <1>0, <1>3, StartCloseType DEF StopClose
  <2>. QED  BY <1>3, <2>1 DEF StopClose
<1>4. CASE StopClear
  BY <1>4 DEF StopClear
<1>. QED  BY <1>1, <1>2, <1>3, <1>4 DEF StopStep

\* Every variable keeps its type in every step.
LEMMA NextType ==
    ASSUME TypeOK, [Next]_vars
    PROVE  TypeOK'
<1>1. ASSUME NEW c \in Conns, FinishClose(c)
      PROVE  TypeOK'
  BY <1>1 DEF FinishClose, TypeOK, maps, pcs, sends
<1>2. ASSUME NEW b \in Publishers, NEW s \in Spaces, Publish(b, s)
      PROVE  TypeOK'
  <2>1. Publisher(b) \in Procs
    BY DEF Procs
  <2>. QED  BY <1>2, <2>1 DEF Publish, StartBroadcast, TypeOK, maps, links, pcs
<1>3. CASE Exit
  BY <1>3, DieType DEF Exit
<1>4. CASE Restart
  BY <1>4 DEF Restart, TypeOK, maps, links, pcs, sends
<1>5. CASE UNCHANGED vars
  BY <1>5 DEF TypeOK, vars
<1>. QED  BY <1>1, <1>2, <1>3, <1>4, <1>5, SendingType, ReaderType, WriterType,
             HubType, StopType DEF Next

\* Type correctness: every variable of the hub keeps its type.
THEOREM TypeCorrect == Spec => []TypeOK
<1>1. Init => TypeOK
  <2>1. NoJob \in Jobs
    BY DEF NoJob, Jobs
  <2>. QED  BY <2>1, HubAssumption DEF Init, TypeOK, ReaderStates, WriterStates,
                                       HubStates, StopStates
<1>2. TypeOK /\ [Next]_vars => TypeOK'
  BY NextType
<1>. QED  BY <1>1, <1>2, PTL DEF Spec

--------------------------------------------------------------------------------
\* The parts of IInv beside the types.
Core == SenderOK /\ LockOK /\ JobOK /\ MapOK /\ CloseOK /\ OneLiveSession

LEMMA DistinctProcs ==
    /\ HubLoop # Stopper
    /\ HubLoop # NoProc
    /\ Stopper # NoProc
    /\ HubLoop \in Procs
    /\ Stopper \in Procs
    /\ \A c \in Conns : /\ Reader(c) \in Procs /\ Writer(c) \in Procs
                        /\ Reader(c) # HubLoop /\ Reader(c) # Stopper
  BY ProcAssumption DEF Procs, HubLoop, Stopper, Reader, Writer

LEMMA DieCore ==
    ASSUME Die
    PROVE  Core'
  BY DistinctProcs DEF Die, Core, SenderOK, LockOK, JobOK, MapOK, CloseOK, OneLiveSession, Attached, Ended

\* Closing a connection disturbs no other part: the flag only goes up, and
\* whoever raises it finds the channel open.
LEMMA CloseKeeps ==
    ASSUME IInv, NEW p \in Procs, NEW c \in Conns, StartClose(p, c),
           UNCHANGED <<connections, mu, sendClosed, hpc, job, spc>>,
           \/ UNCHANGED target
           \/ target' = [target EXCEPT ![p] = NoConn],
           UNCHANGED casting,
           \/ UNCHANGED rpc
           \/ rpc' = [rpc EXCEPT ![c] = "done"] /\ rpc[c] = "close"
    PROVE  Core'
<1> USE ProcAssumption DEF IInv, TypeOK, StartClose
<1>0. SenderOK'
  BY DistinctProcs DEF SenderOK
<1>1. LockOK'
  BY DEF LockOK
<1>2. JobOK'
  <2>1. job.conn \in Conns => connections[UserOf[job.conn]] \in Conns \cup {NoConn}
    BY HubAssumption
  <2>2. \A d \in Conns : closed[d] => closed'[d]
    OBVIOUS
  <2>. QED  BY <2>1, <2>2 DEF JobOK
<1>3. MapOK'
  BY DEF MapOK
<1>4. CloseOK'
  BY DEF CloseOK
<1>5. OneLiveSession'
  BY DEF OneLiveSession, Attached, Ended
<1>. QED  BY <1>0, <1>1, <1>2, <1>3, <1>4, <1>5 DEF Core

\* Steps that change neither the maps, the closing of connections nor the loop,
\* and move readers only forward from registration.
LEMMA QuietKeeps ==
    ASSUME IInv, UNCHANGED <<connections, mu, closed, hpc, job, spc>>,
           UNCHANGED <<sendClosed, closer>>,
           \A c \in Conns : \/ rpc'[c] = rpc[c]
                            \/ rpc[c] = "new" /\ rpc'[c] = "register"
                            \/ /\ rpc[c] \in {"auth", "start", "run", "online"}
                               /\ rpc'[c] \in {"start", "run", "online", "unregister", "done"},
           SenderOK'
    PROVE  Core'
<1> USE DEF IInv, TypeOK
<1>1. LockOK'
  BY DEF LockOK
<1>2. JobOK'
  BY DEF JobOK
<1>3. MapOK'
  BY DEF MapOK
<1>4. CloseOK'
  BY DEF CloseOK
<1>5. OneLiveSession'
  BY DEF OneLiveSession, Attached, Ended
<1>. QED  BY <1>1, <1>2, <1>3, <1>4, <1>5 DEF Core

\* The loop's own steps, where the map changes hands.
LEMMA HubKeeps ==
    ASSUME IInv, TypeOK', HubStep
    PROVE  Core'
<1> USE HubAssumption, DistinctProcs
    DEF IInv, TypeOK, maps, links, pcs, sends, SenderOK, LockOK, JobOK, MapOK, CloseOK,
        OneLiveSession, Attached, Ended, Core
<1>1. ASSUME NEW c \in Conns, TakeRegister(c)
      PROVE  Core'
  BY <1>1 DEF TakeRegister, NoJob
<1>2. ASSUME NEW c \in Conns, TakeUnregister(c)
      PROVE  Core'
  BY <1>2 DEF TakeUnregister, NoJob
<1>3. CASE ReplaceExisting
  <2>0. connections[UserOf[job.conn]] \in Conns \cup {NoConn}
    BY <1>3 DEF ReplaceExisting
  <2>1. \A c \in Conns : closed[c] => closed'[c]
    BY <1>3, <2>0 DEF ReplaceExisting, StartClose
  <2>2. SenderOK' /\ LockOK' /\ MapOK'
    BY <1>3, <2>1 DEF ReplaceExisting, Unlocked
  <2>3. CloseOK'
    BY <1>3, <2>0 DEF ReplaceExisting, StartClose
  <2>4. JobOK'
    BY <1>3, <2>0 DEF ReplaceExisting, StartClose
  <2>5. OneLiveSession'
    BY <1>3, <2>1 DEF ReplaceExisting
  <2>. QED  BY <2>2, <2>3, <2>4, <2>5
<1>4. CASE InstallConnection
  BY <1>4 DEF InstallConnection
<1>5. CASE MarkOnline
  BY <1>5 DEF MarkOnline
<1>6. CASE RemoveConnection
  BY <1>6 DEF RemoveConnection
<1>7. CASE SkipReplaced
  BY <1>7 DEF SkipReplaced
<1>8. CASE MarkOffline
  BY <1>8 DEF MarkOffline
<1>9. ASSUME NEW s \in Spaces, TellSpace(s)
      PROVE  Core'
  BY <1>9 DEF TellSpace, StartBroadcast
<1>10. CASE EndTell
  BY <1>10 DEF EndTell
<1>11. CASE MapRace
  BY <1>11, DieCore DEF MapRace
<1>12. CASE HubReturns
  BY <1>12 DEF HubReturns
<1>. QED  BY <1>1, <1>2, <1>3, <1>4, <1>5, <1>6, <1>7, <1>8, <1>9, <1>10,
             <1>11, <1>12 DEF HubStep

LEMMA SendingKeeps ==
    ASSUME IInv, NEW p \in Procs, Sending(p)
    PROVE  Core'
<1> USE DEF maps, links, pcs, sends
<1>1. CASE PickTarget(p)
  BY <1>1, QuietKeeps DEF PickTarget, IInv, TypeOK, SenderOK, Reader
<1>2. CASE Enqueue(p)
  BY <1>2, QuietKeeps DEF Enqueue, IInv, TypeOK, SenderOK
<1>3. CASE Overflow(p)
  <2>1. PICK c \in Conns : StartClose(p, c)
    BY <1>3 DEF Overflow
  <2>2. /\ UNCHANGED <<connections, mu, sendClosed, hpc, job, spc>>
        /\ target' = [target EXCEPT ![p] = NoConn]
        /\ UNCHANGED casting
        /\ UNCHANGED rpc
    BY <1>3 DEF Overflow
  <2>. QED  BY <2>1, <2>2, CloseKeeps
<1>4. CASE PanicRecovered(p)
  <2>1. \A c \in Conns : rpc'[c] = rpc[c] \/ p = Reader(c)
    BY <1>4 DEF PanicRecovered, IInv, TypeOK
  <2>2. \A c \in Conns : p = Reader(c) => rpc[c] \in {"start", "run"} /\ rpc'[c] \in {"done", "unregister"}
    BY <1>4, HubAssumption DEF PanicRecovered, IInv, TypeOK, SenderOK
  <2>3. SenderOK'
    BY <1>4, <2>1 DEF PanicRecovered, IInv, TypeOK, SenderOK
  <2>4. UNCHANGED <<connections, mu, closed, hpc, job, spc>> /\ UNCHANGED <<sendClosed, closer>>
    BY <1>4 DEF PanicRecovered
  <2>5. \A c \in Conns : \/ rpc'[c] = rpc[c]
                         \/ rpc[c] = "new" /\ rpc'[c] = "register"
                         \/ /\ rpc[c] \in {"auth", "start", "run", "online"}
                            /\ rpc'[c] \in {"start", "run", "online", "unregister", "done"}
    BY <2>1, <2>2
  <2>. QED  BY <2>3, <2>4, <2>5, QuietKeeps
<1>5. CASE PanicFatal(p)
  BY <1>5, DieCore DEF PanicFatal
<1>. QED  BY <1>1, <1>2, <1>3, <1>4, <1>5 DEF Sending

LEMMA ReaderKeeps ==
    ASSUME IInv, NEW c \in Conns, ReaderStep(c)
    PROVE  Core'
<1> USE DistinctProcs DEF maps, links, pcs, sends
<1>1. CASE Upgrade(c)
  BY <1>1, QuietKeeps DEF Upgrade, IInv, TypeOK, SenderOK
<1>2. CASE SendAuthSuccess(c)
  BY <1>2, QuietKeeps DEF SendAuthSuccess, StartSend, IInv, TypeOK, SenderOK, Reader
<1>3. CASE StartPumps(c)
  BY <1>3, QuietKeeps DEF StartPumps, Idle, IInv, TypeOK, SenderOK
<1>4. CASE AnnounceOnline(c)
  BY <1>4, QuietKeeps DEF AnnounceOnline, StartBroadcast, IInv, TypeOK, SenderOK, Reader
<1>5. CASE ReadError(c)
  BY <1>5, QuietKeeps DEF ReadError, Idle, IInv, TypeOK, SenderOK
<1>6. CASE CloseAfterRead(c)
  BY <1>6, CloseKeeps DEF CloseAfterRead
<1>7. ASSUME NEW s \in Spaces, SubscribeToSpace(c, s)
      PROVE  Core'
  BY <1>7, QuietKeeps DEF SubscribeToSpace, Idle, IInv, TypeOK, SenderOK
<1>8. ASSUME NEW s \in Spaces, UnsubscribeFromSpace(c, s)
      PROVE  Core'
  BY <1>8, QuietKeeps DEF UnsubscribeFromSpace, IInv, SenderOK
<1>9. ASSUME NEW s \in Spaces, AnnounceTyping(c, s)
      PROVE  Core'
  BY <1>9, QuietKeeps DEF AnnounceTyping, StartBroadcast, IInv, TypeOK, SenderOK, Reader
<1>. QED  BY <1>1, <1>2, <1>3, <1>4, <1>5, <1>6, <1>7, <1>8, <1>9 DEF ReaderStep

LEMMA WriterKeeps ==
    ASSUME IInv, NEW c \in Conns, WriterStep(c)
    PROVE  Core'
<1> USE DistinctProcs DEF maps, links, pcs, sends
<1>1. CASE WriteMessage(c)
  <2>1. CASE UNCHANGED <<wpc, closed, closer>>
    BY <1>1, <2>1, QuietKeeps DEF WriteMessage, IInv, SenderOK
  <2>2. CASE StartClose(Writer(c), c)
    <3>1. /\ UNCHANGED <<connections, mu, sendClosed, hpc, job, spc>>
          /\ UNCHANGED target
          /\ UNCHANGED casting
          /\ UNCHANGED rpc
      BY <1>1 DEF WriteMessage
    <3>. QED  BY <2>2, <3>1, CloseKeeps
  <2>. QED  BY <1>1, <2>1, <2>2 DEF WriteMessage
<1>2. CASE WritePumpEnds(c)
  BY <1>2, QuietKeeps DEF WritePumpEnds, IInv, SenderOK
<1>3. CASE Ping(c)
  <2>1. CASE UNCHANGED sends /\ StartClose(Writer(c), c)
    <3>1. /\ UNCHANGED <<connections, mu, sendClosed, hpc, job, spc>>
          /\ UNCHANGED target
          /\ UNCHANGED casting
          /\ UNCHANGED rpc
      BY <1>3, <2>1 DEF Ping
    <3>. QED  BY <2>1, <3>1, CloseKeeps
  <2>2. CASE StartSend(Writer(c), c) /\ UNCHANGED <<wpc, closed, closer>>
    <3>1. SenderOK'
      BY <1>3, <2>2 DEF Ping, StartSend, IInv, TypeOK, SenderOK, Reader, Writer
    <3>. QED  BY <1>3, <2>2, <3>1, QuietKeeps DEF Ping
  <2>. QED  BY <1>3, <2>1, <2>2 DEF Ping
<1>. QED  BY <1>1, <1>2, <1>3 DEF WriterStep

LEMMA StopKeeps ==
    ASSUME IInv, StopStep
    PROVE  Core'
<1> USE DistinctProcs DEF maps, links, pcs, sends
<1>1. CASE StopSignal
  BY <1>1 DEF StopSignal, IInv, SenderOK, LockOK, JobOK, MapOK, CloseOK,
              OneLiveSession, Attached, Ended, Core
<1>2. CASE StopLock
  BY <1>2 DEF StopLock, Unlocked, IInv, SenderOK, LockOK, JobOK, MapOK, CloseOK,
              OneLiveSession, Attached, Ended, Core
<1>3. ASSUME NEW u \in Users, StopClose(u)
      PROVE  Core'
  <2>1. connections[u] \in Conns
    BY <1>3 DEF StopClose, IInv, TypeOK
  <2>2. /\ StartClose(Stopper, connections[u])
        /\ UNCHANGED <<connections, mu, sendClosed, hpc, job, spc>>
        /\ UNCHANGED target
        /\ UNCHANGED casting
        /\ UNCHANGED rpc
    BY <1>3 DEF StopClose
  <2>. QED  BY <2>1, <2>2, CloseKeeps
<1>4. CASE StopClear
  BY <1>4, HubAssumption DEF StopClear, IInv, TypeOK, SenderOK, LockOK, JobOK, MapOK, CloseOK,
              OneLiveSession, Attached, Ended, Core
<1>. QED  BY <1>1, <1>2, <1>3, <1>4 DEF StopStep

LEMMA IInvNext ==
    ASSUME IInv, [Next]_vars
    PROVE  IInv'
<1>0. TypeOK'
  BY NextType DEF IInv
<1>1. ASSUME NEW c \in Conns, FinishClose(c)
      PROVE  Core'
  BY <1>1 DEF FinishClose, maps, pcs, sends, IInv, TypeOK, SenderOK, LockOK, JobOK, MapOK,
              CloseOK, OneLiveSession, Attached, Ended, Core
<1>2. ASSUME NEW b \in Publishers, NEW s \in Spaces, Publish(b, s)
      PROVE  Core'
  BY <1>2, QuietKeeps DEF Publish, StartBroadcast, maps, links, pcs, IInv, TypeOK,
              SenderOK, Reader, Publisher
<1>3. ASSUME Exit PROVE Core'
  BY <1>3, DieCore DEF Exit
<1>4. ASSUME Restart PROVE Core'
  BY <1>4, QuietKeeps DEF Restart, maps, links, pcs, sends, IInv, SenderOK
<1>5. ASSUME UNCHANGED vars PROVE Core'
  BY <1>5, QuietKeeps DEF vars, IInv, SenderOK
<1>6. Core'
  BY <1>0, <1>1, <1>2, <1>3, <1>4, <1>5, SendingKeeps, ReaderKeeps, WriterKeeps,
     HubKeeps, StopKeeps DEF Next
<1>. QED  BY <1>0, <1>6 DEF Core, IInv

\* The inductive invariant holds in every reachable state.
THEOREM Invariance == Spec => []IInv
<1>1. Init => IInv
  <2>1. Init => TypeOK
    <3>1. NoJob \in Jobs
      BY DEF NoJob, Jobs
    <3>. QED  BY <3>1, HubAssumption DEF Init, TypeOK, ReaderStates, WriterStates,
                                         HubStates, StopStates
  <2>2. Init => Core
    BY DistinctProcs DEF Init, Core, SenderOK, LockOK, JobOK, MapOK, CloseOK,
                         OneLiveSession, Attached, Ended
  <2>. QED  BY <2>1, <2>2 DEF IInv, Core
<1>2. IInv /\ [Next]_vars => IInv'
  BY IInvNext
<1>. QED  BY <1>1, <1>2, PTL DEF Spec

\* A user has at most one live registered connection, the one in the map.
THEOREM OneLiveSessionHolds == Spec => []OneLiveSession
<1>1. IInv => OneLiveSession
  BY DEF IInv
<1>. QED  BY <1>1, Invariance, PTL

\* No goroutine closes a send channel that is closed already.
THEOREM NoDoubleCloseHolds == Spec => []NoDoubleClose
<1>1. IInv => NoDoubleClose
  BY DEF IInv, CloseOK, NoDoubleClose
<1>. QED  BY <1>1, Invariance, PTL

--------------------------------------------------------------------------------
\* A step that leaves the map and the registrations alone and revives nothing is
\* an End step of the registry.
LEMMA EndStep ==
    ASSUME TypeOK', UNCHANGED connections, Attached' = Attached, Ended \subseteq Ended'
    PROVE  Registry!Next
<1>1. Ended' \in SUBSET Conns
  BY DEF Ended
<1>2. Registry!End(Ended')
  BY DEF Registry!End
<1>. QED  BY <1>1, <1>2 DEF Registry!Next

LEMMA DieStep ==
    ASSUME IInv, Die
    PROVE  Registry!Next
<1>1. Ended' \in SUBSET Conns /\ Attached' \in SUBSET Ended'
  BY DEF Die, Ended, Attached
<1>2. Registry!Clear(Ended', Attached')
  BY DEF Registry!Clear, Die, Ended, Attached, IInv, TypeOK, MapOK
<1>. QED  BY <1>1, <1>2 DEF Registry!Next

LEMMA SendingRefines ==
    ASSUME IInv, TypeOK', NEW p \in Procs, Sending(p)
    PROVE  Registry!Next
<1> USE DEF maps, links, pcs, sends, IInv, TypeOK, Attached, Ended
<1>1. CASE PickTarget(p)
  BY <1>1, EndStep DEF PickTarget
<1>2. CASE Enqueue(p)
  BY <1>2, EndStep DEF Enqueue
<1>3. CASE Overflow(p)
  BY <1>3, EndStep DEF Overflow, StartClose
<1>4. CASE PanicRecovered(p)
  <2>1. \A c \in Conns : p = Reader(c) => rpc[c] \in {"start", "run"}
    BY <1>4, HubAssumption DEF PanicRecovered, SenderOK
  <2>2. \A c \in Conns : \/ rpc'[c] = rpc[c]
                         \/ rpc[c] \in {"start", "run"} /\ rpc'[c] \in {"done", "unregister"}
    BY <1>4, <2>1 DEF PanicRecovered
  <2>3. Attached' = Attached /\ Ended \subseteq Ended' /\ UNCHANGED connections
    BY <1>4, <2>2 DEF PanicRecovered
  <2>. QED  BY <2>3, EndStep
<1>5. CASE PanicFatal(p)
  BY <1>5, DieStep DEF PanicFatal
<1>. QED  BY <1>1, <1>2, <1>3, <1>4, <1>5 DEF Sending

LEMMA ReaderRefines ==
    ASSUME IInv, TypeOK', NEW c \in Conns, ReaderStep(c)
    PROVE  Registry!Next
<1> USE DEF maps, links, pcs, sends, IInv, TypeOK, Attached, Ended
<1>1. CASE Upgrade(c)
  BY <1>1, EndStep DEF Upgrade
<1>2. CASE SendAuthSuccess(c)
  BY <1>2, EndStep DEF SendAuthSuccess
<1>3. CASE StartPumps(c)
  BY <1>3, EndStep DEF StartPumps
<1>4. CASE AnnounceOnline(c)
  BY <1>4, EndStep DEF AnnounceOnline
<1>5. CASE ReadError(c)
  BY <1>5, EndStep DEF ReadError
<1>6. CASE CloseAfterRead(c)
  BY <1>6, EndStep DEF CloseAfterRead, StartClose
<1>7. ASSUME NEW s \in Spaces, SubscribeToSpace(c, s)
      PROVE  Registry!Next
  BY <1>7, EndStep DEF SubscribeToSpace
<1>8. ASSUME NEW s \in Spaces, UnsubscribeFromSpace(c, s)
      PROVE  Registry!Next
  BY <1>8, EndStep DEF UnsubscribeFromSpace
<1>9. ASSUME NEW s \in Spaces, AnnounceTyping(c, s)
      PROVE  Registry!Next
  BY <1>9, EndStep DEF AnnounceTyping
<1>. QED  BY <1>1, <1>2, <1>3, <1>4, <1>5, <1>6, <1>7, <1>8, <1>9 DEF ReaderStep

LEMMA WriterRefines ==
    ASSUME IInv, TypeOK', NEW c \in Conns, WriterStep(c)
    PROVE  Registry!Next
<1> USE DEF maps, links, pcs, sends, IInv, TypeOK, Attached, Ended
<1>1. CASE WriteMessage(c)
  BY <1>1, EndStep DEF WriteMessage, StartClose
<1>2. CASE WritePumpEnds(c)
  BY <1>2, EndStep DEF WritePumpEnds
<1>3. CASE Ping(c)
  BY <1>3, EndStep DEF Ping, StartClose
<1>. QED  BY <1>1, <1>2, <1>3 DEF WriterStep

LEMMA HubRefines ==
    ASSUME IInv, TypeOK', HubStep
    PROVE  Registry!Next
<1> USE DEF maps, links, pcs, sends, IInv, TypeOK, Attached, Ended
<1>1. ASSUME NEW c \in Conns, TakeRegister(c)
      PROVE  Registry!Next
  BY <1>1, EndStep DEF TakeRegister, NoJob
<1>2. ASSUME NEW c \in Conns, TakeUnregister(c)
      PROVE  Registry!Next
  BY <1>2, EndStep DEF TakeUnregister, NoJob
<1>3. CASE ReplaceExisting
  BY <1>3, EndStep DEF ReplaceExisting, StartClose
<1>4. CASE InstallConnection
  <2>1. PICK c \in Conns : c = job.conn
    BY <1>4 DEF InstallConnection, JobOK
  <2>2. c \notin Attached /\ Attached' = Attached \cup {c} /\ Ended' = Ended
    BY <1>4, <2>1 DEF InstallConnection, JobOK
  <2>3. connections[UserOf[c]] \in Ended \cup {NoConn}
    BY <1>4, <2>1, HubAssumption DEF InstallConnection, JobOK
  <2>4. Registry!Attach(c)
    BY <1>4, <2>1, <2>2, <2>3 DEF InstallConnection, Registry!Attach
  <2>. QED  BY <2>4 DEF Registry!Next
<1>5. CASE MarkOnline
  BY <1>5, EndStep DEF MarkOnline
<1>6. CASE RemoveConnection
  <2>1. PICK c \in Conns : c = job.conn
    BY <1>6 DEF RemoveConnection, JobOK
  <2>2. Registry!Detach(c)
    BY <1>6, <2>1 DEF RemoveConnection, JobOK, Registry!Detach
  <2>. QED  BY <2>2 DEF Registry!Next
<1>7. CASE SkipReplaced
  BY <1>7, EndStep DEF SkipReplaced
<1>8. CASE MarkOffline
  BY <1>8, EndStep DEF MarkOffline
<1>9. ASSUME NEW s \in Spaces, TellSpace(s)
      PROVE  Registry!Next
  BY <1>9, EndStep DEF TellSpace
<1>10. CASE EndTell
  BY <1>10, EndStep DEF EndTell
<1>11. CASE MapRace
  BY <1>11, DieStep DEF MapRace
<1>12. CASE HubReturns
  BY <1>12, EndStep DEF HubReturns
<1>. QED  BY <1>1, <1>2, <1>3, <1>4, <1>5, <1>6, <1>7, <1>8, <1>9, <1>10,
             <1>11, <1>12 DEF HubStep

LEMMA StopRefines ==
    ASSUME IInv, TypeOK', StopStep
    PROVE  Registry!Next
<1> USE DEF maps, links, pcs, sends, IInv, TypeOK, Attached, Ended
<1>1. CASE StopSignal
  BY <1>1, EndStep DEF StopSignal
<1>2. CASE StopLock
  BY <1>2, EndStep DEF StopLock
<1>3. ASSUME NEW u \in Users, StopClose(u)
      PROVE  Registry!Next
  BY <1>3, EndStep DEF StopClose, StartClose
<1>4. CASE StopClear
  <2>1. Registry!Clear({}, {})
    BY <1>4 DEF StopClear, Registry!Clear
  <2>. QED  BY <2>1 DEF Registry!Next
<1>. QED  BY <1>1, <1>2, <1>3, <1>4 DEF StopStep

\* Refinement: through the mapping of Registry, every behaviour of the hub is a
\* behaviour of the session registry.
THEOREM HubRefinesRegistry == Spec => Refines
<1>1. Init => Registry!Init
  BY DEF Init, Registry!Init, Attached, Ended
<1>2. IInv /\ TypeOK' /\ [Next]_vars => [Registry!Next]_(Registry!vars)
  <2> SUFFICES ASSUME IInv, TypeOK', [Next]_vars
               PROVE  Registry!Next \/ UNCHANGED Registry!vars
    OBVIOUS
  <2>1. ASSUME NEW c \in Conns, FinishClose(c)
        PROVE  Registry!Next
    BY <2>1, EndStep DEF FinishClose, maps, pcs, Attached, Ended
  <2>2. ASSUME NEW b \in Publishers, NEW s \in Spaces, Publish(b, s)
        PROVE  Registry!Next
    BY <2>2, EndStep DEF Publish, maps, links, pcs, Attached, Ended
  <2>3. ASSUME Exit
        PROVE  Registry!Next
    BY <2>3, DieStep DEF Exit
  <2>4. ASSUME Restart
        PROVE  Registry!Next
    BY <2>4, EndStep DEF Restart, maps, links, pcs, Attached, Ended
  <2>5. ASSUME UNCHANGED vars
        PROVE  UNCHANGED Registry!vars
    BY <2>5 DEF vars, Registry!vars, Attached, Ended
  <2>. QED  BY <2>1, <2>2, <2>3, <2>4, <2>5, SendingRefines, ReaderRefines,
               WriterRefines, HubRefines, StopRefines DEF Next
<1>3. IInv => TypeOK
  BY DEF IInv
<1>. QED  BY <1>1, <1>2, <1>3, Invariance, PTL DEF Spec, Refines, Registry!Spec
--------------------------------------------------------------------------------
\* What NoSilentGhost rests on beside IInv: SendAuthSuccess sends to the reader's
\* own connection, a reader returns only when its connection is closed, and one
\* that has been taken from Unregister is closed, in the loop's hands or out of
\* the map for good.
GhostOK ==
    \A c \in Conns :
        /\ rpc[c] = "start" => target[Reader(c)] \in {c, NoConn}
        /\ rpc[c] = "done" => closed[c]
        /\ rpc[c] = "close" => \/ closed[c]
                               \/ hpc = "unregister" /\ job.conn = c
                               \/ /\ connections[UserOf[c]] # c
                                  /\ hpc \in {"register", "swap"} => job.conn # c

\* Whoever ends a close only raises the flag.
LEMMA CloseRaises ==
    ASSUME TypeOK, NEW p, NEW c \in Conns, StartClose(p, c)
    PROVE  closed'[c] /\ \A d \in Conns : closed[d] => closed'[d]
  BY DEF StartClose, TypeOK

LEMMA DieGhost ==
    ASSUME Die
    PROVE  GhostOK'
  BY DEF Die, GhostOK

\* Steps that leave the map, the loop and the readers alone, and close or send.
LEMMA GhostFrame ==
    ASSUME GhostOK, UNCHANGED <<connections, hpc, job, rpc>>,
           \A d \in Conns : closed[d] => closed'[d],
           \A d \in Conns : rpc[d] = "start" => target'[Reader(d)] \in {target[Reader(d)], NoConn}
    PROVE  GhostOK'
  BY DEF GhostOK

LEMMA SendingGhost ==
    ASSUME IInv, GhostOK, NEW p \in Procs, Sending(p)
    PROVE  GhostOK'
<1> USE DEF maps, links, pcs, sends, IInv
<1>1. CASE PickTarget(p)
  <2>1. \A d \in Conns : rpc[d] = "start" => p # Reader(d)
    BY <1>1 DEF PickTarget, SenderOK
  <2>2. \A d \in Conns : rpc[d] = "start" => target'[Reader(d)] = target[Reader(d)]
    BY <1>1, <2>1, DistinctProcs DEF PickTarget, TypeOK
  <2>. QED  BY <1>1, <2>2, GhostFrame DEF PickTarget
<1>2. CASE Enqueue(p)
  BY <1>2, DistinctProcs, GhostFrame DEF Enqueue, TypeOK
<1>3. CASE Overflow(p)
  <2>1. \A d \in Conns : closed[d] => closed'[d]
    BY <1>3, CloseRaises DEF Overflow
  <2>2. \A d \in Conns : target'[Reader(d)] \in {target[Reader(d)], NoConn}
    BY <1>3, DistinctProcs DEF Overflow, TypeOK
  <2>. QED  BY <1>3, <2>1, <2>2, GhostFrame DEF Overflow
<1>4. CASE PanicRecovered(p)
  <2>1. PICK x \in Conns : target[p] = x /\ sendClosed[x]
    BY <1>4 DEF PanicRecovered
  <2>2. /\ UNCHANGED <<connections, closed, hpc, job>>
        /\ \A d \in Conns : target'[Reader(d)] \in {target[Reader(d)], NoConn}
    BY <1>4, DistinctProcs DEF PanicRecovered, TypeOK
  <2>3. \A d \in Conns : p # Reader(d) => rpc'[d] = rpc[d]
    BY <1>4 DEF PanicRecovered
  <2>4. \A d \in Conns : p = Reader(d) => \/ rpc[d] = "start" /\ rpc'[d] = "done" /\ closed[d]
                                          \/ rpc[d] = "run" /\ rpc'[d] = "unregister"
    <3>1. \A d \in Conns : p = Reader(d) => rpc[d] \in {"start", "run"}
      BY <2>1, HubAssumption DEF SenderOK
    <3>2. \A d \in Conns : p = Reader(d) /\ rpc[d] = "start" => closed[d]
      BY <2>1, HubAssumption DEF GhostOK, CloseOK
    <3>. QED  BY <1>4, <3>1, <3>2 DEF PanicRecovered
  <2>. QED  BY <2>2, <2>3, <2>4 DEF GhostOK
<1>5. CASE PanicFatal(p)
  BY <1>5, DieGhost DEF PanicFatal
<1>. QED  BY <1>1, <1>2, <1>3, <1>4, <1>5 DEF Sending

LEMMA ReaderGhost ==
    ASSUME IInv, GhostOK, NEW c \in Conns, ReaderStep(c)
    PROVE  GhostOK'
<1> USE DistinctProcs DEF maps, links, pcs, sends, IInv, TypeOK
<1>1. CASE Upgrade(c)
  BY <1>1 DEF Upgrade, GhostOK
<1>2. CASE SendAuthSuccess(c)
  BY <1>2 DEF SendAuthSuccess, StartSend, GhostOK, SenderOK, Reader
<1>3. CASE StartPumps(c)
  BY <1>3 DEF StartPumps, GhostOK
<1>4. CASE AnnounceOnline(c)
  BY <1>4 DEF AnnounceOnline, StartBroadcast, GhostOK
<1>5. CASE ReadError(c)
  BY <1>5 DEF ReadError, GhostOK
<1>6. CASE CloseAfterRead(c)
  <2>1. closed'[c] /\ \A d \in Conns : closed[d] => closed'[d]
    BY <1>6, CloseRaises DEF CloseAfterRead
  <2>. QED  BY <1>6, <2>1 DEF CloseAfterRead, GhostOK
<1>7. ASSUME NEW s \in Spaces, SubscribeToSpace(c, s)
      PROVE  GhostOK'
  BY <1>7 DEF SubscribeToSpace, GhostOK
<1>8. ASSUME NEW s \in Spaces, UnsubscribeFromSpace(c, s)
      PROVE  GhostOK'
  BY <1>8 DEF UnsubscribeFromSpace, GhostOK
<1>9. ASSUME NEW s \in Spaces, AnnounceTyping(c, s)
      PROVE  GhostOK'
  BY <1>9 DEF AnnounceTyping, StartBroadcast, GhostOK
<1>. QED  BY <1>1, <1>2, <1>3, <1>4, <1>5, <1>6, <1>7, <1>8, <1>9 DEF ReaderStep

LEMMA WriterGhost ==
    ASSUME IInv, GhostOK, NEW c \in Conns, WriterStep(c)
    PROVE  GhostOK'
<1> USE DEF maps, links, pcs, sends, IInv
<1>1. CASE WriteMessage(c)
  <2>1. \A d \in Conns : closed[d] => closed'[d]
    BY <1>1, CloseRaises DEF WriteMessage
  <2>. QED  BY <1>1, <2>1, GhostFrame DEF WriteMessage
<1>2. CASE WritePumpEnds(c)
  BY <1>2, GhostFrame DEF WritePumpEnds
<1>3. CASE Ping(c)
  <2>1. \A d \in Conns : closed[d] => closed'[d]
    BY <1>3, CloseRaises DEF Ping
  <2>2. \A d \in Conns : Reader(d) # Writer(c)
    BY DEF Reader, Writer
  <2>3. \A d \in Conns : target'[Reader(d)] = target[Reader(d)]
    BY <1>3, <2>2, DistinctProcs DEF Ping, StartSend, TypeOK
  <2>. QED  BY <1>3, <2>1, <2>3, GhostFrame DEF Ping
<1>. QED  BY <1>1, <1>2, <1>3 DEF WriterStep

\* The loop's steps: it alone moves connections in and out of the map, and the
\* one it holds while it unregisters is the one whose reader waits to close it.
LEMMA HubGhost ==
    ASSUME IInv, GhostOK, HubStep
    PROVE  GhostOK'
<1> USE HubAssumption, DistinctProcs
    DEF IInv, TypeOK, maps, links, pcs, sends
<1>1. ASSUME NEW c \in Conns, TakeRegister(c)
      PROVE  GhostOK'
  BY <1>1 DEF TakeRegister, NoJob, GhostOK
<1>2. ASSUME NEW c \in Conns, TakeUnregister(c)
      PROVE  GhostOK'
  BY <1>2 DEF TakeUnregister, NoJob, GhostOK
<1>3. CASE ReplaceExisting
  <2>1. connections[UserOf[job.conn]] \in Conns \cup {NoConn}
    BY <1>3 DEF ReplaceExisting, JobOK
  <2>2. \A d \in Conns : closed[d] => closed'[d]
    BY <1>3, <2>1, CloseRaises DEF ReplaceExisting
  <2>. QED  BY <1>3, <2>2 DEF ReplaceExisting, GhostOK
<1>4. CASE InstallConnection
  BY <1>4 DEF InstallConnection, GhostOK, JobOK
<1>5. CASE MarkOnline
  BY <1>5 DEF MarkOnline, GhostOK
<1>6. CASE RemoveConnection
  BY <1>6 DEF RemoveConnection, GhostOK, JobOK
<1>7. CASE SkipReplaced
  BY <1>7 DEF SkipReplaced, GhostOK, JobOK
<1>8. CASE MarkOffline
  BY <1>8 DEF MarkOffline, GhostOK
<1>9. ASSUME NEW s \in Spaces, TellSpace(s)
      PROVE  GhostOK'
  BY <1>9 DEF TellSpace, StartBroadcast, GhostOK
<1>10. CASE EndTell
  BY <1>10 DEF EndTell, GhostOK
<1>11. CASE MapRace
  BY <1>11, DieGhost DEF MapRace
<1>12. CASE HubReturns
  BY <1>12 DEF HubReturns, GhostOK
<1>. QED  BY <1>1, <1>2, <1>3, <1>4, <1>5, <1>6, <1>7, <1>8, <1>9, <1>10,
             <1>11, <1>12 DEF HubStep

LEMMA StopGhost ==
    ASSUME IInv, GhostOK, StopStep
    PROVE  GhostOK'
<1> USE DEF maps, links, pcs, sends, IInv
<1>1. CASE StopSignal
  BY <1>1, GhostFrame DEF StopSignal
<1>2. CASE StopLock
  BY <1>2, GhostFrame DEF StopLock
<1>3. ASSUME NEW u \in Users, StopClose(u)
      PROVE  GhostOK'
  <2>1. connections[u] \in Conns
    BY <1>3 DEF StopClose, TypeOK
  <2>2. \A d \in Conns : closed[d] => closed'[d]
    BY <1>3, <2>1, CloseRaises DEF StopClose
  <2>. QED  BY <1>3, <2>2, GhostFrame DEF StopClose
<1>4. CASE StopClear
  BY <1>4, HubAssumption DEF StopClear, GhostOK
<1>. QED  BY <1>1, <1>2, <1>3, <1>4 DEF StopStep

LEMMA GhostNext ==
    ASSUME IInv, GhostOK, [Next]_vars
    PROVE  GhostOK'
<1>1. ASSUME NEW c \in Conns, FinishClose(c)
      PROVE  GhostOK'
  BY <1>1, GhostFrame DEF FinishClose, maps, pcs, sends
<1>2. ASSUME NEW b \in Publishers, NEW s \in Spaces, Publish(b, s)
      PROVE  GhostOK'
  BY <1>2, GhostFrame DEF Publish, StartBroadcast, maps, links, pcs
<1>3. ASSUME Exit PROVE GhostOK'
  BY <1>3, DieGhost DEF Exit
<1>4. ASSUME Restart PROVE GhostOK'
  BY <1>4, GhostFrame DEF Restart, maps, links, pcs, sends
<1>5. ASSUME UNCHANGED vars PROVE GhostOK'
  BY <1>5, GhostFrame DEF vars
<1>. QED  BY <1>1, <1>2, <1>3, <1>4, <1>5, SendingGhost, ReaderGhost, WriterGhost,
             HubGhost, StopGhost DEF Next

\* Between two turns of the loop no connection stays in the map that nobody
\* reads and nobody has closed, whatever fails, overlaps or restarts.
THEOREM NoSilentGhostHolds == Spec => []NoSilentGhost
<1>1. Init => GhostOK
  BY DEF Init, GhostOK
<1>2. IInv /\ GhostOK /\ [Next]_vars => GhostOK'
  BY GhostNext
<1>3. IInv /\ GhostOK => NoSilentGhost
  <2> SUFFICES ASSUME IInv, GhostOK, hpc = "select",
                      NEW u \in Users, connections[u] # NoConn,
                      rpc[connections[u]] \in {"close", "done"}
               PROVE  closed[connections[u]]
    BY DEF NoSilentGhost
  <2>1. connections[u] \in Conns /\ UserOf[connections[u]] = u
    BY DEF IInv, TypeOK, MapOK
  <2>. QED  BY <2>1 DEF GhostOK
<1>. QED  BY <1>1, <1>2, <1>3, Invariance, PTL DEF Spec

--------------------------------------------------------------------------------
\* What HolderGoesOn rests on beside IInv: the loop sends only while it tells of a
\* user who left, Stop never does, and the lock dies with the process.
HolderOK ==
    /\ mu # NoProc => alive
    /\ casting[HubLoop] # {} \/ target[HubLoop] # NoConn => hpc = "tell"
    /\ casting[Stopper] = {} /\ target[Stopper] = NoConn

\* Steps of others leave what the loop and Stop are sending alone.
LEMMA HolderFrame ==
    ASSUME HolderOK, UNCHANGED <<mu, hpc>>, alive => alive',
           \A p \in {HubLoop, Stopper} : casting'[p] = casting[p] /\ target'[p] = target[p]
    PROVE  HolderOK'
  BY DEF HolderOK

LEMMA DieHolder ==
    ASSUME Die
    PROVE  HolderOK'
  BY DistinctProcs DEF Die, HolderOK

LEMMA SendingHolder ==
    ASSUME IInv, HolderOK, NEW p \in Procs, Sending(p)
    PROVE  HolderOK'
<1> USE DistinctProcs DEF maps, links, pcs, IInv, TypeOK
<1>1. CASE PickTarget(p)
  BY <1>1 DEF PickTarget, HolderOK
<1>2. CASE Enqueue(p)
  BY <1>2 DEF Enqueue, HolderOK
<1>3. CASE Overflow(p)
  BY <1>3 DEF Overflow, HolderOK
<1>4. CASE PanicRecovered(p)
  BY <1>4 DEF PanicRecovered, HolderOK
<1>5. CASE PanicFatal(p)
  BY <1>5, DieHolder DEF PanicFatal
<1>. QED  BY <1>1, <1>2, <1>3, <1>4, <1>5 DEF Sending

LEMMA ReaderHolder ==
    ASSUME IInv, HolderOK, NEW c \in Conns, ReaderStep(c)
    PROVE  HolderOK'
<1> USE DistinctProcs DEF maps, links, pcs, sends, IInv, TypeOK
<1>1. CASE SendAuthSuccess(c)
  BY <1>1, HolderFrame DEF SendAuthSuccess, StartSend
<1>2. CASE AnnounceOnline(c)
  BY <1>2, HolderFrame DEF AnnounceOnline, StartBroadcast
<1>3. ASSUME NEW s \in Spaces, AnnounceTyping(c, s)
      PROVE  HolderOK'
  BY <1>3, HolderFrame DEF AnnounceTyping, StartBroadcast
<1>4. CASE Upgrade(c) \/ StartPumps(c) \/ ReadError(c) \/ CloseAfterRead(c)
  BY <1>4, HolderFrame DEF Upgrade, StartPumps, ReadError, CloseAfterRead
<1>5. ASSUME NEW s \in Spaces, SubscribeToSpace(c, s) \/ UnsubscribeFromSpace(c, s)
      PROVE  HolderOK'
  BY <1>5, HolderFrame DEF SubscribeToSpace, UnsubscribeFromSpace
<1>. QED  BY <1>1, <1>2, <1>3, <1>4, <1>5 DEF ReaderStep

LEMMA HubHolder ==
    ASSUME IInv, HolderOK, HubStep
    PROVE  HolderOK'
<1> USE DistinctProcs DEF maps, links, pcs, sends, IInv, TypeOK
<1>1. CASE \E s \in Spaces : TellSpace(s)
  BY <1>1 DEF TellSpace, StartBroadcast, HolderOK
<1>2. CASE EndTell
  BY <1>2 DEF EndTell, Idle, HolderOK
<1>3. CASE MapRace
  BY <1>3, DieHolder DEF MapRace
<1>4. CASE \E c \in Conns : TakeRegister(c) \/ TakeUnregister(c)
  BY <1>4 DEF TakeRegister, TakeUnregister, HolderOK
<1>5. CASE ReplaceExisting \/ InstallConnection \/ MarkOnline \/ RemoveConnection \/ SkipReplaced
  BY <1>5 DEF ReplaceExisting, InstallConnection, MarkOnline, RemoveConnection, SkipReplaced,
              HolderOK
<1>6. CASE MarkOffline \/ HubReturns
  BY <1>6 DEF MarkOffline, HubReturns, HolderOK
<1>. QED  BY <1>1, <1>2, <1>3, <1>4, <1>5, <1>6 DEF HubStep

LEMMA HolderNext ==
    ASSUME IInv, HolderOK, [Next]_vars
    PROVE  HolderOK'
<1> USE DistinctProcs DEF maps, links, pcs, sends, IInv, TypeOK
<1>1. ASSUME NEW c \in Conns, WriterStep(c)
      PROVE  HolderOK'
  <2>1. Writer(c) \notin {HubLoop, Stopper}
    BY DEF Writer, HubLoop, Stopper
  <2>2. CASE WriteMessage(c) \/ WritePumpEnds(c)
    BY <2>2, HolderFrame DEF WriteMessage, WritePumpEnds
  <2>3. CASE Ping(c)
    BY <2>1, <2>3, HolderFrame DEF Ping, StartSend
  <2>. QED  BY <1>1, <2>2, <2>3 DEF WriterStep
<1>2. ASSUME NEW c \in Conns, FinishClose(c)
      PROVE  HolderOK'
  BY <1>2, HolderFrame DEF FinishClose
<1>3. ASSUME NEW b \in Publishers, NEW s \in Spaces, Publish(b, s)
      PROVE  HolderOK'
  <2>1. Publisher(b) \notin {HubLoop, Stopper}
    BY DEF Publisher, HubLoop, Stopper
  <2>. QED  BY <1>3, <2>1, HolderFrame DEF Publish, StartBroadcast
<1>4. CASE StopStep
  BY <1>4 DEF StopStep, StopSignal, StopLock, StopClose, StopClear, HolderOK
<1>5. CASE Exit
  BY <1>5, DieHolder DEF Exit
<1>6. CASE Restart
  BY <1>6, HolderFrame DEF Restart
<1>7. CASE UNCHANGED vars
  BY <1>7, HolderFrame DEF vars
<1>. QED  BY <1>1, <1>2, <1>3, <1>4, <1>5, <1>6, <1>7, SendingHolder, ReaderHolder,
             HubHolder DEF Next

\* Whatever overlaps with the holder of h.mu, it can take its next step, and the
\* types hold.
THEOREM InvHolds == Spec => []Inv
<1>1. Init => HolderOK
  BY DistinctProcs DEF Init, HolderOK
<1>2. IInv /\ HolderOK /\ [Next]_vars => HolderOK'
  BY HolderNext
<1>3. IInv /\ HolderOK => Inv
  BY DEF IInv, LockOK, HolderOK, HolderGoesOn, Idle, Inv
<1>. QED  BY <1>1, <1>2, <1>3, Invariance, PTL DEF Spec

--------------------------------------------------------------------------------
\* The presence in the database against the map, in a process whose presence
\* writes succeed and that is neither stopped nor restarted.  Only between a
\* change of the map and the write that follows it do they differ, and then for
\* the loop's own user alone.
Settling(u) == hpc \in {"online", "offline"} /\ u = UserOf[job.conn]
PresenceOK ==
    alive =>
        /\ spc = "none"
        /\ hpc = "online" => connections[UserOf[job.conn]] # NoConn
        /\ hpc = "offline" => connections[UserOf[job.conn]] = NoConn
        /\ \A u \in Users :
             Settling(u) \/ (presence[u] = "online" <=> connections[u] # NoConn)

\* Steps that touch neither the map nor the loop do not touch presence either.
LEMMA PresenceFrame ==
    ASSUME PresenceOK, UNCHANGED <<connections, presence, hpc, job, spc>>, alive' => alive
    PROVE  PresenceOK'
  BY DEF PresenceOK, Settling

LEMMA HubPresence ==
    ASSUME "db" \notin Faults, IInv, PresenceOK, HubStep
    PROVE  PresenceOK'
<1> USE HubAssumption DEF IInv, TypeOK, maps, links, pcs, sends, PresenceOK, Settling
<1>1. ASSUME NEW c \in Conns, TakeRegister(c)
      PROVE  PresenceOK'
  BY <1>1 DEF TakeRegister, NoJob
<1>2. ASSUME NEW c \in Conns, TakeUnregister(c)
      PROVE  PresenceOK'
  BY <1>2 DEF TakeUnregister, NoJob
<1>3. CASE ReplaceExisting
  BY <1>3 DEF ReplaceExisting
<1>4. CASE InstallConnection
  BY <1>4 DEF InstallConnection, JobOK
<1>5. CASE MarkOnline
  BY <1>5 DEF MarkOnline, UpdateUserPresence, JobOK
<1>6. CASE RemoveConnection
  BY <1>6 DEF RemoveConnection, JobOK
<1>7. CASE SkipReplaced
  BY <1>7 DEF SkipReplaced
<1>8. CASE MarkOffline
  BY <1>8 DEF MarkOffline, UpdateUserPresence, JobOK
<1>9. ASSUME NEW s \in Spaces, TellSpace(s)
      PROVE  PresenceOK'
  BY <1>9 DEF TellSpace
<1>10. CASE EndTell
  BY <1>10 DEF EndTell
<1>11. CASE MapRace
  BY <1>11 DEF MapRace, Die
<1>12. CASE HubReturns
  BY <1>12 DEF HubReturns
<1>. QED  BY <1>1, <1>2, <1>3, <1>4, <1>5, <1>6, <1>7, <1>8, <1>9, <1>10,
             <1>11, <1>12 DEF HubStep

LEMMA PresenceNext ==
    ASSUME Faults \cap {"db", "stop", "restart"} = {}, IInv, PresenceOK, [Next]_vars
    PROVE  PresenceOK'
<1> USE DEF maps, links, pcs, sends
<1>1. ASSUME NEW c \in Conns, ReaderStep(c)
      PROVE  PresenceOK'
  BY <1>1, PresenceFrame DEF ReaderStep, Upgrade, SendAuthSuccess, StartPumps, AnnounceOnline,
     ReadError, CloseAfterRead, SubscribeToSpace, UnsubscribeFromSpace, AnnounceTyping
<1>2. ASSUME NEW c \in Conns, WriterStep(c) \/ FinishClose(c)
      PROVE  PresenceOK'
  BY <1>2, PresenceFrame DEF WriterStep, WriteMessage, WritePumpEnds, Ping, FinishClose
<1>3. ASSUME NEW b \in Publishers, NEW s \in Spaces, Publish(b, s)
      PROVE  PresenceOK'
  BY <1>3, PresenceFrame DEF Publish
<1>4. ASSUME NEW p \in Procs, Sending(p)
      PROVE  PresenceOK'
  <2>1. CASE PanicFatal(p)
    BY <2>1 DEF PanicFatal, Die, PresenceOK
  <2>2. CASE PickTarget(p) \/ Enqueue(p) \/ Overflow(p) \/ PanicRecovered(p)
    BY <2>2, PresenceFrame DEF PickTarget, Enqueue, Overflow, PanicRecovered
  <2>. QED  BY <1>4, <2>1, <2>2 DEF Sending
<1>5. CASE HubStep
  BY <1>5, HubPresence
<1>6. CASE StopStep
  <2>1. alive /\ spc = "none"
    BY <1>6 DEF StopStep, StopSignal, StopLock, StopClose, StopClear, PresenceOK
  <2>. QED  BY <1>6, <2>1 DEF StopStep, StopSignal, StopLock, StopClose, StopClear
<1>7. CASE Exit
  BY <1>7 DEF Exit, Die, PresenceOK
<1>8. CASE Restart
  BY <1>8 DEF Restart
<1>9. CASE UNCHANGED vars
  BY <1>9, PresenceFrame DEF vars
<1>. QED  BY <1>1, <1>2, <1>3, <1>4, <1>5, <1>6, <1>7, <1>8, <1>9 DEF Next

\* Where presence writes succeed and the process is neither stopped nor
\* restarted (a kill and the loop's own crash allowed), the database shows
\* exactly the connected users online whenever the loop has nothing in hand.
THEOREM PresenceAgreesHolds ==
    ASSUME Faults \cap {"db", "stop", "restart"} = {}
    PROVE  Spec => []PresenceAgrees
<1>1. Init => PresenceOK
  BY DEF Init, PresenceOK
<1>2. IInv /\ PresenceOK /\ [Next]_vars => PresenceOK'
  BY PresenceNext
<1>3. PresenceOK => PresenceAgrees
  BY DEF PresenceOK, Settling, PresenceAgrees, ConnectedShownOnline, OnlineIsConnected
<1>. QED  BY <1>1, <1>2, <1>3, Invariance, PTL DEF Spec

--------------------------------------------------------------------------------
\* Half of it needs less: whoever is in the map is shown online, or is the user
\* the loop is about to mark so, also while the process stops and restarts.
ShownOK ==
    /\ \A u \in Users : connections[u] # NoConn =>
           presence[u] = "online" \/ (hpc = "online" /\ u = UserOf[job.conn])
    /\ hpc = "offline" => connections[UserOf[job.conn]] = NoConn

LEMMA ShownFrame ==
    ASSUME ShownOK, UNCHANGED <<presence, hpc, job>>,
           \A u \in Users : connections'[u] \in {connections[u], NoConn},
           hpc = "offline" => UNCHANGED connections
    PROVE  ShownOK'
  BY DEF ShownOK

LEMMA DieShown ==
    ASSUME Die
    PROVE  ShownOK'
  BY DEF Die, ShownOK

LEMMA HubShown ==
    ASSUME "db" \notin Faults, IInv, ShownOK, HubStep
    PROVE  ShownOK'
<1> USE HubAssumption DEF IInv, TypeOK, maps, links, pcs, sends, ShownOK
<1>1. ASSUME NEW c \in Conns, TakeRegister(c)
      PROVE  ShownOK'
  BY <1>1 DEF TakeRegister, NoJob
<1>2. ASSUME NEW c \in Conns, TakeUnregister(c)
      PROVE  ShownOK'
  BY <1>2 DEF TakeUnregister, NoJob
<1>3. CASE ReplaceExisting
  BY <1>3 DEF ReplaceExisting
<1>4. CASE InstallConnection
  BY <1>4 DEF InstallConnection, JobOK
<1>5. CASE MarkOnline
  BY <1>5 DEF MarkOnline, UpdateUserPresence, JobOK
<1>6. CASE RemoveConnection
  BY <1>6 DEF RemoveConnection, JobOK
<1>7. CASE SkipReplaced
  BY <1>7 DEF SkipReplaced
<1>8. CASE MarkOffline
  BY <1>8 DEF MarkOffline, UpdateUserPresence, JobOK
<1>9. ASSUME NEW s \in Spaces, TellSpace(s)
      PROVE  ShownOK'
  BY <1>9 DEF TellSpace
<1>10. CASE EndTell
  BY <1>10 DEF EndTell
<1>11. CASE MapRace
  BY <1>11, DieShown DEF MapRace
<1>12. CASE HubReturns
  BY <1>12 DEF HubReturns
<1>. QED  BY <1>1, <1>2, <1>3, <1>4, <1>5, <1>6, <1>7, <1>8, <1>9, <1>10,
             <1>11, <1>12 DEF HubStep

LEMMA ShownNext ==
    ASSUME "db" \notin Faults, IInv, ShownOK, [Next]_vars
    PROVE  ShownOK'
<1> USE DEF maps, links, pcs, sends
<1>1. ASSUME NEW c \in Conns, ReaderStep(c)
      PROVE  ShownOK'
  BY <1>1, ShownFrame DEF ReaderStep, Upgrade, SendAuthSuccess, StartPumps, AnnounceOnline,
     ReadError, CloseAfterRead, SubscribeToSpace, UnsubscribeFromSpace, AnnounceTyping
<1>2. ASSUME NEW c \in Conns, WriterStep(c) \/ FinishClose(c)
      PROVE  ShownOK'
  BY <1>2, ShownFrame DEF WriterStep, WriteMessage, WritePumpEnds, Ping, FinishClose
<1>3. ASSUME NEW b \in Publishers, NEW s \in Spaces, Publish(b, s)
      PROVE  ShownOK'
  BY <1>3, ShownFrame DEF Publish
<1>4. ASSUME NEW p \in Procs, Sending(p)
      PROVE  ShownOK'
  <2>1. CASE PanicFatal(p)
    BY <2>1, DieShown DEF PanicFatal
  <2>2. CASE PickTarget(p) \/ Enqueue(p) \/ Overflow(p) \/ PanicRecovered(p)
    BY <2>2, ShownFrame DEF PickTarget, Enqueue, Overflow, PanicRecovered
  <2>. QED  BY <1>4, <2>1, <2>2 DEF Sending
<1>5. CASE HubStep
  BY <1>5, HubShown
<1>6. CASE StopStep
  <2>1. CASE StopClear
    BY <2>1, HubAssumption DEF StopClear, ShownOK, IInv, TypeOK, JobOK
  <2>2. CASE StopSignal \/ StopLock \/ \E u \in Users : StopClose(u)
    BY <2>2, ShownFrame DEF StopSignal, StopLock, StopClose
  <2>. QED  BY <1>6, <2>1, <2>2 DEF StopStep
<1>7. CASE Exit
  BY <1>7, DieShown DEF Exit
<1>8. CASE Restart
  BY <1>8, ShownFrame DEF Restart
<1>9. CASE UNCHANGED vars
  BY <1>9, ShownFrame DEF vars
<1>. QED  BY <1>1, <1>2, <1>3, <1>4, <1>5, <1>6, <1>7, <1>8, <1>9 DEF Next

\* Where presence writes succeed nobody who is connected is shown offline once the
\* loop has nothing in hand, whatever stops, kills and restarts there are: the
\* unregistration of a replaced connection takes nothing from its successor.
THEOREM ConnectedShownOnlineHolds ==
    ASSUME "db" \notin Faults
    PROVE  Spec => []ConnectedShownOnline
<1>1. Init => ShownOK
  BY DEF Init, ShownOK
<1>2. IInv /\ ShownOK /\ [Next]_vars => ShownOK'
  BY ShownNext
<1>3. ShownOK => ConnectedShownOnline
  BY DEF ShownOK, ConnectedShownOnline
<1>. QED  BY <1>1, <1>2, <1>3, Invariance, PTL DEF Spec

--------------------------------------------------------------------------------
(***************************************************************************)
(* The typing indicators, which share the hub's process but none of the    *)
(* state above.                                                            *)
(***************************************************************************)

\* Beside what is shown, a start on its way belongs to an entry that is not stale
\* yet, or it is late.
StartTracked ==
    \A u \in Typists : reader[u] = "start" => typing[u] <= Expiry \/ u \in late

LEMMA TypingKeeps ==
    ASSUME TypingTypes, ShownIsTracked, StartTracked,
           [TypingNext]_typingVars
    PROVE  /\ TypingTypes'
           /\ ShownIsTracked'
           /\ StartTracked'
<1> USE TypingAssumption DEF TypingTypes, ShownIsTracked, StartTracked,
                             Absent, Stale
<1>1. ASSUME NEW u \in Typists, SetTyping(u)
      PROVE  /\ TypingTypes' /\ ShownIsTracked' /\ StartTracked'
  BY <1>1 DEF SetTyping
<1>2. ASSUME NEW u \in Typists, BroadcastStart(u)
      PROVE  /\ TypingTypes' /\ ShownIsTracked' /\ StartTracked'
  BY <1>2 DEF BroadcastStart
<1>3. ASSUME NEW u \in Typists, BroadcastTypingStop(u)
      PROVE  /\ TypingTypes' /\ ShownIsTracked' /\ StartTracked'
  BY <1>3 DEF BroadcastTypingStop
<1>4. CASE Tick
  BY <1>4 DEF Tick
<1>5. CASE CleanupTyping
  BY <1>5 DEF CleanupTyping
<1>6. CASE UNCHANGED typingVars
  BY <1>6 DEF typingVars
<1>. QED  BY <1>1, <1>2, <1>3, <1>4, <1>5, <1>6 DEF TypingNext

\* What the observer is shown is an entry the hub still has, a stop on its way, or
\* the trace of a broadcast that was late or lost.
THEOREM TypingInvHolds == TypingSpec => []TypingInv
<1>1. TypingInit => TypingTypes /\ ShownIsTracked /\ StartTracked
  BY TypingAssumption DEF TypingInit, TypingTypes, ShownIsTracked, StartTracked, Absent
<1>2. /\ TypingTypes /\ ShownIsTracked /\ StartTracked
      /\ [TypingNext]_typingVars
      => (TypingTypes /\ ShownIsTracked /\ StartTracked)'
  BY TypingKeeps
<1>3. TypingTypes /\ ShownIsTracked => TypingInv
  BY DEF TypingInv
<1>. QED  BY <1>1, <1>2, <1>3, PTL DEF TypingSpec
================================================================================
