------------------------ MODULE ServerLifecycleProofs ------------------------
(***************************************************************************)
(* For any number of sessions and subjects, and whatever fails or restarts:*)
(* the types, the bookkeeping of conns, and indexes before messages.       *)
(***************************************************************************)
EXTENDS ServerLifecycle, TLAPS

\* An entry of conns is one of a session in "/", or is about to be cleaned up. So
\* a Close that does not call OnDisconnect has nothing to clean up.
EntriesHaveOwner ==
  \A s \in conns : s \in joined \/ reader[s] = "disconnecting"

SocketInv == SocketTypeOK /\ EntriesHaveOwner /\ ClosedAreForgotten

\* The indexes runServer has been through.
Passed(i) ==
  main \in {"work", "waiting"}
    \/ (i = "tracks_tid_idx" /\ main \in {"create_history", "await_history"})

\* An index is not left before it is built, unless it was found half built, and
\* then a process that ended has left it so.
BuildersInv ==
  \A i \in Indexes :
    /\ Passed(i) => index[i] = "ready" \/ i \in interrupted
    /\ index[i] = "building" => i \in interrupted \/ main = Awaiting[i]

SubscribersInv == subscribing \cup subscribed # {} => main = "waiting"

ServerIInv == SocketInv /\ ServerTypeOK /\ BuildersInv /\ SubscribersInv

-----------------------------------------------------------------------------
(* The connections *)

\* A step of a session of its own: the others are not touched.
LEMMA SocketStepInvariant ==
  ASSUME SocketInv, SocketStep
  PROVE  SocketInv'
<1> USE DEF SocketInv, SocketTypeOK, EntriesHaveOwner, ClosedAreForgotten
<1> SUFFICES ASSUME NEW s \in Sessions,
                    \/ EngineCloses(s) \/ ReadFails(s) \/ WriteFails(s)
                    \/ ConnectPacket(s) \/ JoinNamespace(s) \/ OnConnect(s) \/ OnError(s)
                    \/ DisconnectPacket(s) \/ OnDisconnect(s)
                    \/ Close(s) \/ OnDisconnectAtClose(s)
             PROVE  SocketInv'
  BY DEF SocketStep
<1>1. CASE EngineCloses(s)
  BY <1>1 DEF EngineCloses, ServeTo
<1>2. CASE ReadFails(s)
  BY <1>2 DEF ReadFails, ReaderTo
<1>3. CASE WriteFails(s)
  BY <1>3 DEF WriteFails
<1>4. CASE ConnectPacket(s)
  BY <1>4 DEF ConnectPacket, ReaderTo
<1>5. CASE JoinNamespace(s)
  BY <1>5 DEF JoinNamespace
<1>6. CASE OnConnect(s)
  BY <1>6 DEF OnConnect, ReaderTo
<1>7. CASE OnError(s)
  BY <1>7 DEF OnError, Cleanup
<1>8. CASE DisconnectPacket(s)
  BY <1>8 DEF DisconnectPacket, ReaderTo
<1>9. CASE OnDisconnect(s)
  BY <1>9 DEF OnDisconnect, ReaderTo, Cleanup
<1>10. CASE Close(s)
  BY <1>10 DEF Close, ServeTo
<1>11. CASE OnDisconnectAtClose(s)
  BY <1>11 DEF OnDisconnectAtClose, ServeTo, Cleanup
<1> QED  BY <1>1, <1>2, <1>3, <1>4, <1>5, <1>6, <1>7, <1>8, <1>9, <1>10, <1>11

LEMMA AcceptInvariant ==
  ASSUME SocketInv, NEW s \in Sessions, Accept(s)
  PROVE  SocketInv'
BY DEF SocketInv, SocketTypeOK, EntriesHaveOwner, ClosedAreForgotten, Accept, ServeTo

\* What runServer's own steps do to the sockets: nothing, but for `process`.
LEMMA SocketsUntouched ==
  ASSUME SocketInv, UNCHANGED sessionVars,
         process' \in {"up", "exiting", process}, exit' \in {"none", exit}
  PROVE  SocketInv'
BY DEF SocketInv, SocketTypeOK, EntriesHaveOwner, ClosedAreForgotten, sessionVars

-----------------------------------------------------------------------------
(* The end of a process *)

LEMMA EndInvariant ==
  ASSUME ServerIInv, NEW how \in {"fatal", "signal", "panic"}, End(EndProcess(how))
  PROVE  ServerIInv'
<1> USE DEF End, EndProcess, NoSessions, AtRest
<1>1. SocketTypeOK'
  BY DEF SocketTypeOK
<1>2. EntriesHaveOwner' /\ ClosedAreForgotten'
  BY DEF EntriesHaveOwner, ClosedAreForgotten
<1>3. ServerTypeOK'
  BY <1>1 DEF ServerIInv, ServerTypeOK, Connecting, ErrsCap
<1>4. BuildersInv'
  BY DEF ServerIInv, BuildersInv, Passed
<1>5. SubscribersInv'
  BY DEF SubscribersInv
<1> QED  BY <1>1, <1>2, <1>3, <1>4, <1>5 DEF ServerIInv, SocketInv

LEMMA FaultsEndProcess ==
  ASSUME ServerIInv, StartFails \/ GrpcFails \/ Killed \/ Panics \/ Terminate
  PROVE  ServerIInv'
<1>1. \E how \in {"fatal", "signal", "panic"} : End(EndProcess(how))
  BY DEF StartFails, GrpcFails, Killed, Panics, Terminate, Fatal, DisconnectPanics, End
<1> QED  BY <1>1, EndInvariant

-----------------------------------------------------------------------------
(* MigrateDB *)

LEMMA CreateIndexInvariant ==
  ASSUME ServerIInv, NEW i \in Indexes, CreateIndex(i)
  PROVE  ServerIInv'
<1> USE DEF Indexes, Creating, Awaiting, AfterIndex
<1>1. /\ MainAt(Creating[i])
      /\ UNCHANGED <<socketVars, goVars, errs, natsVars, interrupted>>
  BY DEF CreateIndex
<1>2. SocketInv'
  BY <1>1, SocketsUntouched DEF ServerIInv, socketVars
<1>3. ServerTypeOK'
  BY <1>1, <1>2 DEF ServerIInv, SocketInv, ServerTypeOK, CreateIndex, Connecting, Migrating,
                    goVars, natsVars
<1>4. BuildersInv'
  BY <1>1 DEF ServerIInv, ServerTypeOK, BuildersInv, Passed, CreateIndex, MainAt
<1>5. SubscribersInv'
  BY <1>1 DEF ServerIInv, SubscribersInv, MainAt, natsVars
<1> QED  BY <1>2, <1>3, <1>4, <1>5 DEF ServerIInv

LEMMA AwaitIndexInvariant ==
  ASSUME ServerIInv, NEW i \in Indexes, AwaitIndex(i)
  PROVE  ServerIInv'
<1> USE DEF Indexes, Awaiting, AfterIndex, Creating, AwaitIndex
<1>1. SocketInv'
  BY SocketsUntouched DEF ServerIInv, socketVars
<1>2. ServerTypeOK'
  BY <1>1 DEF ServerIInv, SocketInv, ServerTypeOK, Connecting, Migrating,
              goVars, natsVars, storeVars
<1>3. BuildersInv'
  BY DEF ServerIInv, ServerTypeOK, BuildersInv, Passed, MainAt, storeVars
<1>4. SubscribersInv'
  BY DEF ServerIInv, SubscribersInv, MainAt, natsVars
<1> QED  BY <1>1, <1>2, <1>3, <1>4 DEF ServerIInv

LEMMA IndexIsBuiltInvariant ==
  ASSUME ServerIInv, NEW i \in Indexes, IndexIsBuilt(i)
  PROVE  ServerIInv'
<1>1. SocketInv'
  BY SocketsUntouched DEF ServerIInv, IndexIsBuilt, socketVars
<1>2. ServerTypeOK'
  BY <1>1 DEF ServerIInv, SocketInv, ServerTypeOK, IndexIsBuilt, lifeVars, goVars, natsVars
<1>3. BuildersInv'
  BY DEF ServerIInv, ServerTypeOK, BuildersInv, Passed, IndexIsBuilt, lifeVars
<1>4. SubscribersInv'
  BY DEF ServerIInv, SubscribersInv, IndexIsBuilt, lifeVars, natsVars
<1> QED  BY <1>1, <1>2, <1>3, <1>4 DEF ServerIInv

-----------------------------------------------------------------------------
(* The other steps, which leave the store alone *)

LEMMA MainStepInvariant ==
  ASSUME ServerIInv, LoadConfig \/ ConnectDatabase \/ ConnectNATS \/ StartServers
  PROVE  ServerIInv'
<1> USE DEF LoadConfig, ConnectDatabase, ConnectNATS, StartServers, Creating, Indexes
<1>1. SocketInv'
  BY SocketsUntouched DEF ServerIInv, socketVars
<1>2. ServerTypeOK'
  BY <1>1 DEF ServerIInv, SocketInv, ServerTypeOK, Connecting, Migrating,
              goVars, natsVars, storeVars
<1>3. BuildersInv'
  BY DEF ServerIInv, BuildersInv, Passed, Awaiting, MainAt, storeVars
<1>4. SubscribersInv'
  BY DEF ServerIInv, SubscribersInv, MainAt, natsVars
<1> QED  BY <1>1, <1>2, <1>3, <1>4 DEF ServerIInv

\* The subscriptions begin here: runServer has been through both indexes.
LEMMA WorkInvariant ==
  ASSUME ServerIInv, StartWork \/ TakeError
  PROVE  ServerIInv'
<1> USE DEF StartWork, TakeError
<1>1. SocketInv'
  BY SocketsUntouched DEF ServerIInv, socketVars, sessionVars
<1>2. ServerTypeOK'
  BY <1>1 DEF ServerIInv, SocketInv, ServerTypeOK, Connecting, Migrating, ErrsCap,
              goVars, natsVars, storeVars
<1>3. BuildersInv'
  BY DEF ServerIInv, BuildersInv, Passed, Awaiting, Indexes, MainAt, storeVars
<1>4. SubscribersInv'
  BY DEF ServerIInv, SubscribersInv, MainAt, natsVars
<1> QED  BY <1>1, <1>2, <1>3, <1>4 DEF ServerIInv

LEMMA GoroutineStepInvariant ==
  ASSUME ServerIInv, GoroutineStep \/ HttpFails \/ Interrupt
  PROVE  ServerIInv'
<1> USE DEF GoroutineStep, HttpListens, GrpcListens, NotifySignals, QueueSubscribe,
            HttpFails, Interrupt
<1>1. UNCHANGED <<socketVars, main, storeVars>>
  OBVIOUS
<1>2. SocketInv'
  BY <1>1, SocketsUntouched DEF ServerIInv, socketVars
<1>3. ServerTypeOK'
  BY <1>2 DEF ServerIInv, SocketInv, ServerTypeOK, ErrsCap, goVars, natsVars, storeVars
<1>4. BuildersInv'
  BY <1>1 DEF ServerIInv, BuildersInv, Passed, storeVars
<1>5. SubscribersInv'
  BY DEF ServerIInv, SubscribersInv, natsVars
<1> QED  BY <1>2, <1>3, <1>4, <1>5 DEF ServerIInv

LEMMA NatsStepInvariant ==
  ASSUME ServerIInv, NatsDrops \/ NatsReconnects \/ NatsGivesUp
  PROVE  ServerIInv'
<1> USE DEF NatsDrops, NatsReconnects, NatsGivesUp
<1>1. SocketInv'
  BY SocketsUntouched DEF ServerIInv, socketVars
<1>2. ServerTypeOK'
  BY <1>1 DEF ServerIInv, SocketInv, ServerTypeOK, goVars, storeVars
<1>3. BuildersInv' /\ SubscribersInv'
  BY DEF ServerIInv, BuildersInv, Passed, SubscribersInv, storeVars
<1> QED  BY <1>1, <1>2, <1>3 DEF ServerIInv

\* A step that leaves runServer and the store alone.
LEMMA SocketsInvariant ==
  ASSUME ServerIInv, SocketInv', UNCHANGED <<lifeVars, storeVars>>
  PROVE  ServerIInv'
BY DEF ServerIInv, SocketInv, ServerTypeOK, BuildersInv, Passed, SubscribersInv,
       lifeVars, goVars, natsVars, storeVars

-----------------------------------------------------------------------------
(* The theorems *)

LEMMA ServerInitInvariant == ServerInit => ServerIInv
<1> SUFFICES ASSUME ServerInit PROVE ServerIInv
  OBVIOUS
<1> USE DEF ServerInit, SocketInit, NoSessions, AtRest
<1>1. SocketInv
  BY DEF SocketInv, SocketTypeOK, EntriesHaveOwner, ClosedAreForgotten
<1>2. ServerTypeOK
  BY <1>1 DEF SocketInv, ServerTypeOK, Connecting, ErrsCap
<1>3. BuildersInv /\ SubscribersInv
  BY DEF BuildersInv, Passed, SubscribersInv
<1> QED  BY <1>1, <1>2, <1>3 DEF ServerIInv

LEMMA ServerStepInvariant == ServerIInv /\ [ServerNext]_serverVars => ServerIInv'
<1> SUFFICES ASSUME ServerIInv, [ServerNext]_serverVars PROVE ServerIInv'
  OBVIOUS
<1>1. CASE UNCHANGED serverVars
  <2>1. SocketInv'
    BY <1>1, SocketsUntouched DEF ServerIInv, serverVars, socketVars
  <2> QED  BY <1>1, <2>1, SocketsInvariant DEF serverVars
<1>2. CASE StartProcess
  <2>1. SocketInv'
    BY <1>2, SocketsUntouched DEF ServerIInv, StartProcess
  <2> QED  BY <1>2, <2>1, SocketsInvariant DEF StartProcess
<1>3. CASE MainStep
  BY <1>3, MainStepInvariant, WorkInvariant, CreateIndexInvariant, AwaitIndexInvariant,
     FaultsEndProcess DEF MainStep
<1>4. CASE GoroutineStep
  BY <1>4, GoroutineStepInvariant
<1>5. CASE \E i \in Indexes : IndexIsBuilt(i)
  BY <1>5, IndexIsBuiltInvariant
<1>6. CASE NatsDrops \/ NatsReconnects \/ NatsGivesUp
  BY <1>6, NatsStepInvariant
<1>7. CASE Sockets
  <2>1. SocketInv'
    BY <1>7, SocketStepInvariant, AcceptInvariant DEF ServerIInv, Sockets
  <2> QED  BY <1>7, <2>1, SocketsInvariant DEF Sockets
<1>8. CASE Fault
  BY <1>8, FaultsEndProcess, GoroutineStepInvariant DEF Fault
<1> QED
  BY <1>1, <1>2, <1>3, <1>4, <1>5, <1>6, <1>7, <1>8 DEF ServerNext

LEMMA ServerInvariance == ServerSpec => []ServerIInv
BY ServerInitInvariant, ServerStepInvariant, PTL DEF ServerSpec

\* The state of the process, its servers, its connections and its indexes is what
\* its type says, whatever fails and however often it is started again; errs, of
\* which there are two, never makes a sender wait.
THEOREM ServerTypeCorrect == ServerSpec => []ServerTypeOK
<1>1. ServerIInv => ServerTypeOK
  BY DEF ServerIInv
<1> QED  BY <1>1, ServerInvariance, PTL

\* However packets, errors and the close of the connections interleave with
\* OnConnect, OnError and OnDisconnect, runServer keeps an entry of a closed
\* session only if a CONNECT of it came too late, or its DISCONNECT is being handled.
THEOREM ClosedForgotten == ServerSpec => []ClosedAreForgotten
<1>1. ServerIInv => ClosedAreForgotten
  BY DEF ServerIInv, SocketInv
<1> QED  BY <1>1, ServerInvariance, PTL

\* The service subscribes to messages only when MigrateDB is through, with both
\* indexes built, or left half built by an earlier process.
THEOREM MessagesAfterMigration == ServerSpec => []MigratedBeforeMessages
<1>1. ServerIInv => MigratedBeforeMessages
  BY DEF ServerIInv, BuildersInv, Passed, SubscribersInv, MigratedBeforeMessages
<1> QED  BY <1>1, ServerInvariance, PTL
-----------------------------------------------------------------------------
(* Errors and subjects *)

One(condition) == IF condition THEN 1 ELSE 0

\* The errors that were reported are in errs, but for the one runServer has taken.
ErrorsInv ==
  errs + One(process = "exiting") = One(http = "failed") + One(signals = "sent")

\* A goroutine that runServer has not started has nothing to report.
NotStartedInv ==
  /\ main \in Connecting \cup {"servers"} => http = "off"
  /\ main # "waiting" => signals = "off"

ReportInv == ErrorsInv /\ NotStartedInv /\ NoSubjectForgotten

\* A new process has reported nothing and is not waiting yet.
LEMMA EndReports ==
  ASSUME NEW how, End(EndProcess(how))
  PROVE  ReportInv'
BY DEF End, EndProcess, AtRest, ReportInv, NotStartedInv, ErrorsInv, One, NoSubjectForgotten

\* The steps of runServer itself: it takes an error once, and starts one goroutine
\* for each subject.
LEMMA MainReports ==
  ASSUME ServerIInv, ReportInv, MainStep, ~Terminate
  PROVE  ReportInv'
<1> USE DEF ServerIInv, ServerTypeOK, ReportInv, NotStartedInv, ErrorsInv, One, NoSubjectForgotten,
            MainAt, Connecting, socketVars, goVars, natsVars
<1>1. CASE LoadConfig \/ ConnectDatabase \/ ConnectNATS \/ StartServers
  BY <1>1 DEF LoadConfig, ConnectDatabase, ConnectNATS, StartServers, Creating, Indexes
<1>2. ASSUME NEW i \in Indexes, CreateIndex(i) \/ AwaitIndex(i)
      PROVE  ReportInv'
  BY <1>2 DEF CreateIndex, AwaitIndex, Creating, Awaiting, AfterIndex, Indexes
<1>3. CASE StartWork
  BY <1>3 DEF StartWork
<1>4. CASE TakeError
  BY <1>4 DEF TakeError
<1> QED  BY <1>1, <1>2, <1>3, <1>4 DEF MainStep

\* Each goroutine reports once, and a subject that is no longer to be subscribed to
\* is subscribed to, or the NATS client is closed, for good.
LEMMA GoroutinesReport ==
  ASSUME ServerIInv, ReportInv,
         \/ GoroutineStep \/ HttpFails \/ Interrupt
         \/ NatsDrops \/ NatsReconnects \/ NatsGivesUp
  PROVE  ReportInv'
<1> USE DEF ServerIInv, ServerTypeOK, ReportInv, NotStartedInv, ErrorsInv, One,
            NoSubjectForgotten, socketVars, goVars, natsVars
<1>1. CASE HttpListens \/ GrpcListens \/ NotifySignals
  BY <1>1 DEF HttpListens, GrpcListens, NotifySignals
<1>2. ASSUME NEW subj \in Subjects, QueueSubscribe(subj)
      PROVE  ReportInv'
  BY <1>2 DEF QueueSubscribe
<1>3. CASE HttpFails \/ Interrupt
  BY <1>3 DEF HttpFails, Interrupt
<1>4. CASE NatsDrops \/ NatsReconnects \/ NatsGivesUp
  BY <1>4 DEF NatsDrops, NatsReconnects, NatsGivesUp
<1> QED  BY <1>1, <1>2, <1>3, <1>4 DEF GoroutineStep

\* Sessions, the store and systemd report nothing.
LEMMA OthersReportNothing ==
  ASSUME ReportInv, UNCHANGED lifeVars,
         process' = process \/ (process = "down" /\ process' = "up")
  PROVE  ReportInv'
BY DEF ReportInv, NotStartedInv, ErrorsInv, One, NoSubjectForgotten, lifeVars, goVars, natsVars

LEMMA ReportStepInvariant == ServerIInv /\ ReportInv /\ [ServerNext]_serverVars => ReportInv'
<1> SUFFICES ASSUME ServerIInv, ReportInv, [ServerNext]_serverVars PROVE ReportInv'
  OBVIOUS
<1>1. CASE UNCHANGED serverVars \/ StartProcess \/ Sockets \/ \E i \in Indexes : IndexIsBuilt(i)
  <2>1. Sockets => process' = process
    BY DEF Sockets, SocketStep, Accept, EngineCloses, ReadFails, WriteFails, ConnectPacket,
           JoinNamespace, OnConnect, OnError, DisconnectPacket, OnDisconnect, Close,
           OnDisconnectAtClose
  <2>2. process' = process \/ (process = "down" /\ process' = "up")
    BY <1>1, <2>1 DEF serverVars, socketVars, StartProcess, IndexIsBuilt
  <2>3. UNCHANGED lifeVars
    BY <1>1 DEF serverVars, StartProcess, Sockets, IndexIsBuilt
  <2> QED  BY <2>2, <2>3, OthersReportNothing
<1>2. CASE MainStep /\ ~Terminate
  BY <1>2, MainReports
<1>3. CASE \/ GoroutineStep \/ HttpFails \/ Interrupt
           \/ NatsDrops \/ NatsReconnects \/ NatsGivesUp
  BY <1>3, GoroutinesReport
<1>4. CASE Terminate \/ StartFails \/ GrpcFails \/ Killed \/ Panics
  <2>1. \E how : End(EndProcess(how))
    BY <1>4 DEF StartFails, GrpcFails, Killed, Panics, Terminate, Fatal, DisconnectPanics, End
  <2> QED  BY <2>1, EndReports
<1> QED  BY <1>1, <1>2, <1>3, <1>4 DEF ServerNext, Fault

LEMMA ReportInvariance == ServerSpec => []ReportInv
<1>1. ServerInit => ReportInv
  BY DEF ServerInit, SocketInit, AtRest, ReportInv, NotStartedInv, ErrorsInv, One,
         NoSubjectForgotten
<1> QED  BY <1>1, ReportStepInvariant, ServerInvariance, PTL DEF ServerSpec

\* An HTTP server that fails, during the migration or later, leaves its error where
\* runServer will find it, and neither it nor the signal ever waits for room in
\* errs: the safety half of FailureEndsProcess, for every number of sessions.
THEOREM ErrorsAreKept == ServerSpec => []ErrorsReachMain
<1>1. ServerIInv /\ ReportInv => ErrorsReachMain
  BY DEF ServerIInv, ServerTypeOK, SocketInv, SocketTypeOK, ReportInv, ErrorsInv, One,
         ErrorsReachMain, ErrsCap
<1> QED  BY <1>1, ServerInvariance, ReportInvariance, PTL

\* However outages of NATS and the goroutines of QueueSubscribe interleave, a
\* subject is only given up when the NATS client is closed: the safety half of
\* ServesAgain, for every set of subjects.
THEOREM SubjectsAreKept == ServerSpec => []NoSubjectForgotten
<1>1. ReportInv => NoSubjectForgotten
  BY DEF ReportInv
<1> QED  BY <1>1, ReportInvariance, PTL
=============================================================================
