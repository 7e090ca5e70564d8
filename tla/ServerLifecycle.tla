--------------------------- MODULE ServerLifecycle ---------------------------
(***************************************************************************)
(* The life of the process: runServer (cmd/start.go) connects to Aerospike *)
(* and NATS, starts the socket, HTTP and gRPC servers, creates the         *)
(* secondary indexes, subscribes, and waits for an error; systemd starts it*)
(* again whenever it ends. The indexes are the store's and outlive it.     *)
(***************************************************************************)
EXTENDS SocketConns, Naturals

CONSTANT Subjects  \* NATSConfig.ListenToSubject

VARIABLES
  main,         \* what runServer does next
  http,         \* the goroutine of httpServer.Start
  grpc,         \* the goroutine of grpcServer.Start
  signals,      \* the goroutine that waits for SIGINT
  errs,         \* number of errors in the channel errs
  index,        \* state of each secondary index in the store
  interrupted,  \* history: indexes that were being built when a process ended
  nats,         \* the connection to NATS
  subscribing,  \* subjects whose goroutine is about to call QueueSubscribe
  subscribed    \* subjects the service listens to

goVars    == <<http, grpc, signals>>
natsVars  == <<nats, subscribing, subscribed>>
lifeVars  == <<main, goVars, errs, natsVars>>
storeVars == <<index, interrupted>>
serverVars == <<socketVars, lifeVars, storeVars>>

Indexes == {"tracks_tid_idx", "th_tid_idx"}

\* The positions of MigrateDB before and after CreateIndex.
Creating == [i \in Indexes |-> IF i = "tracks_tid_idx" THEN "create_tracks"
                                                       ELSE "create_history"]
Awaiting == [i \in Indexes |-> IF i = "tracks_tid_idx" THEN "await_tracks"
                                                       ELSE "await_history"]
AfterIndex == [i \in Indexes |-> IF i = "tracks_tid_idx" THEN "create_history"
                                                         ELSE "work"]

Connecting == {"config", "database", "nats"}
Migrating == {Creating[i] : i \in Indexes} \cup {Awaiting[i] : i \in Indexes}

ErrsCap == 2

ServerTypeOK ==
  /\ SocketTypeOK
  /\ main \in Connecting \cup Migrating \cup {"servers", "work", "waiting"}
  /\ http \in {"off", "starting", "up", "failed"}
  /\ grpc \in {"off", "starting", "up"}
  /\ signals \in {"off", "starting", "armed", "sent"}
  /\ errs \in 0..ErrsCap
  /\ index \in [Indexes -> {"absent", "building", "ready"}]
  /\ interrupted \subseteq Indexes
  /\ nats \in {"off", "connected", "reconnecting", "closed"}
  /\ subscribing \subseteq Subjects /\ subscribed \subseteq Subjects

\* The memory of a process that has not begun.
AtRest(mn, ht, gr, sg, er, nt, sb, sd) ==
  /\ mn = "config" /\ ht = "off" /\ gr = "off" /\ sg = "off" /\ er = 0
  /\ nt = "off" /\ sb = {} /\ sd = {}

ServerInit ==
  /\ SocketInit
  /\ AtRest(main, http, grpc, signals, errs, nats, subscribing, subscribed)
  /\ index = [i \in Indexes |-> "absent"] /\ interrupted = {}

-----------------------------------------------------------------------------
(* The end of the process, and systemd *)

\* Nothing is drained or closed: os.Exit, a panic and a signal run no defer.
End(end) ==
  /\ end
  /\ AtRest(main', http', grpc', signals', errs', nats', subscribing', subscribed')
  /\ interrupted' = interrupted \cup {i \in Indexes : index[i] = "building"}
  /\ UNCHANGED index

\* log.Fatal and PrintFatalLog.
Fatal == End(EndProcess("fatal"))

\* Restart=always
StartProcess ==
  /\ process = "down" /\ process' = "up" /\ exit' = "none"
  /\ UNCHANGED <<sessionVars, lifeVars, storeVars>>

\* SIGTERM of systemd, SIGKILL, or SIGINT before signal.Notify.
Killed == End(EndProcess("signal"))

Panics == \E s \in Sessions : End(DisconnectPanics(s))

-----------------------------------------------------------------------------
(* runServer *)

MainAt(step) == process = "up" /\ main = step

LoadConfig ==
  /\ MainAt("config") /\ main' = "database"
  /\ UNCHANGED <<socketVars, goVars, errs, natsVars, storeVars>>

ConnectDatabase ==
  /\ MainAt("database") /\ main' = "nats"
  /\ UNCHANGED <<socketVars, goVars, errs, natsVars, storeVars>>

ConnectNATS ==
  /\ MainAt("nats") /\ main' = "servers" /\ nats' = "connected"
  /\ UNCHANGED <<socketVars, goVars, errs, subscribing, subscribed, storeVars>>

\* Any of the three fails, or CreateIndex or the build of an index.
StartFails == process = "up" /\ main \in Connecting \cup Migrating /\ Fatal

StartServers ==
  /\ MainAt("servers") /\ main' = Creating["tracks_tid_idx"]
  /\ http' = "starting" /\ grpc' = "starting"
  /\ UNCHANGED <<socketVars, signals, errs, natsVars, storeVars>>

\* Mutant of CreateIndex: the task is not waited for.
CreateIndexOnly(i) ==
  /\ MainAt(Creating[i]) /\ main' = AfterIndex[i]
  /\ index' = [index EXCEPT ![i] = IF @ = "absent" THEN "building" ELSE @]
  /\ UNCHANGED <<socketVars, goVars, errs, natsVars, interrupted>>

\* EnsureSecondaryIndex: INDEX_FOUND counts as done, built or not.
CreateIndex(i) ==
  /\ MainAt(Creating[i])
  /\ \/ /\ index[i] = "absent"
        /\ index' = [index EXCEPT ![i] = "building"]
        /\ main' = Awaiting[i]
     \/ /\ index[i] # "absent"
        /\ main' = AfterIndex[i]
        /\ UNCHANGED index
  /\ UNCHANGED <<socketVars, goVars, errs, natsVars, interrupted>>

\* The store builds the index, whether or not a client waits for it.
IndexIsBuilt(i) ==
  /\ index[i] = "building"
  /\ index' = [index EXCEPT ![i] = "ready"]
  /\ UNCHANGED <<socketVars, lifeVars, interrupted>>

\* <-task.OnComplete()
AwaitIndex(i) ==
  /\ MainAt(Awaiting[i]) /\ index[i] = "ready"
  /\ main' = AfterIndex[i]
  /\ UNCHANGED <<socketVars, goVars, errs, natsVars, storeVars>>

\* The worker, the subscriptions and the wait for a signal get a goroutine each.
\* The function given to AddBroadcastTrackWorker's cron never runs: nothing
\* starts it.
StartWork ==
  /\ MainAt("work") /\ main' = "waiting"
  /\ subscribing' = Subjects /\ signals' = "starting"
  /\ UNCHANGED <<socketVars, http, grpc, errs, nats, subscribed, storeVars>>

\* err = <-errs, PrintFatalLog
TakeError ==
  /\ MainAt("waiting") /\ errs > 0
  /\ errs' = errs - 1 /\ process' = "exiting"
  /\ UNCHANGED <<exit, sessionVars, main, goVars, natsVars, storeVars>>

Terminate == process = "exiting" /\ Fatal

-----------------------------------------------------------------------------
(* The goroutines runServer starts *)

HttpListens ==
  /\ process # "down" /\ http = "starting" /\ http' = "up"
  /\ UNCHANGED <<socketVars, main, grpc, signals, errs, natsVars, storeVars>>

\* Mutant of HttpFails: the error is only logged.
HttpFailsSilently ==
  /\ process # "down" /\ http \in {"starting", "up"} /\ http' = "failed"
  /\ UNCHANGED <<socketVars, main, grpc, signals, errs, natsVars, storeVars>>

HttpFails ==
  /\ process # "down" /\ http \in {"starting", "up"} /\ http' = "failed"
  /\ errs < ErrsCap /\ errs' = errs + 1
  /\ UNCHANGED <<socketVars, main, grpc, signals, natsVars, storeVars>>

GrpcListens ==
  /\ process # "down" /\ grpc = "starting" /\ grpc' = "up"
  /\ UNCHANGED <<socketVars, main, http, signals, errs, natsVars, storeVars>>

\* PrintFatalLog ends the process before the error reaches errs.
GrpcFails == grpc \in {"starting", "up"} /\ Fatal

NotifySignals ==
  /\ process # "down" /\ signals = "starting" /\ signals' = "armed"
  /\ UNCHANGED <<socketVars, main, http, grpc, errs, natsVars, storeVars>>

\* Mutant of Interrupt: every signal has a goroutine of its own to send it.
EverySignalSends ==
  /\ process # "down" /\ signals = "armed" /\ errs' = errs + 1
  /\ UNCHANGED <<socketVars, main, goVars, natsVars, storeVars>>

Interrupt ==
  /\ process # "down" /\ signals = "armed" /\ signals' = "sent"
  /\ errs < ErrsCap /\ errs' = errs + 1
  /\ UNCHANGED <<socketVars, main, http, grpc, natsVars, storeVars>>

\* Mutant of QueueSubscribe: it fails while the client reconnects.
SubscribeConnectedOnly(subj) ==
  /\ process # "down" /\ subj \in subscribing
  /\ subscribing' = subscribing \ {subj}
  /\ subscribed' = IF nats = "connected" THEN subscribed \cup {subj} ELSE subscribed
  /\ UNCHANGED <<socketVars, main, goVars, errs, nats, storeVars>>

\* While the client reconnects it remembers subscriptions; once it is closed
\* QueueSubscribe fails, and nobody sees its error.
QueueSubscribe(subj) ==
  /\ process # "down" /\ subj \in subscribing
  /\ subscribing' = subscribing \ {subj}
  /\ subscribed' = IF nats # "closed" THEN subscribed \cup {subj} ELSE subscribed
  /\ UNCHANGED <<socketVars, main, goVars, errs, nats, storeVars>>

\* The NATS client: an outage, the end of it, and the end of its attempts.
NatsDrops ==
  /\ nats = "connected" /\ nats' = "reconnecting"
  /\ UNCHANGED <<socketVars, main, goVars, errs, subscribing, subscribed, storeVars>>

NatsReconnects ==
  /\ nats = "reconnecting" /\ nats' = "connected"
  /\ UNCHANGED <<socketVars, main, goVars, errs, subscribing, subscribed, storeVars>>

NatsGivesUp ==
  /\ nats = "reconnecting" /\ nats' = "closed"
  /\ UNCHANGED <<socketVars, main, goVars, errs, subscribing, subscribed, storeVars>>

\* Sessions come through the HTTP server.
Sockets ==
  /\ \/ \E s \in Sessions : http = "up" /\ Accept(s)
     \/ SocketStep
  /\ UNCHANGED <<lifeVars, storeVars>>

-----------------------------------------------------------------------------
(* The service *)

MainStep ==
  \/ LoadConfig \/ ConnectDatabase \/ ConnectNATS \/ StartServers
  \/ \E i \in Indexes : CreateIndex(i) \/ AwaitIndex(i)
  \/ StartWork \/ TakeError \/ Terminate

GoroutineStep ==
  \/ HttpListens \/ GrpcListens \/ NotifySignals
  \/ \E subj \in Subjects : QueueSubscribe(subj)

Fault ==
  StartFails \/ HttpFails \/ GrpcFails \/ Interrupt \/ Killed \/ Panics

ServerNext ==
  \/ StartProcess \/ MainStep \/ GoroutineStep
  \/ \E i \in Indexes : IndexIsBuilt(i)
  \/ NatsDrops \/ NatsReconnects \/ NatsGivesUp
  \/ Sockets \/ Fault

\* Goroutines are scheduled, systemd starts the service again, the store builds
\* its indexes, and the NATS client goes on trying until it gives up.
ServerFairness ==
  /\ WF_serverVars(StartProcess) /\ WF_serverVars(MainStep)
  /\ WF_serverVars(HttpListens) /\ WF_serverVars(GrpcListens)
  /\ WF_serverVars(NotifySignals)
  /\ \A subj \in Subjects : WF_serverVars(QueueSubscribe(subj))
  /\ \A i \in Indexes : WF_serverVars(IndexIsBuilt(i))
  /\ WF_serverVars(NatsReconnects \/ NatsGivesUp)

ServerSpec == ServerInit /\ [][ServerNext]_serverVars

FairServerSpec == ServerSpec /\ ServerFairness

-----------------------------------------------------------------------------
(* Properties *)

\* Messages, whose handlers query by track_id, are only subscribed to when both
\* indexes are built. INDEX_FOUND is no proof of that: the exception is an index
\* whose building a process that ended has left behind.
MigratedBeforeMessages ==
  subscribing \cup subscribed # {} =>
    \A i \in Indexes : index[i] = "ready" \/ i \in interrupted

\* A failure of the HTTP server is never forgotten: until runServer has taken an
\* error, however late it begins to wait for one, the server's is in errs. And
\* errs always has room: neither the server nor the signal ever waits to report.
ErrorsReachMain ==
  /\ process = "up" /\ http = "failed" => errs > 0
  /\ http \in {"starting", "up"} \/ signals = "armed" => errs < ErrsCap

\* Once its goroutines have been started the service listens to every subject, or
\* is about to, unless the NATS client is closed: an outage loses none.
NoSubjectForgotten ==
  main = "waiting" /\ nats # "closed" => subscribing \cup subscribed = Subjects

\* A service without its HTTP server does not linger: whenever the server fails,
\* even while runServer is in MigrateDB, the process ends, to be started again.
FailureEndsProcess == http = "failed" ~> process = "down"

Serving ==
  /\ process = "up" /\ main = "waiting" /\ http = "up" /\ grpc = "up"
  /\ subscribed = Subjects /\ \A i \in Indexes : index[i] = "ready"

\* Whatever state faults have left, a half built index among them, once they end the
\* service serves for good, with all that it needs to answer queries, unless its NATS client gave up: the service then stays up, and deaf.
ServesAgain ==
  <>[][~Fault]_serverVars => <>[](Serving \/ (process = "up" /\ nats = "closed"))

\* What getReadyHandler answers: the server's fields are set before it listens,
\* and the store is asked for its build only.
Ready == http = "up"

\* "This endpoint returns 200 when our Service is ready to serve traffic (i.e.
\* respond to queries)" (get_ready.go:16): queries by track_id need the indexes.
ReadyIsReady == Ready => \A i \in Indexes : index[i] = "ready"
=============================================================================
