---------------------------- MODULE TrackManager ----------------------------
(***************************************************************************)
(* MainService's handling of NATS messages (internal/service/track.go,     *)
(* event_process.go): every message runs in a goroutine of its own, which  *)
(* publishes an event, changes trackMap under the lock rwm, and creates or *)
(* deletes track history.  No lock is held from one of these to the next,  *)
(* so that handlers interleave at each of them, and with the history       *)
(* pipeline this module extends.                                           *)
(*                                                                         *)
(* A track in trackMap is abstracted to the goroutine whose message it came*)
(* from.                                                                   *)
(***************************************************************************)
EXTENDS TrackHistory, Conversion

CONSTANT Messages  \* the messages that may arrive

\* An update is abstracted to its track and to what its conversion yields.
Update    == [kind : {"update"}, id : Ids, form : Forms]
Remove    == [kind : {"remove"}, list : Seq(Ids)]
Statistic == [kind : {"statistic"}, listed : SUBSET Ids]
\* A message that does not parse, or of a type ProcessIpcEvent ignores.
Other     == [kind : {"other"}]

ASSUME MessagesAssumption ==
  /\ Messages \subseteq Update \cup Remove \cup Statistic \cup Other
  /\ None \notin Messages /\ None \notin Goroutines

VARIABLES
  pc,         \* where the handler of a message is
  msg,        \* its message
  pos,        \* index in the RemovedTrackIdList it loops over
  gone,       \* processIpcTrackStatistic's deleteTrackIds
  trackMap,   \* s.trackMap: None where a track is not in the map
  before,     \* history: the handlers that had returned when this one began
  announced,  \* history: the tracks that subscribers of every event believe in
  missed      \* history: a publish has failed

handlerVars == <<pc, msg, pos, gone, before>>
eventVars   == <<announced, missed>>
managerVars == <<historyVars, handlerVars, trackMap, eventVars>>

Started == {"received", "mapping", "recording", "sending", "unmapping",
            "erasing", "deleting", "pruning", "announcing"}

HandlersTypeOK ==
  /\ pc \in [Goroutines -> Started \cup {"none", "done", "lost"}]
  /\ msg \in [Goroutines -> Messages \cup {None}]
  /\ pos \in [Goroutines -> Nat \ {0}]
  /\ gone \in [Goroutines -> SUBSET Ids]
  /\ trackMap \in [Ids -> Goroutines \cup {None}]
  /\ before \in [Goroutines -> SUBSET Goroutines]
  /\ announced \subseteq Ids
  /\ missed \in BOOLEAN

ManagerTypeOK == TypeOK /\ HandlersTypeOK

ManagerInit ==
  /\ HistoryInit
  /\ pc = [g \in Goroutines |-> "none"]
  /\ msg = [g \in Goroutines |-> None]
  /\ pos = [g \in Goroutines |-> 1]
  /\ gone = [g \in Goroutines |-> {}]
  /\ trackMap = [id \in Ids |-> None]
  /\ before = [g \in Goroutines |-> {}]
  /\ announced = {} /\ missed = FALSE

-----------------------------------------------------------------------------
Is(g, kind) == msg[g] # None /\ msg[g].kind = kind

At(g, kind, label) == pc[g] = label /\ Is(g, kind)

GoTo(g, label) == pc' = [pc EXCEPT ![g] = label]

\* publishEvent: a failure is only logged.
Publish(believed) ==
  \/ announced' = believed /\ UNCHANGED missed
  \/ missed' = TRUE /\ UNCHANGED announced

\* The subscription's callback starts a goroutine on ReceiveNATSMsg; while the
\* process is down messages are not delivered.
Deliver(g, m) ==
  /\ worker # "down" /\ pc[g] = "none"
  /\ GoTo(g, IF m.kind = "other" THEN "done" ELSE "received")
  /\ msg' = [msg EXCEPT ![g] = m]
  /\ before' = [before EXCEPT ![g] = {h \in Goroutines : pc[h] = "done"}]
  /\ UNCHANGED <<historyVars, pos, gone, trackMap, eventVars>>

-----------------------------------------------------------------------------
(* processIpcTrackUpdate *)

\* The error of convertIpcTrackToTrack is ignored. Publishing begins with
\* proto.Marshal, which only fails for strings that are not UTF-8: the message's
\* own have passed proto.Unmarshal, which rejects them, and so it succeeds here
\* and in PublishDelete and PublishAll.
PublishUpdate(g) ==
  /\ At(g, "update", "received") /\ msg[g].form # "malformed"
  /\ Publish(announced \cup {msg[g].id})
  /\ GoTo(g, "mapping")
  /\ UNCHANGED <<historyVars, msg, pos, gone, before, trackMap>>

\* Mutant of UpdateTrackToMap: a track in the map is not updated.
KeepFirstTrack(g) ==
  /\ At(g, "update", "mapping")
  /\ trackMap' = [trackMap EXCEPT ![msg[g].id] = IF @ = None THEN g ELSE @]
  /\ GoTo(g, "recording")
  /\ UNCHANGED <<historyVars, msg, pos, gone, before, eventVars>>

UpdateTrackToMap(g) ==
  /\ At(g, "update", "mapping")
  /\ trackMap' = [trackMap EXCEPT ![msg[g].id] = g]
  /\ GoTo(g, "recording")
  /\ UNCHANGED <<historyVars, msg, pos, gone, before, eventVars>>

RecordHistory(g) ==
  /\ At(g, "update", "recording") /\ msg[g].form # "unidentified"
  /\ CreateTrackHistory(g, msg[g].id)
  /\ GoTo(g, "sending")
  /\ UNCHANGED <<msg, pos, gone, before, trackMap, eventVars>>

\* Mutant of SendHistory: the record is created again after the send.
SendHistoryTwice(g) ==
  /\ At(g, "update", "sending")
  /\ \E r \in sending : r.by = g /\ Send(r)
  /\ GoTo(g, "recording")
  /\ UNCHANGED <<msg, pos, gone, before, trackMap, eventVars>>

SendHistory(g) ==
  /\ At(g, "update", "sending")
  /\ \E r \in sending : r.by = g /\ Send(r)
  /\ GoTo(g, "done")
  /\ UNCHANGED <<msg, pos, gone, before, trackMap, eventVars>>

-----------------------------------------------------------------------------
(* processIpcTrackRemove *)

Current(g) == msg[g].list[pos[g]]

NextId(g) == pos' = [pos EXCEPT ![g] = @ + 1] /\ GoTo(g, "received")

PublishDelete(g) ==
  /\ At(g, "remove", "received") /\ pos[g] <= Len(msg[g].list)
  /\ Publish(announced \ {Current(g)})
  /\ GoTo(g, "unmapping")
  /\ UNCHANGED <<historyVars, msg, pos, gone, before, trackMap>>

\* Mutant of RemoveTrackFromMap: the map is left alone.
RemoveNothing(g) ==
  /\ At(g, "remove", "unmapping")
  /\ GoTo(g, "erasing")
  /\ UNCHANGED <<historyVars, msg, pos, gone, before, trackMap, eventVars>>

RemoveTrackFromMap(g) ==
  /\ At(g, "remove", "unmapping")
  /\ trackMap' = [trackMap EXCEPT ![Current(g)] = None]
  /\ GoTo(g, "erasing")
  /\ UNCHANGED <<historyVars, msg, pos, gone, before, eventVars>>

BeginDelete(g) ==
  /\ At(g, "remove", "erasing")
  /\ QueryHistory(g, Current(g))
  /\ GoTo(g, "deleting")
  /\ UNCHANGED <<msg, pos, gone, before, trackMap, eventVars>>

\* Mutant of QueryFails: the id is tried again until the query succeeds.
QueryRetries(g) ==
  /\ At(g, "remove", "erasing")
  /\ GoTo(g, "received")
  /\ UNCHANGED <<historyVars, msg, pos, gone, before, trackMap, eventVars>>

\* The query fails; like any error of DeleteTrackHistory this one is ignored.
QueryFails(g) ==
  /\ At(g, "remove", "erasing")
  /\ NextId(g)
  /\ UNCHANGED <<historyVars, msg, gone, before, trackMap, eventVars>>

DeleteOne(g) ==
  /\ At(g, "remove", "deleting")
  /\ DeleteRecord(g)
  /\ UNCHANGED <<handlerVars, trackMap, eventVars>>

EndDelete(g) ==
  /\ At(g, "remove", "deleting")
  /\ DeleteDone(g) \/ DeleteFails(g)
  /\ NextId(g)
  /\ UNCHANGED <<msg, gone, before, trackMap, eventVars>>

RemoveReturns(g) ==
  /\ At(g, "remove", "received") /\ pos[g] > Len(msg[g].list)
  /\ GoTo(g, "done")
  /\ UNCHANGED <<historyVars, msg, pos, gone, before, trackMap, eventVars>>

-----------------------------------------------------------------------------
(* processIpcTrackStatistic *)

\* Mutant of Diff: the arguments are swapped.
DiffSwapped(a, b) == b \ a

\* diffArray
Diff(a, b) == a \ b

\* GetAllTrackIds
AllTrackIds == {id \in Ids : trackMap[id] # None}

CompareTracks(g) ==
  /\ At(g, "statistic", "received")
  /\ gone' = [gone EXCEPT ![g] = Diff(AllTrackIds, msg[g].listed)]
  /\ GoTo(g, IF gone'[g] = {} THEN "announcing" ELSE "pruning")
  /\ UNCHANGED <<historyVars, msg, pos, before, trackMap, eventVars>>

RemoveTracksFromMap(g) ==
  /\ At(g, "statistic", "pruning")
  /\ trackMap' = [id \in Ids |-> IF id \in gone[g] THEN None ELSE trackMap[id]]
  /\ GoTo(g, "announcing")
  /\ UNCHANGED <<historyVars, msg, pos, gone, before, eventVars>>

PublishAll(g) ==
  /\ At(g, "statistic", "announcing")
  /\ Publish(announced \cap msg[g].listed)
  /\ GoTo(g, "done")
  /\ UNCHANGED <<historyVars, msg, pos, gone, before, trackMap>>

-----------------------------------------------------------------------------
(* The process *)

\* No handler recovers from a panic: it ends the process, with the handlers,
\* the map and the pipeline's memory.
Die ==
  /\ Crash
  /\ pc' = [g \in Goroutines |-> IF pc[g] = "none" THEN "none" ELSE "lost"]
  /\ gone' = [g \in Goroutines |-> {}]
  /\ trackMap' = [id \in Ids |-> None]
  /\ UNCHANGED <<msg, pos, before, eventVars>>

\* A nil pointer in convertIpcTrackToTrack, or CreateTrackHistory's
\* *track.Identification.
Panic(g) ==
  /\ \/ At(g, "update", "received") /\ msg[g].form = "malformed"
     \/ At(g, "update", "recording") /\ msg[g].form = "unidentified"
  /\ Die

RestartService ==
  /\ Restart
  /\ UNCHANGED <<handlerVars, trackMap, eventVars>>

PipelineStep ==
  /\ WorkerStep \/ TimerFires \/ Tick \/ ApplyLate
  /\ UNCHANGED <<handlerVars, trackMap, eventVars>>

UpdateStep(g) ==
  PublishUpdate(g) \/ UpdateTrackToMap(g) \/ RecordHistory(g) \/ SendHistory(g)

RemoveStep(g) ==
  \/ PublishDelete(g) \/ RemoveTrackFromMap(g) \/ BeginDelete(g)
  \/ QueryFails(g) \/ DeleteOne(g) \/ EndDelete(g) \/ RemoveReturns(g)

StatisticStep(g) ==
  CompareTracks(g) \/ RemoveTracksFromMap(g) \/ PublishAll(g)

HandlerStep(g) ==
  UpdateStep(g) \/ RemoveStep(g) \/ StatisticStep(g) \/ Panic(g)

ManagerNext ==
  \/ \E g \in Goroutines, m \in Messages : Deliver(g, m)
  \/ \E g \in Goroutines : HandlerStep(g)
  \/ PipelineStep
  \/ Die \/ RestartService

\* The worker and the handlers are scheduled fairly, timers fire, systemd restarts
\* the service, and a select whose receive case is ready again and again takes it
\* in the end, for it chooses at random among the ready cases.
ManagerFairness ==
  /\ WF_managerVars(WorkerStep /\ PipelineStep)
  /\ SF_managerVars(Receive /\ PipelineStep)
  /\ WF_managerVars(TimerFires /\ PipelineStep)
  /\ WF_managerVars(RestartService)
  /\ \A g \in Goroutines : WF_managerVars(HandlerStep(g))

ManagerSpec == ManagerInit /\ [][ManagerNext]_managerVars

FairManagerSpec == ManagerSpec /\ ManagerFairness

-----------------------------------------------------------------------------
(* Properties *)

\* The update has put its track into the map of the running process.
Applied(g) == Is(g, "update") /\ pc[g] \in {"recording", "sending", "done"}

\* The removal or the statistic has taken the track out of it.
Cleared(g, id) ==
  \/ /\ Is(g, "remove") /\ pc[g] \notin {"none", "lost"}
     /\ \E i \in 1..Len(msg[g].list) :
          /\ msg[g].list[i] = id
          /\ i < pos[g] \/ (i = pos[g] /\ pc[g] \in {"erasing", "deleting"})
  \/ /\ Is(g, "statistic") /\ pc[g] \in {"announcing", "done"}
     /\ id \notin msg[g].listed

Overrules(g, id) == (Applied(g) /\ msg[g].id = id) \/ Cleared(g, id)

\* A track whose handler had returned when another message arrived is out of
\* the map for good once that message's handler has replaced it, removed it, or
\* gone through a statistic that does not list it: whatever the interleaving,
\* the handlers overlap only with messages that were being handled together.
NoStaleTrack ==
  \A id \in Ids, g \in Goroutines :
    trackMap[id] \in before[g] => ~Overrules(g, id)

\* A track put into the map stays, unless a message that was not over when the
\* update arrived has replaced it, removed it or failed to list it. A statistic
\* never takes a track that it lists, whenever that track came.
NoLostTrack ==
  \A h \in Goroutines :
    Applied(h) /\ trackMap[msg[h].id] # h =>
      \E g \in Goroutines \ {h} : g \notin before[h] /\ Overrules(g, msg[h].id)

\* The message says of the track that it is there, or that it is not.
Concerns(g, id) ==
  \/ Is(g, "update") /\ msg[g].id = id
  \/ Is(g, "remove") /\ \E i \in DOMAIN msg[g].list : msg[g].list[i] = id
  \/ Is(g, "statistic") /\ id \notin msg[g].listed

\* The messages that concerned the track since the process started have all been
\* handled, one after the other.
HandledInTurn(id) ==
  \A g, h \in {f \in Goroutines : Concerns(f, id) /\ pc[f] # "lost"} :
    pc[g] = "done" /\ (g = h \/ g \in before[h] \/ h \in before[g])

\* A message of the running process concerned the track and has been handled.
Handled(id) == \E g \in Goroutines : Concerns(g, id) /\ pc[g] = "done"

\* Once the messages about a track have been handled in turn it is in the map
\* exactly if the process has handled one and the subscribers of the track.*
\* events that missed none believe in it, whatever happens meanwhile to other
\* tracks. Of tracks that no message has concerned since a crash subscribers may
\* believe what the map has lost; and when messages overlap they need not agree
\* with it at all: publish and map change are not one step.
AgreesWithSubscribers ==
  worker # "down" /\ ~missed =>
    \A id \in Ids :
      HandledInTurn(id) => (id \in AllTrackIds <=> id \in announced /\ Handled(id))

\* Every record the channel accepts is settled: written, given up with a failed
\* batch, or lost in a crash. None stays in a batch that is never full. (Handlers
\* send finitely many here.)
EveryRecordSettles == <>[](Settled = Len(sent))

\* Every message is handled to the end or lost in a crash: no handler waits for
\* ever at a full historyCh or in a scan.
HandlersReturn ==
  \A g \in Goroutines : (pc[g] \in Started) ~> (pc[g] \notin Started)

\* The handlers use the pipeline as TrackHistory lets its callers: the
\* composition implements it, and what is proved of it holds here.
UsesPipeline == HistorySpec

\* "//DELETE track history" (track.go:153): when DeleteTrackHistory returns nil
\* for a removed track, no history of an update that had been handled before
\* the removal arrived is left, in the store or on its way there.
RemovedHistoryIsGone ==
  [][\A g \in Goroutines :
       deleting[g] # None /\ todo[g] = {} /\ deleting'[g] = None /\ worker' # "down"
         => \A r \in db' \cup InMemory' :
              ~(r.id = deleting[g] /\ r.by \in before[g])]_managerVars

\* A message the conversion rejects (errors.New in track.go:221..301) does not
\* become a track.
RejectedIsNoTrack ==
  \A id \in Ids : trackMap[id] # None => msg[trackMap[id]].form = "full"
=============================================================================
