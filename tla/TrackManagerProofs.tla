------------------------- MODULE TrackManagerProofs -------------------------
(***************************************************************************)
(* Proofs about TrackManager for every set of messages, every number of    *)
(* handlers at a time and every configuration of the history pipeline.     *)
(***************************************************************************)
EXTENDS TrackManager, TrackHistoryProofs

\* The fields a handler reads are there.
LEMMA MessageShape ==
  ASSUME HandlersTypeOK, NEW g \in Goroutines
  PROVE  /\ Is(g, "update") => msg[g].id \in Ids
         /\ Is(g, "remove") => msg[g].list \in Seq(Ids)
         /\ Is(g, "statistic") => msg[g].listed \subseteq Ids
<1> SUFFICES ASSUME msg[g] # None
             PROVE  /\ msg[g].kind = "update" => msg[g].id \in Ids
                    /\ msg[g].kind = "remove" => msg[g].list \in Seq(Ids)
                    /\ msg[g].kind = "statistic" => msg[g].listed \subseteq Ids
  BY DEF Is
<1>1. msg[g] \in Update \cup Remove \cup Statistic \cup Other
  BY MessagesAssumption DEF HandlersTypeOK
<1>2. CASE msg[g] \in Update
  BY <1>2 DEF Update
<1>3. CASE msg[g] \in Remove
  BY <1>3 DEF Remove
<1>4. CASE msg[g] \in Statistic
  BY <1>4 DEF Statistic
<1>5. CASE msg[g] \in Other
  BY <1>5 DEF Other
<1> QED BY <1>1, <1>2, <1>3, <1>4, <1>5

\* A removal is about an element of its list.
CurrentInList ==
  \A g \in Goroutines :
    Is(g, "remove") /\ pc[g] \in {"unmapping", "erasing", "deleting"}
      => pos[g] \in 1..Len(msg[g].list)

\* What a handler is doing, and its traces in the pipeline.
CallsMatch ==
  /\ worker = "down" => \A g \in Goroutines : pc[g] \notin Started
  /\ \A g \in Goroutines : deleting[g] # None => pc[g] = "deleting"
  /\ \A r \in sending : pc[r.by] = "sending"
  /\ \A i \in 1..Len(sent) : pc[sent[i].by] \in {"done", "lost"}

MInv == IInv /\ HandlersTypeOK /\ CurrentInList /\ CallsMatch

LEMMA CurrentIsId ==
  ASSUME HandlersTypeOK, CurrentInList, NEW g \in Goroutines,
         Is(g, "remove"), pc[g] \in {"unmapping", "erasing", "deleting"}
  PROVE  Current(g) \in Ids
BY MessageShape DEF CurrentInList, Current

\* Every step of the service is a step of the pipeline, or none.
LEMMA PipelineSimulated ==
  ASSUME MInv, [ManagerNext]_managerVars
  PROVE  [HistoryNext]_historyVars
<1> USE DEF MInv, IInv, TypeOK, HandlersTypeOK, CallsMatch
<1>1. ASSUME NEW g \in Goroutines, RecordHistory(g)
      PROVE  HistoryNext
  <2>1. At(g, "update", "recording") /\ CreateTrackHistory(g, msg[g].id)
    BY <1>1 DEF RecordHistory
  <2>2. msg[g].id \in Ids
    BY <2>1, MessageShape DEF At
  <2>3. pc[g] = "recording"
    BY <2>1 DEF At
  <2>4. Idle(g) /\ Unsent(g)
    BY <2>3 DEF Idle, Unsent, Started
  <2> QED BY <2>1, <2>2, <2>4 DEF HistoryNext, CallStep
<1>2. ASSUME NEW g \in Goroutines, BeginDelete(g)
      PROVE  HistoryNext
  <2>1. At(g, "remove", "erasing") /\ QueryHistory(g, Current(g))
    BY <1>2 DEF BeginDelete
  <2>2. Current(g) \in Ids
    BY <2>1, CurrentIsId DEF At
  <2>3. pc[g] = "erasing"
    BY <2>1 DEF At
  <2>4. Idle(g)
    BY <2>3 DEF Idle, Started
  <2> QED BY <2>1, <2>2, <2>4 DEF HistoryNext, CallStep
<1>3. ASSUME NEW g \in Goroutines, SendHistory(g) \/ DeleteOne(g) \/ EndDelete(g)
      PROVE  HistoryNext
  BY <1>3 DEF SendHistory, DeleteOne, EndDelete, HistoryNext, CallStep, DeleteStep
<1>4. ASSUME PipelineStep \/ Die \/ RestartService \/ \E g \in Goroutines : Panic(g)
      PROVE  HistoryNext
  BY <1>4 DEF PipelineStep, Die, RestartService, Panic, HistoryNext
<1>5. ASSUME \/ \E g \in Goroutines, m \in Messages : Deliver(g, m)
             \/ \E g \in Goroutines :
                  \/ PublishUpdate(g) \/ UpdateTrackToMap(g)
                  \/ PublishDelete(g) \/ RemoveTrackFromMap(g)
                  \/ QueryFails(g) \/ RemoveReturns(g) \/ StatisticStep(g)
             \/ UNCHANGED managerVars
      PROVE  UNCHANGED historyVars
  BY <1>5 DEF Deliver, PublishUpdate, UpdateTrackToMap, PublishDelete,
              RemoveTrackFromMap, QueryFails, RemoveReturns, StatisticStep,
              CompareTracks, RemoveTracksFromMap, PublishAll, managerVars
<1> QED BY <1>1, <1>2, <1>3, <1>4, <1>5
           DEF ManagerNext, HandlerStep, UpdateStep, RemoveStep

LEMMA HandlersTypeStep ==
  ASSUME MInv, [ManagerNext]_managerVars
  PROVE  HandlersTypeOK'
<1> USE DEF MInv, IInv, HandlersTypeOK, GoTo, NextId, Publish, eventVars, handlerVars
<1>1. ASSUME NEW g \in Goroutines, NEW m \in Messages, Deliver(g, m)
      PROVE  HandlersTypeOK'
  BY <1>1 DEF Deliver, Started
<1>2. ASSUME NEW g \in Goroutines, UpdateStep(g)
      PROVE  HandlersTypeOK'
  <2>1. msg[g].id \in Ids
    BY <1>2, MessageShape DEF UpdateStep, PublishUpdate, UpdateTrackToMap,
                              RecordHistory, SendHistory, At
  <2>2. CASE PublishUpdate(g)
    BY <2>1, <2>2 DEF PublishUpdate, Started
  <2>3. CASE UpdateTrackToMap(g)
    BY <2>1, <2>3 DEF UpdateTrackToMap, Started
  <2>4. CASE RecordHistory(g) \/ SendHistory(g)
    BY <2>4 DEF RecordHistory, SendHistory, Started
  <2> QED BY <1>2, <2>2, <2>3, <2>4 DEF UpdateStep
<1>3. ASSUME NEW g \in Goroutines, RemoveStep(g)
      PROVE  HandlersTypeOK'
  <2>1. CASE PublishDelete(g)
    BY <2>1 DEF PublishDelete, Started
  <2>2. CASE RemoveTrackFromMap(g)
    BY <2>2 DEF RemoveTrackFromMap, Started
  <2>3. CASE BeginDelete(g) \/ DeleteOne(g) \/ RemoveReturns(g)
    BY <2>3 DEF BeginDelete, DeleteOne, RemoveReturns, Started
  <2>4. CASE QueryFails(g) \/ EndDelete(g)
    BY <2>4 DEF QueryFails, EndDelete, Started
  <2> QED BY <1>3, <2>1, <2>2, <2>3, <2>4 DEF RemoveStep
<1>4. ASSUME NEW g \in Goroutines, StatisticStep(g)
      PROVE  HandlersTypeOK'
  <2>1. CASE CompareTracks(g)
    BY <2>1 DEF CompareTracks, Diff, AllTrackIds, Started
  <2>2. CASE RemoveTracksFromMap(g)
    BY <2>2 DEF RemoveTracksFromMap, Started
  <2>3. CASE PublishAll(g)
    BY <2>3 DEF PublishAll, Started
  <2> QED BY <1>4, <2>1, <2>2, <2>3 DEF StatisticStep
<1>5. CASE Die
  BY <1>5 DEF Die
<1>6. CASE RestartService \/ PipelineStep \/ UNCHANGED managerVars
  BY <1>6 DEF RestartService, PipelineStep, managerVars
<1> QED BY <1>1, <1>2, <1>3, <1>4, <1>5, <1>6 DEF ManagerNext, HandlerStep, Panic

LEMMA CurrentStep ==
  ASSUME MInv, [ManagerNext]_managerVars
  PROVE  CurrentInList'
<1> USE DEF MInv, IInv, HandlersTypeOK, CurrentInList, GoTo, NextId, At, Is, handlerVars
<1>1. ASSUME NEW g \in Goroutines, NEW m \in Messages, Deliver(g, m)
      PROVE  CurrentInList'
  BY <1>1 DEF Deliver
<1>2. ASSUME NEW g \in Goroutines, PublishDelete(g)
      PROVE  CurrentInList'
  <2>1. msg[g].list \in Seq(Ids) /\ Len(msg[g].list) \in Nat
    BY <1>2, MessageShape DEF PublishDelete
  <2>2. pos[g] \in 1..Len(msg[g].list)
    BY <1>2, <2>1 DEF PublishDelete
  <2> QED BY <1>2, <2>2 DEF PublishDelete
<1>3. ASSUME NEW g \in Goroutines,
             \/ UpdateStep(g) \/ StatisticStep(g)
             \/ RemoveTrackFromMap(g) \/ BeginDelete(g) \/ QueryFails(g)
             \/ DeleteOne(g) \/ EndDelete(g) \/ RemoveReturns(g)
      PROVE  CurrentInList'
  BY <1>3 DEF UpdateStep, PublishUpdate, UpdateTrackToMap, RecordHistory,
              SendHistory, StatisticStep, CompareTracks, RemoveTracksFromMap,
              PublishAll, RemoveTrackFromMap, BeginDelete, QueryFails,
              DeleteOne, EndDelete, RemoveReturns
<1>4. CASE Die \/ RestartService \/ PipelineStep \/ UNCHANGED managerVars
  BY <1>4 DEF Die, RestartService, PipelineStep, managerVars
<1> QED BY <1>1, <1>2, <1>3, <1>4
           DEF ManagerNext, HandlerStep, Panic, RemoveStep

LEMMA SentAuthors ==
  ASSUME TypeOK
  PROVE  \A i \in 1..Len(sent) : sent[i].by \in Goroutines
<1>1. ASSUME NEW i \in 1..Len(sent) PROVE sent[i].by \in Goroutines
  <2>1. sent[i] \in Record
    BY DEF TypeOK
  <2> QED BY <2>1 DEF Record
<1> QED BY <1>1

LEMMA CallsStep ==
  ASSUME MInv, [ManagerNext]_managerVars
  PROVE  CallsMatch'
<1> USE DEF MInv, IInv, TypeOK, HandlersTypeOK, CallsMatch, GoTo, NextId, At, Started,
            handlerVars, historyVars, queueVars, workerVars, deleteVars
<1>1. ASSUME NEW g \in Goroutines, NEW m \in Messages, Deliver(g, m)
      PROVE  CallsMatch'
  BY <1>1 DEF Deliver, Record
<1>2. ASSUME NEW g \in Goroutines,
             \/ PublishUpdate(g) \/ UpdateTrackToMap(g)
             \/ PublishDelete(g) \/ RemoveTrackFromMap(g)
             \/ QueryFails(g) \/ RemoveReturns(g) \/ StatisticStep(g)
      PROVE  CallsMatch'
  <2>1. /\ pc[g] \in Started \ {"sending", "deleting"}
        /\ \E label \in Started \cup {"done"} : pc' = [pc EXCEPT ![g] = label]
        /\ UNCHANGED historyVars
    BY <1>2 DEF PublishUpdate, UpdateTrackToMap, PublishDelete,
                RemoveTrackFromMap, QueryFails, RemoveReturns, StatisticStep,
                CompareTracks, RemoveTracksFromMap, PublishAll
  <2>2. PICK label : pc' = [pc EXCEPT ![g] = label]
    BY <2>1
  <2>3. \A h \in Goroutines : pc[h] \in {"sending", "deleting", "done", "lost"}
          => pc'[h] = pc[h]
    BY <2>1, <2>2
  <2>4. worker # "down" /\ UNCHANGED <<worker, deleting, sending, sent>>
    BY <2>1
  <2>5. \A r \in sending : r.by \in Goroutines
    BY DEF Record
  <2>6. \A i \in 1..Len(sent) : sent[i].by \in Goroutines
    BY SentAuthors
  <2> QED BY <2>3, <2>4, <2>5, <2>6
<1>3. ASSUME NEW g \in Goroutines, RecordHistory(g)
      PROVE  CallsMatch'
  BY <1>3 DEF RecordHistory, CreateTrackHistory, Record
<1>4. ASSUME NEW g \in Goroutines, SendHistory(g)
      PROVE  CallsMatch'
  <2>1. PICK r \in sending : r.by = g /\ Send(r)
    BY <1>4 DEF SendHistory
  <2>2. /\ sending' = sending \ {r} /\ sent' = Append(sent, r)
        /\ deleting' = deleting /\ worker' = worker /\ pc' = [pc EXCEPT ![g] = "done"]
        /\ pc[g] = "sending"
    BY <1>4, <2>1 DEF Send, SendHistory
  <2>3. \A i \in 1..Len(sent') : pc'[sent'[i].by] \in {"done", "lost"}
    BY <2>1, <2>2 DEF Record
  <2>4. \A s \in sending' : pc'[s.by] = "sending"
    <3>1. \A s \in sending' : s \in sending /\ s.by # g
      BY <2>1, <2>2 DEF OneRecordEach
    <3> QED BY <2>2, <3>1 DEF Record
  <2> QED BY <2>2, <2>3, <2>4
<1>5. ASSUME NEW g \in Goroutines, BeginDelete(g) \/ DeleteOne(g) \/ EndDelete(g)
      PROVE  CallsMatch'
  <2>1. /\ UNCHANGED <<worker, sending, sent>> /\ worker # "down"
        /\ \A h \in Goroutines \ {g} : pc'[h] = pc[h] /\ deleting'[h] = deleting[h]
        /\ pc[g] \in {"erasing", "deleting"}
        /\ deleting'[g] # None => pc'[g] = "deleting"
    BY <1>5 DEF BeginDelete, DeleteOne, EndDelete, QueryHistory, DeleteRecord,
                DeleteDone, DeleteFails, ReturnFromDelete
  <2>2. \A r \in sending : r.by \in Goroutines
    BY DEF Record
  <2>3. \A i \in 1..Len(sent) : sent[i].by \in Goroutines
    BY SentAuthors
  <2> QED BY <2>1, <2>2, <2>3
<1>6. CASE Die
  <2>1. /\ sending' = {} /\ sent' = sent
        /\ \A g \in Goroutines : deleting'[g] = None /\ pc'[g] \in {"none", "lost"}
        /\ \A g \in Goroutines : pc[g] # "none" => pc'[g] = "lost"
    BY <1>6 DEF Die, Crash
  <2>2. \A i \in 1..Len(sent) : sent[i].by \in Goroutines
    BY SentAuthors
  <2>3. \A i \in 1..Len(sent') : pc'[sent'[i].by] \in {"done", "lost"}
    BY <2>1, <2>2
  <2> QED BY <2>1, <2>3
<1>7. CASE RestartService \/ PipelineStep \/ UNCHANGED managerVars
  BY <1>7 DEF RestartService, Restart, PipelineStep, WorkerStep, Receive,
              TimerCase, PutBins, FlushDone, FlushFails, EndFlush, TimerFires,
              Tick, ApplyLate, managerVars
<1> QED BY <1>1, <1>2, <1>3, <1>4, <1>5, <1>6, <1>7
           DEF ManagerNext, HandlerStep, UpdateStep, RemoveStep, Panic

-----------------------------------------------------------------------------
(* The map *)

\* The handlers that had returned have returned, and one that has not begun
\* knows of none.
BeforeReturned ==
  \A g \in Goroutines :
    /\ \A h \in before[g] : pc[h] \in {"done", "lost"}
    /\ pc[g] = "none" => before[g] = {} /\ pos[g] = 1

\* A track in the map was put there by the update it names.
TracksApplied ==
  \A id \in Ids, h \in Goroutines :
    trackMap[id] = h => Applied(h) /\ msg[h].id = id

\* Between its snapshot and its removal a statistic has every unlisted track
\* that was there when it began and is there still among its deleteTrackIds.
GoneCovers ==
  \A g \in Goroutines : At(g, "statistic", "pruning") =>
    /\ gone[g] \cap msg[g].listed = {}
    /\ \A id \in Ids : trackMap[id] \in before[g] /\ id \notin msg[g].listed
         => id \in gone[g]

\* Where the tracks of the map come from.
LEMMA TrackOrigin ==
  ASSUME MInv, [ManagerNext]_managerVars, NEW id \in Ids, NEW h \in Goroutines,
         trackMap'[id] = h
  PROVE  trackMap[id] = h \/ (UpdateTrackToMap(h) /\ msg[h].id = id)
<1> USE DEF MInv, HandlersTypeOK
<1>1. None \notin Goroutines
  BY MessagesAssumption
<1>2. ASSUME NEW g \in Goroutines, UpdateTrackToMap(g)
      PROVE  trackMap[id] = h \/ (g = h /\ msg[h].id = id)
  BY <1>2 DEF UpdateTrackToMap
<1>3. ASSUME NEW g \in Goroutines, RemoveTrackFromMap(g) \/ RemoveTracksFromMap(g)
      PROVE  trackMap[id] = h
  BY <1>1, <1>3 DEF RemoveTrackFromMap, RemoveTracksFromMap
<1>4. ASSUME Die PROVE FALSE
  BY <1>1, <1>4 DEF Die
<1>5. ASSUME \/ \E g \in Goroutines, m \in Messages : Deliver(g, m)
             \/ \E g \in Goroutines :
                  \/ PublishUpdate(g) \/ RecordHistory(g) \/ SendHistory(g)
                  \/ PublishDelete(g) \/ BeginDelete(g) \/ QueryFails(g)
                  \/ DeleteOne(g) \/ EndDelete(g) \/ RemoveReturns(g)
                  \/ CompareTracks(g) \/ PublishAll(g)
             \/ PipelineStep \/ RestartService \/ UNCHANGED managerVars
      PROVE  trackMap' = trackMap
  BY <1>5 DEF Deliver, PublishUpdate, RecordHistory, SendHistory, PublishDelete,
              BeginDelete, QueryFails, DeleteOne, EndDelete, RemoveReturns,
              CompareTracks, PublishAll, PipelineStep, RestartService, managerVars
<1> QED BY <1>2, <1>3, <1>4, <1>5
           DEF ManagerNext, HandlerStep, UpdateStep, RemoveStep, StatisticStep, Panic

\* A step that is no crash moves at most one handler, one that has not returned.
LEMMA OneHandlerMoves ==
  ASSUME MInv, [ManagerNext]_managerVars, ~Die
  PROVE  \/ UNCHANGED handlerVars
         \/ \E g \in Goroutines :
              /\ pc[g] \notin {"done", "lost"}
              /\ pc'[g] \notin {"none", "lost"}
              /\ msg'[g] = msg[g] \/ pc[g] = "none"
              /\ before'[g] = before[g] \/ pc[g] = "none"
              /\ \A h \in Goroutines \ {g} :
                   /\ pc'[h] = pc[h] /\ msg'[h] = msg[h] /\ pos'[h] = pos[h]
                   /\ before'[h] = before[h] /\ gone'[h] = gone[h]
<1> USE DEF MInv, HandlersTypeOK, GoTo, NextId, At, handlerVars
<1> DEFINE Moves(g) ==
      /\ pc[g] \notin {"done", "lost"}
      /\ pc'[g] \notin {"none", "lost"}
      /\ msg'[g] = msg[g] \/ pc[g] = "none"
      /\ before'[g] = before[g] \/ pc[g] = "none"
      /\ \A h \in Goroutines \ {g} :
           /\ pc'[h] = pc[h] /\ msg'[h] = msg[h] /\ pos'[h] = pos[h]
           /\ before'[h] = before[h] /\ gone'[h] = gone[h]
<1>1. ASSUME NEW g \in Goroutines, NEW m \in Messages, Deliver(g, m)
      PROVE  Moves(g)
  BY <1>1 DEF Deliver
<1>2. ASSUME NEW g \in Goroutines, UpdateStep(g)
      PROVE  Moves(g)
  BY <1>2 DEF UpdateStep, PublishUpdate, UpdateTrackToMap, RecordHistory, SendHistory
<1>3. ASSUME NEW g \in Goroutines, RemoveStep(g)
      PROVE  Moves(g)
  BY <1>3 DEF RemoveStep, PublishDelete, RemoveTrackFromMap, BeginDelete,
              QueryFails, DeleteOne, EndDelete, RemoveReturns
<1>4. ASSUME NEW g \in Goroutines, StatisticStep(g)
      PROVE  Moves(g)
  BY <1>4 DEF StatisticStep, CompareTracks, RemoveTracksFromMap, PublishAll
<1>5. ASSUME PipelineStep \/ RestartService \/ UNCHANGED managerVars
      PROVE  UNCHANGED handlerVars
  BY <1>5 DEF PipelineStep, RestartService, managerVars
<1> HIDE DEF Moves
<1>6. UNCHANGED handlerVars \/ \E g \in Goroutines : Moves(g)
  BY <1>1, <1>2, <1>3, <1>4, <1>5 DEF ManagerNext, HandlerStep, Panic
<1> QED BY <1>6 DEF Moves

LEMMA BeforeStep ==
  ASSUME MInv, BeforeReturned, [ManagerNext]_managerVars
  PROVE  BeforeReturned'
<1> USE DEF MInv, HandlersTypeOK, BeforeReturned, handlerVars
<1>1. CASE Die
  <2>1. /\ before' = before /\ pos' = pos
        /\ \A g \in Goroutines : pc'[g] = IF pc[g] = "none" THEN "none" ELSE "lost"
    BY <1>1 DEF Die
  <2> QED BY <2>1
<1>2. CASE \E g \in Goroutines, m \in Messages : Deliver(g, m)
  BY <1>2 DEF Deliver, GoTo
<1>3. CASE ~Die /\ ~\E g \in Goroutines, m \in Messages : Deliver(g, m)
  <2>1. before' = before
    BY <1>3 DEF ManagerNext, HandlerStep, UpdateStep, RemoveStep, StatisticStep,
         Panic, PublishUpdate, UpdateTrackToMap, RecordHistory, SendHistory,
         PublishDelete, RemoveTrackFromMap, BeginDelete, QueryFails, DeleteOne,
         EndDelete, RemoveReturns, CompareTracks, RemoveTracksFromMap, PublishAll,
         PipelineStep, RestartService, managerVars
  <2> QED BY <1>3, <2>1, OneHandlerMoves
<1> QED BY <1>1, <1>2, <1>3

\* An update that has been applied stays applied while the process lives.
LEMMA AppliedStays ==
  ASSUME MInv, [ManagerNext]_managerVars, ~Die,
         NEW h \in Goroutines, Applied(h)
  PROVE  Applied(h)' /\ msg'[h] = msg[h]
<1> USE DEF MInv, HandlersTypeOK, Applied, Is, GoTo, NextId, At, handlerVars
<1>1. ASSUME NEW g \in Goroutines, NEW m \in Messages, Deliver(g, m)
      PROVE  Applied(h)' /\ msg'[h] = msg[h]
  BY <1>1 DEF Deliver
<1>2. ASSUME NEW g \in Goroutines, UpdateStep(g)
      PROVE  Applied(h)' /\ msg'[h] = msg[h]
  BY <1>2 DEF UpdateStep, PublishUpdate, UpdateTrackToMap, RecordHistory, SendHistory
<1>3. ASSUME NEW g \in Goroutines, RemoveStep(g)
      PROVE  Applied(h)' /\ msg'[h] = msg[h]
  BY <1>3 DEF RemoveStep, PublishDelete, RemoveTrackFromMap, BeginDelete,
              QueryFails, DeleteOne, EndDelete, RemoveReturns
<1>4. ASSUME NEW g \in Goroutines, StatisticStep(g)
      PROVE  Applied(h)' /\ msg'[h] = msg[h]
  BY <1>4 DEF StatisticStep, CompareTracks, RemoveTracksFromMap, PublishAll
<1>5. ASSUME PipelineStep \/ RestartService \/ UNCHANGED managerVars
      PROVE  Applied(h)' /\ msg'[h] = msg[h]
  BY <1>5 DEF PipelineStep, RestartService, managerVars
<1> QED BY <1>1, <1>2, <1>3, <1>4, <1>5 DEF ManagerNext, HandlerStep, Panic

LEMMA TracksStep ==
  ASSUME MInv, TracksApplied, [ManagerNext]_managerVars
  PROVE  TracksApplied'
<1>1. CASE Die
  BY <1>1, MessagesAssumption DEF Die, TracksApplied, MInv, HandlersTypeOK
<1>2. CASE ~Die
  <2> SUFFICES ASSUME NEW id \in Ids, NEW h \in Goroutines, trackMap'[id] = h
               PROVE  Applied(h)' /\ msg'[h].id = id
    BY DEF TracksApplied
  <2>1. CASE trackMap[id] = h
    BY <1>2, <2>1, AppliedStays DEF TracksApplied
  <2>2. CASE UpdateTrackToMap(h) /\ msg[h].id = id
    BY <2>2 DEF UpdateTrackToMap, Applied, At, Is, GoTo, MInv, HandlersTypeOK
  <2> QED BY <2>1, <2>2, TrackOrigin
<1> QED BY <1>1, <1>2

\* A message overrules a track once it has changed the map, and for good.
LEMMA OverrulesStays ==
  ASSUME MInv, [ManagerNext]_managerVars, ~Die,
         NEW g \in Goroutines, NEW id \in Ids, Overrules(g, id)
  PROVE  Overrules(g, id)'
<1>1. CASE Applied(g) /\ msg[g].id = id
  BY <1>1, AppliedStays DEF Overrules
<1>2. ASSUME Cleared(g, id) PROVE Cleared(g, id)'
  <2> USE DEF MInv, HandlersTypeOK, GoTo, NextId, At, Is, handlerVars
  <2>1. ASSUME NEW f \in Goroutines, NEW m \in Messages, Deliver(f, m)
        PROVE  Cleared(g, id)'
    BY <1>2, <2>1 DEF Deliver, Cleared
  <2>2. ASSUME NEW f \in Goroutines, UpdateStep(f) \/ StatisticStep(f)
        PROVE  Cleared(g, id)'
    BY <1>2, <2>2 DEF UpdateStep, PublishUpdate, UpdateTrackToMap, RecordHistory,
                 SendHistory, StatisticStep, CompareTracks, RemoveTracksFromMap,
                 PublishAll, Cleared
  <2>3. ASSUME NEW f \in Goroutines, RemoveStep(f)
        PROVE  Cleared(g, id)'
    <3>1. CASE PublishDelete(f) \/ RemoveReturns(f)
      BY <1>2, <3>1 DEF PublishDelete, RemoveReturns, Cleared
    <3>2. CASE RemoveTrackFromMap(f) \/ BeginDelete(f) \/ DeleteOne(f)
      BY <1>2, <3>2 DEF RemoveTrackFromMap, BeginDelete, DeleteOne, Cleared
    <3>3. CASE QueryFails(f) \/ EndDelete(f)
      BY <1>2, <3>3 DEF QueryFails, EndDelete, Cleared
    <3> QED BY <2>3, <3>1, <3>2, <3>3 DEF RemoveStep
  <2>4. ASSUME PipelineStep \/ RestartService \/ UNCHANGED managerVars
        PROVE  Cleared(g, id)'
    BY <1>2, <2>4 DEF PipelineStep, RestartService, managerVars, Cleared
  <2> QED BY <2>1, <2>2, <2>3, <2>4 DEF ManagerNext, HandlerStep, Panic
<1> QED BY <1>1, <1>2 DEF Overrules

\* It comes to overrule a track by a change of the map, or by a statistic that
\* has nothing to remove.
LEMMA OverrulesBegins ==
  ASSUME MInv, BeforeReturned, [ManagerNext]_managerVars,
         NEW g \in Goroutines, NEW id \in Ids, Overrules(g, id)'
  PROVE  \/ Overrules(g, id)
         \/ UpdateTrackToMap(g) /\ msg[g].id = id
         \/ RemoveTrackFromMap(g) /\ Current(g) = id
         \/ RemoveTracksFromMap(g) /\ id \notin msg[g].listed
         \/ CompareTracks(g) /\ gone'[g] = {} /\ id \notin msg[g].listed
<1> USE DEF MInv, HandlersTypeOK, Overrules, Applied, Cleared,
            GoTo, NextId, At, Is, handlerVars
<1>1. ASSUME NEW f \in Goroutines, NEW m \in Messages, Deliver(f, m)
      PROVE  Overrules(g, id)
  <2>1. CASE f # g
    BY <1>1, <2>1 DEF Deliver
  <2>2. CASE f = g
    <3>1. /\ pc[g] = "none" /\ pos[g] = 1 /\ pos' = pos
          /\ pc'[g] \in {"received", "done"} /\ msg'[g] = m
          /\ pc'[g] = "done" => m.kind = "other"
      BY <1>1, <2>2 DEF Deliver, BeforeReturned
    <3>2. ~Overrules(g, id)'
      BY <3>1
    <3> QED BY <3>2
  <2> QED BY <2>1, <2>2
<1>2. ASSUME NEW f \in Goroutines, UpdateStep(f)
      PROVE  Overrules(g, id) \/ (UpdateTrackToMap(g) /\ msg[g].id = id)
  BY <1>2 DEF UpdateStep, PublishUpdate, UpdateTrackToMap, RecordHistory, SendHistory
<1>3. ASSUME NEW f \in Goroutines, StatisticStep(f)
      PROVE  \/ Overrules(g, id)
             \/ RemoveTracksFromMap(g) /\ id \notin msg[g].listed
             \/ CompareTracks(g) /\ gone'[g] = {} /\ id \notin msg[g].listed
  BY <1>3 DEF StatisticStep, CompareTracks, RemoveTracksFromMap, PublishAll
<1>4. ASSUME NEW f \in Goroutines, RemoveStep(f)
      PROVE  Overrules(g, id) \/ (RemoveTrackFromMap(g) /\ Current(g) = id)
  <2>1. CASE PublishDelete(f) \/ BeginDelete(f) \/ DeleteOne(f) \/ RemoveReturns(f)
    BY <2>1 DEF PublishDelete, BeginDelete, DeleteOne, RemoveReturns
  <2>2. CASE RemoveTrackFromMap(f)
    BY <2>2 DEF RemoveTrackFromMap, Current
  <2>3. CASE QueryFails(f) \/ EndDelete(f)
    BY <2>3 DEF QueryFails, EndDelete
  <2> QED BY <1>4, <2>1, <2>2, <2>3 DEF RemoveStep
<1>5. CASE Die
  BY <1>5 DEF Die
<1>6. ASSUME PipelineStep \/ RestartService \/ UNCHANGED managerVars
      PROVE  Overrules(g, id)
  BY <1>6 DEF PipelineStep, RestartService, managerVars
<1> QED BY <1>1, <1>2, <1>3, <1>4, <1>5, <1>6 DEF ManagerNext, HandlerStep, Panic

\* A statistic's deleteTrackIds stay right until it removes them.
LEMMA GoneStep ==
  ASSUME MInv, BeforeReturned, GoneCovers, [ManagerNext]_managerVars
  PROVE  GoneCovers'
<1> SUFFICES ASSUME NEW g \in Goroutines, At(g, "statistic", "pruning")'
             PROVE  /\ gone'[g] \cap msg'[g].listed = {}
                    /\ \A id \in Ids :
                         trackMap'[id] \in before'[g] /\ id \notin msg'[g].listed
                           => id \in gone'[g]
  BY DEF GoneCovers
<1> USE DEF MInv, HandlersTypeOK, At, Is
<1>1. ~Die
  BY DEF Die
<1>2. CASE CompareTracks(g)
  <2>1. /\ gone'[g] = AllTrackIds \ msg[g].listed /\ msg' = msg
        /\ before' = before /\ trackMap' = trackMap
    BY <1>2 DEF CompareTracks, Diff
  <2>2. before[g] \subseteq Goroutines /\ None \notin Goroutines
    BY MessagesAssumption
  <2> QED BY <2>1, <2>2 DEF AllTrackIds
<1>3. CASE ~CompareTracks(g)
  <2> DEFINE Waits == /\ At(g, "statistic", "pruning") /\ gone'[g] = gone[g]
                      /\ msg'[g] = msg[g] /\ before'[g] = before[g]
  <2> USE DEF GoTo, NextId, handlerVars
  <2>1. ASSUME NEW f \in Goroutines, NEW m \in Messages, Deliver(f, m)
        PROVE  Waits
    BY <2>1 DEF Deliver
  <2>2. ASSUME NEW f \in Goroutines, UpdateStep(f) \/ RemoveStep(f)
        PROVE  Waits
    BY <2>2 DEF UpdateStep, PublishUpdate, UpdateTrackToMap, RecordHistory,
                SendHistory, RemoveStep, PublishDelete, RemoveTrackFromMap,
                BeginDelete, QueryFails, DeleteOne, EndDelete, RemoveReturns
  <2>3. ASSUME NEW f \in Goroutines, StatisticStep(f)
        PROVE  Waits
    BY <1>3, <2>3 DEF StatisticStep, CompareTracks, RemoveTracksFromMap, PublishAll
  <2>4. ASSUME PipelineStep \/ RestartService \/ UNCHANGED managerVars
        PROVE  Waits
    BY <2>4 DEF PipelineStep, RestartService, managerVars
  <2>5. Waits
    BY <1>1, <2>1, <2>2, <2>3, <2>4 DEF ManagerNext, HandlerStep, Panic
  <2>6. ASSUME NEW id \in Ids, trackMap'[id] \in before'[g]
        PROVE  trackMap[id] \in before[g]
    <3>1. PICK h \in Goroutines : trackMap'[id] = h /\ h \in before[g]
      BY <2>5, <2>6
    <3>2. pc[h] \in {"done", "lost"}
      BY <3>1 DEF BeforeReturned
    <3>3. ~UpdateTrackToMap(h)
      BY <3>2 DEF UpdateTrackToMap
    <3> QED BY <3>1, <3>3, TrackOrigin
  <2> QED BY <2>5, <2>6 DEF GoneCovers
<1> QED BY <1>2, <1>3

\* No step makes a track in the map stale.
LEMMA StaleStep ==
  ASSUME MInv, BeforeReturned, GoneCovers, NoStaleTrack, [ManagerNext]_managerVars
  PROVE  NoStaleTrack'
<1> SUFFICES ASSUME NEW id \in Ids, NEW g \in Goroutines, NEW h \in Goroutines,
                    trackMap'[id] = h, h \in before'[g], Overrules(g, id)'
             PROVE  FALSE
  BY HandlersTypeStep DEF NoStaleTrack, HandlersTypeOK
<1> USE DEF MInv, HandlersTypeOK
<1>1. ~Die
  BY MessagesAssumption DEF Die
<1>2. pc[g] # "none"
  <2>1. SUFFICES ASSUME pc[g] = "none" PROVE FALSE
    OBVIOUS
  <2>2. ~Overrules(g, id)
    BY <2>1 DEF Overrules, Applied, Cleared
  <2> QED BY <2>1, <2>2, OverrulesBegins
          DEF UpdateTrackToMap, RemoveTrackFromMap, RemoveTracksFromMap,
              CompareTracks, At
<1>3. before'[g] = before[g]
  BY <1>1, <1>2, OneHandlerMoves DEF handlerVars
<1>4. pc[h] \in {"done", "lost"}
  BY <1>3 DEF BeforeReturned
<1>5. trackMap[id] = h
  <2>1. ~UpdateTrackToMap(h)
    BY <1>4 DEF UpdateTrackToMap, At
  <2> QED BY <2>1, TrackOrigin
<1>6. ~Overrules(g, id)
  BY <1>3, <1>5 DEF NoStaleTrack
<1>7. CASE UpdateTrackToMap(g) /\ msg[g].id = id
  <2>1. trackMap'[id] = g /\ pc[g] = "mapping"
    BY <1>7 DEF UpdateTrackToMap, At
  <2> QED BY <1>4, <2>1
<1>8. CASE RemoveTrackFromMap(g) /\ Current(g) = id
  BY <1>8, MessagesAssumption DEF RemoveTrackFromMap
<1>9. CASE RemoveTracksFromMap(g) /\ id \notin msg[g].listed
  <2>1. id \in gone[g]
    BY <1>3, <1>5, <1>9 DEF GoneCovers, RemoveTracksFromMap
  <2> QED BY <1>9, <2>1, MessagesAssumption DEF RemoveTracksFromMap
<1>10. CASE CompareTracks(g) /\ gone'[g] = {} /\ id \notin msg[g].listed
  <2>1. id \in AllTrackIds
    BY <1>5, MessagesAssumption DEF AllTrackIds
  <2>2. gone'[g] = AllTrackIds \ msg[g].listed
    BY <1>10 DEF CompareTracks, Diff
  <2> QED BY <1>10, <2>1, <2>2
<1> QED BY <1>6, <1>7, <1>8, <1>9, <1>10, OverrulesBegins

\* A change of the map that takes a track out overrules it.
LEMMA RemovalOverrules ==
  ASSUME MInv, BeforeReturned, GoneCovers, [ManagerNext]_managerVars, ~Die,
         NEW id \in Ids, NEW h \in Goroutines, Applied(h),
         trackMap[id] = h, trackMap'[id] # h
  PROVE  \E g \in Goroutines \ {h} : g \notin before[h] /\ Overrules(g, id)'
<1> USE DEF MInv, HandlersTypeOK
<1>1. ASSUME NEW g \in Goroutines, UpdateTrackToMap(g)
      PROVE  g # h /\ g \notin before[h] /\ Overrules(g, id)'
  <2>1. msg[g].id = id
    BY <1>1 DEF UpdateTrackToMap
  <2>2. g # h /\ g \notin before[h]
    BY <1>1 DEF UpdateTrackToMap, At, Applied, BeforeReturned
  <2> QED BY <1>1, <2>1, <2>2
          DEF UpdateTrackToMap, Overrules, Applied, At, Is, GoTo
<1>2. ASSUME NEW g \in Goroutines, RemoveTrackFromMap(g)
      PROVE  g # h /\ g \notin before[h] /\ Overrules(g, id)'
  <2>1. Current(g) = id
    BY <1>2 DEF RemoveTrackFromMap
  <2>2. g # h /\ g \notin before[h]
    BY <1>2 DEF RemoveTrackFromMap, At, Applied, BeforeReturned
  <2>3. pos[g] \in 1..Len(msg[g].list)
    BY <1>2 DEF RemoveTrackFromMap, At, CurrentInList
  <2>4. Cleared(g, id)'
    BY <1>2, <2>1, <2>3 DEF RemoveTrackFromMap, Cleared, Current, At, Is, GoTo
  <2> QED BY <2>2, <2>4 DEF Overrules
<1>3. ASSUME NEW g \in Goroutines, RemoveTracksFromMap(g)
      PROVE  g # h /\ g \notin before[h] /\ Overrules(g, id)'
  <2>1. id \in gone[g]
    BY <1>3 DEF RemoveTracksFromMap
  <2>2. id \notin msg[g].listed
    BY <1>3, <2>1 DEF RemoveTracksFromMap, GoneCovers
  <2>3. g # h /\ g \notin before[h]
    BY <1>3 DEF RemoveTracksFromMap, At, Applied, BeforeReturned
  <2> QED BY <1>3, <2>2, <2>3
          DEF RemoveTracksFromMap, Overrules, Cleared, At, Is, GoTo
<1>4. ASSUME \/ \E g \in Goroutines, m \in Messages : Deliver(g, m)
             \/ \E g \in Goroutines :
                  \/ PublishUpdate(g) \/ RecordHistory(g) \/ SendHistory(g)
                  \/ PublishDelete(g) \/ BeginDelete(g) \/ QueryFails(g)
                  \/ DeleteOne(g) \/ EndDelete(g) \/ RemoveReturns(g)
                  \/ CompareTracks(g) \/ PublishAll(g)
             \/ PipelineStep \/ RestartService \/ UNCHANGED managerVars
      PROVE  FALSE
  BY <1>4 DEF Deliver, PublishUpdate, RecordHistory, SendHistory, PublishDelete,
              BeginDelete, QueryFails, DeleteOne, EndDelete, RemoveReturns,
              CompareTracks, PublishAll, PipelineStep, RestartService, managerVars
<1> QED BY <1>1, <1>2, <1>3, <1>4
           DEF ManagerNext, HandlerStep, UpdateStep, RemoveStep, StatisticStep, Panic

\* An update comes to be applied by its change of the map.
LEMMA AppliedBegins ==
  ASSUME MInv, [ManagerNext]_managerVars, NEW h \in Goroutines, Applied(h)'
  PROVE  /\ Applied(h) \/ UpdateTrackToMap(h)
         /\ msg'[h] = msg[h] /\ before'[h] = before[h]
         /\ Is(h, "update")
<1> DEFINE Goal == /\ Applied(h) \/ UpdateTrackToMap(h)
                   /\ msg'[h] = msg[h] /\ before'[h] = before[h]
                   /\ Is(h, "update")
<1> USE DEF MInv, HandlersTypeOK, Applied, GoTo, NextId, At, Is, handlerVars
<1>1. ASSUME NEW f \in Goroutines, NEW m \in Messages, Deliver(f, m)
      PROVE  Goal
  <2>1. CASE f # h
    BY <1>1, <2>1 DEF Deliver
  <2>2. CASE f = h
    <3>1. /\ msg'[h] = m /\ pc'[h] \in {"received", "done"}
          /\ pc'[h] = "done" => m.kind = "other"
      BY <1>1, <2>2 DEF Deliver
    <3> QED BY <3>1
  <2> QED BY <2>1, <2>2
<1>2. ASSUME NEW f \in Goroutines, UpdateStep(f)
      PROVE  Goal
  BY <1>2 DEF UpdateStep, PublishUpdate, UpdateTrackToMap, RecordHistory, SendHistory
<1>3. ASSUME NEW f \in Goroutines, RemoveStep(f)
      PROVE  Goal
  BY <1>3 DEF RemoveStep, PublishDelete, RemoveTrackFromMap, BeginDelete,
              QueryFails, DeleteOne, EndDelete, RemoveReturns
<1>4. ASSUME NEW f \in Goroutines, StatisticStep(f)
      PROVE  Goal
  BY <1>4 DEF StatisticStep, CompareTracks, RemoveTracksFromMap, PublishAll
<1>5. ASSUME Die PROVE Goal
  BY <1>5 DEF Die
<1>6. ASSUME PipelineStep \/ RestartService \/ UNCHANGED managerVars
      PROVE  Goal
  BY <1>6 DEF PipelineStep, RestartService, managerVars
<1> QED BY <1>1, <1>2, <1>3, <1>4, <1>5, <1>6 DEF ManagerNext, HandlerStep, Panic

\* No step loses a track.
LEMMA LostStep ==
  ASSUME MInv, BeforeReturned, GoneCovers, NoLostTrack, [ManagerNext]_managerVars
  PROVE  NoLostTrack'
<1> SUFFICES ASSUME NEW h \in Goroutines, Applied(h)',
                    trackMap'[msg'[h].id] # h
             PROVE  (\E g \in Goroutines \ {h} :
                      g \notin before[h] /\ Overrules(g, msg[h].id))'
  BY DEF NoLostTrack
<1>1. ~Die
  BY DEF Die, Applied, MInv, HandlersTypeOK
<1>2. PICK id \in Ids : id = msg[h].id
  BY AppliedBegins, MessageShape DEF MInv
<1>3. msg'[h].id = id /\ before'[h] = before[h]
  BY <1>2, AppliedBegins
<1>4. Applied(h)
  <2>1. ~UpdateTrackToMap(h)
    BY <1>2, <1>3 DEF UpdateTrackToMap, MInv, HandlersTypeOK
  <2> QED BY <2>1, AppliedBegins
<1>5. \E g \in Goroutines \ {h} : g \notin before[h] /\ Overrules(g, id)'
  <2>1. CASE trackMap[id] = h
    BY <1>1, <1>3, <1>4, <2>1, RemovalOverrules
  <2>2. CASE trackMap[id] # h
    <3>1. PICK g \in Goroutines \ {h} : g \notin before[h] /\ Overrules(g, id)
      BY <1>2, <1>4, <2>2 DEF NoLostTrack
    <3>2. Overrules(g, id)'
      BY <1>1, <3>1, OverrulesStays
    <3> QED BY <3>1, <3>2
  <2> QED BY <2>1, <2>2
<1>6. ASSUME NEW g \in Goroutines, Overrules(g, id)'
      PROVE  (Overrules(g, msg[h].id))'
  BY <1>3, <1>6 DEF Overrules, Cleared
<1> QED BY <1>3, <1>5, <1>6

-----------------------------------------------------------------------------
(* The theorems *)

ManagerIInv == MInv /\ BeforeReturned /\ TracksApplied /\ GoneCovers
                 /\ NoStaleTrack /\ NoLostTrack

\* What the proofs rest on holds in every state of the service.
THEOREM ManagerInvariance == ManagerSpec => []ManagerIInv
<1>1. ManagerInit => ManagerIInv
  <2> SUFFICES ASSUME ManagerInit PROVE ManagerIInv
    OBVIOUS
  <2>1. IInv
    BY InitInvariant DEF ManagerInit
  <2>2. HandlersTypeOK /\ CurrentInList
    <3>1. HandlersTypeOK
      <4>1. missed \in BOOLEAN
        BY DEF ManagerInit
      <4>2. pc \in [Goroutines -> Started \cup {"none", "done", "lost"}]
        BY DEF ManagerInit
      <4>3. msg \in [Goroutines -> Messages \cup {None}]
        BY DEF ManagerInit
      <4>4. pos \in [Goroutines -> Nat \ {0}] /\ gone \in [Goroutines -> SUBSET Ids]
        BY DEF ManagerInit
      <4>5. /\ trackMap \in [Ids -> Goroutines \cup {None}]
            /\ before \in [Goroutines -> SUBSET Goroutines] /\ announced \subseteq Ids
        BY DEF ManagerInit
      <4> QED BY <4>1, <4>2, <4>3, <4>4, <4>5 DEF HandlersTypeOK
    <3>2. CurrentInList
      BY DEF ManagerInit, CurrentInList
    <3> QED BY <3>1, <3>2
  <2>3. CallsMatch
    <3>1. Len(sent) = 0 /\ sending = {} /\ worker = "select"
          /\ \A g \in Goroutines : deleting[g] = None
      BY DEF ManagerInit, HistoryInit
    <3> QED BY <3>1 DEF CallsMatch
  <2>4. BeforeReturned /\ TracksApplied /\ GoneCovers /\ NoStaleTrack /\ NoLostTrack
    BY MessagesAssumption
       DEF ManagerInit, BeforeReturned, TracksApplied, GoneCovers, NoStaleTrack,
           NoLostTrack, Applied, At, Is
  <2> QED BY <2>1, <2>2, <2>3, <2>4 DEF ManagerIInv, MInv
<1>2. ManagerIInv /\ [ManagerNext]_managerVars => ManagerIInv'
  <2> SUFFICES ASSUME ManagerIInv, [ManagerNext]_managerVars PROVE ManagerIInv'
    OBVIOUS
  <2>1. IInv'
    BY PipelineSimulated, StepInvariant DEF ManagerIInv, MInv
  <2>2. HandlersTypeOK' /\ CurrentInList' /\ CallsMatch'
    BY HandlersTypeStep, CurrentStep, CallsStep DEF ManagerIInv
  <2>3. BeforeReturned' /\ TracksApplied' /\ GoneCovers'
    BY BeforeStep, TracksStep, GoneStep DEF ManagerIInv
  <2>4. NoStaleTrack' /\ NoLostTrack'
    BY StaleStep, LostStep DEF ManagerIInv
  <2> QED BY <2>1, <2>2, <2>3, <2>4 DEF ManagerIInv, MInv
<1> QED BY <1>1, <1>2, PTL DEF ManagerSpec

\* The service is well typed.
THEOREM ManagerTypeCorrect == ManagerSpec => []ManagerTypeOK
<1>1. ManagerIInv => ManagerTypeOK
  BY DEF ManagerIInv, MInv, IInv, ManagerTypeOK
<1> QED BY <1>1, ManagerInvariance, PTL

\* A track that a message replaced, removed or failed to list stays overruled,
\* however the handlers interleave and wherever the process crashes.
THEOREM TracksAreNotStale == ManagerSpec => []NoStaleTrack
<1>1. ManagerIInv => NoStaleTrack
  BY DEF ManagerIInv
<1> QED BY <1>1, ManagerInvariance, PTL

\* A track is taken out of the map only by a message that overrules it.
THEOREM TracksAreNotLost == ManagerSpec => []NoLostTrack
<1>1. ManagerIInv => NoLostTrack
  BY DEF ManagerIInv
<1> QED BY <1>1, ManagerInvariance, PTL

\* The service uses the pipeline as it may be used, so that every theorem about
\* HistorySpec is one about the service.
THEOREM ServiceUsesPipeline == ManagerSpec => UsesPipeline
<1>1. ManagerInit => HistoryInit
  BY DEF ManagerInit
<1>2. ManagerIInv /\ [ManagerNext]_managerVars => [HistoryNext]_historyVars
  BY PipelineSimulated DEF ManagerIInv
<1> QED BY <1>1, <1>2, ManagerInvariance, PTL DEF ManagerSpec, HistorySpec, UsesPipeline

-----------------------------------------------------------------------------
(* Subscribers who missed no event agree with trackMap on every track whose *)
(* messages were handled in turn.                                           *)

\* A message that says something of the track, in a process that still runs.
About(g, id) == Concerns(g, id) /\ pc[g] # "lost"

\* The messages about the track have arrived in turn; the last of them may still
\* be on its way.
InTurn(id) ==
  \A g, h \in Goroutines :
    About(g, id) /\ About(h, id) => g = h \/ g \in before[h] \/ h \in before[g]

Agrees(id) == id \in announced <=> trackMap[id] # None

\* The process has acted on a message about the track: one that is handled, or the
\* entries of a removal that its handler g has passed. Before that the track is not
\* in the map, whatever subscribers believe since an earlier process.
Answered(g, id) == Handled(id) \/ Cleared(g, id)

AgreesSoFar(g, id) == IF Answered(g, id) THEN Agrees(id) ELSE trackMap[id] = None

\* What the handler of the last message about the track has done so far, of its
\* publish and its change of the map.
Progress(g, id) ==
  CASE pc[g] = "mapping"                  -> id \in announced
    [] pc[g] \in {"recording", "sending"} -> id \in announced /\ trackMap[id] # None
    [] pc[g] = "unmapping"                -> IF Current(g) = id THEN id \notin announced
                                                                ELSE AgreesSoFar(g, id)
    [] pc[g] = "pruning"     -> trackMap[id] # None => id \in gone[g]
    [] pc[g] = "announcing"  -> trackMap[id] = None
    [] pc[g] \in {"received", "erasing", "deleting"} -> AgreesSoFar(g, id)
    [] OTHER -> TRUE

\* Without messages that are on their way, the two agree about what was handled.
AtRest(id) == IF Handled(id) THEN Agrees(id) ELSE trackMap[id] = None

Agreement ==
  worker # "down" /\ ~missed =>
    \A id \in Ids : InTurn(id) =>
      /\ \A g \in Goroutines : About(g, id) => Progress(g, id)
      /\ (\A g \in Goroutines : About(g, id) => pc[g] = "done") => AtRest(id)

\* A handler is at a position of its own kind of message.
PositionsMatch ==
  \A g \in Goroutines :
    /\ pc[g] \in {"mapping", "recording", "sending"} => Is(g, "update")
    /\ pc[g] \in {"unmapping", "erasing", "deleting"} => Is(g, "remove")
    /\ pc[g] \in {"pruning", "announcing"} => Is(g, "statistic")
    /\ pc[g] = "none" => msg[g] = None /\ pos[g] = 1

\* When the process is down no handler and no track is left of it.
DownIsEmpty ==
  worker = "down" =>
    /\ \A g \in Goroutines : pc[g] \in {"none", "lost"}
    /\ \A id \in Ids : trackMap[id] = None

SInv == ManagerIInv /\ PositionsMatch /\ DownIsEmpty

\* What of SInv the steps of a handler need.
LEMMA HandlerFacts ==
  ASSUME SInv
  PROVE  HandlersTypeOK /\ CurrentInList /\ BeforeReturned /\ GoneCovers /\ TypeOK
BY DEF SInv, ManagerIInv, MInv, IInv

-----------------------------------------------------------------------------
(* Positions, and the process that is down *)

LEMMA PositionsStep ==
  ASSUME SInv, [ManagerNext]_managerVars
  PROVE  PositionsMatch'
<1> USE HandlerFacts DEF SInv, PositionsMatch, HandlersTypeOK, GoTo, NextId, At, Is, handlerVars
<1>1. ASSUME NEW g \in Goroutines, NEW m \in Messages, Deliver(g, m)
      PROVE  PositionsMatch'
  BY <1>1 DEF Deliver
<1>2. ASSUME NEW g \in Goroutines, UpdateStep(g)
      PROVE  PositionsMatch'
  BY <1>2 DEF UpdateStep, PublishUpdate, UpdateTrackToMap, RecordHistory, SendHistory
<1>3. ASSUME NEW g \in Goroutines, RemoveStep(g)
      PROVE  PositionsMatch'
  BY <1>3 DEF RemoveStep, PublishDelete, RemoveTrackFromMap, BeginDelete,
              QueryFails, DeleteOne, EndDelete, RemoveReturns
<1>4. ASSUME NEW g \in Goroutines, StatisticStep(g)
      PROVE  PositionsMatch'
  BY <1>4 DEF StatisticStep, CompareTracks, RemoveTracksFromMap, PublishAll
<1>5. CASE Die
  BY <1>5 DEF Die
<1>6. CASE PipelineStep \/ RestartService \/ UNCHANGED managerVars
  BY <1>6 DEF PipelineStep, RestartService, managerVars
<1> QED BY <1>1, <1>2, <1>3, <1>4, <1>5, <1>6 DEF ManagerNext, HandlerStep, Panic

\* A handler only works in a process that is up, and does not end it.
LEMMA UpToWork ==
  ASSUME SInv, NEW g \in Goroutines, UpdateStep(g) \/ RemoveStep(g) \/ StatisticStep(g)
  PROVE  pc[g] \in Started /\ worker # "down"
<1>1. pc[g] \in Started
  BY DEF UpdateStep, PublishUpdate, UpdateTrackToMap, RecordHistory, SendHistory,
         RemoveStep, PublishDelete, RemoveTrackFromMap, BeginDelete, QueryFails,
         DeleteOne, EndDelete, RemoveReturns,
         StatisticStep, CompareTracks, RemoveTracksFromMap, PublishAll, At, Started
<1> QED  BY <1>1 DEF SInv, DownIsEmpty, Started

LEMMA StaysUp ==
  ASSUME SInv, [ManagerNext]_managerVars, ~Die, ~RestartService
  PROVE  worker' = "down" <=> worker = "down"
<1> USE DEF historyVars, workerVars
<1>1. ASSUME NEW g \in Goroutines, UpdateStep(g) \/ RemoveStep(g) \/ StatisticStep(g)
      PROVE  worker' = worker
  BY <1>1 DEF UpdateStep, PublishUpdate, UpdateTrackToMap, RecordHistory, SendHistory,
         CreateTrackHistory, Send, RemoveStep, PublishDelete, RemoveTrackFromMap, BeginDelete,
         QueryHistory, QueryFails, DeleteOne, DeleteRecord, EndDelete, DeleteDone, DeleteFails,
         ReturnFromDelete, RemoveReturns, StatisticStep, CompareTracks, RemoveTracksFromMap,
         PublishAll
<1>2. ASSUME PipelineStep
      PROVE  worker' = "down" <=> worker = "down"
  BY <1>2 DEF PipelineStep, WorkerStep, Receive, TimerCase, PutBins, FlushDone, FlushFails,
              EndFlush, Flushing, TimerFires, Tick, ApplyLate
<1>3. ASSUME UNCHANGED managerVars \/ \E g \in Goroutines, m \in Messages : Deliver(g, m)
      PROVE  worker' = worker
  BY <1>3 DEF managerVars, Deliver
<1> QED  BY <1>1, <1>2, <1>3 DEF ManagerNext, HandlerStep, Panic

LEMMA DownStep ==
  ASSUME SInv, [ManagerNext]_managerVars
  PROVE  DownIsEmpty'
<1> SUFFICES ASSUME worker' = "down" PROVE DownIsEmpty'
  BY DEF DownIsEmpty
<1>1. CASE Die
  BY <1>1, HandlerFacts DEF Die, DownIsEmpty, HandlersTypeOK
<1>2. CASE RestartService
  BY <1>2 DEF RestartService, Restart
<1>3. CASE ~Die /\ ~RestartService
  <2>1. worker = "down"
    BY <1>3, StaysUp
  <2>2. PipelineStep \/ UNCHANGED managerVars
    BY <1>3, <2>1, UpToWork DEF ManagerNext, HandlerStep, Panic, Deliver
  <2> QED  BY <2>1, <2>2 DEF SInv, DownIsEmpty, PipelineStep, handlerVars, managerVars
<1> QED  BY <1>1, <1>2, <1>3

-----------------------------------------------------------------------------
(* One step of a handler, and one track *)

\* A handler of a message that is not about the track leaves it alone.
LEMMA OthersLeaveIt ==
  ASSUME SInv, NEW g \in Goroutines, NEW id \in Ids, ~Concerns(g, id),
         UpdateStep(g) \/ RemoveStep(g) \/ StatisticStep(g)
  PROVE  trackMap'[id] = trackMap[id] /\ (id \in announced' <=> id \in announced)
<1> USE HandlerFacts DEF HandlersTypeOK, Publish, eventVars
<1>1. CASE UpdateStep(g)
  <2>1. Is(g, "update") /\ msg[g].id # id
    BY <1>1 DEF UpdateStep, PublishUpdate, UpdateTrackToMap, RecordHistory, SendHistory, At,
                Concerns
  <2> QED  BY <1>1, <2>1 DEF UpdateStep, PublishUpdate, UpdateTrackToMap, RecordHistory, SendHistory
<1>2. CASE PublishDelete(g) \/ RemoveTrackFromMap(g)
  <2>1. Is(g, "remove") /\ pos[g] \in 1..Len(msg[g].list)
    <3>1. CASE PublishDelete(g)
      <4>1. Is(g, "remove") /\ pos[g] <= Len(msg[g].list)
        BY <3>1 DEF PublishDelete, At
      <4>2. msg[g].list \in Seq(Ids) /\ pos[g] \in Nat \ {0}
        BY <4>1, MessageShape
      <4> QED  BY <4>1, <4>2
    <3>2. CASE RemoveTrackFromMap(g)
      BY <3>2 DEF RemoveTrackFromMap, At, CurrentInList
    <3> QED  BY <1>2, <3>1, <3>2
  <2>2. msg[g].list \in Seq(Ids)
    BY <2>1, MessageShape
  <2>3. Current(g) # id
    BY <2>1, <2>2 DEF Current, Concerns
  <2> QED  BY <1>2, <2>3 DEF PublishDelete, RemoveTrackFromMap
<1>3. CASE RemoveStep(g) /\ ~PublishDelete(g) /\ ~RemoveTrackFromMap(g)
  BY <1>3 DEF RemoveStep, BeginDelete, QueryFails, DeleteOne, EndDelete, RemoveReturns
<1>4. CASE StatisticStep(g)
  <2>1. Is(g, "statistic")
    BY <1>4 DEF StatisticStep, CompareTracks, RemoveTracksFromMap, PublishAll, At
  <2>2. id \in msg[g].listed
    BY <2>1 DEF Concerns
  <2>3. CASE RemoveTracksFromMap(g)
    BY <2>2, <2>3 DEF RemoveTracksFromMap, GoneCovers
  <2>4. CASE CompareTracks(g) \/ PublishAll(g)
    BY <2>2, <2>4 DEF CompareTracks, PublishAll
  <2> QED  BY <1>4, <2>3, <2>4 DEF StatisticStep
<1> QED  BY <1>1, <1>2, <1>3, <1>4

\* A handler of a message about the track makes progress, and when it returns
\* subscribers and map agree.
LEMMA ProgressStep ==
  ASSUME SInv, NEW g \in Goroutines, NEW id \in Ids, Concerns(g, id), Progress(g, id),
         UpdateStep(g) \/ RemoveStep(g) \/ StatisticStep(g), ~missed',
         pc'[g] # "done" => (Handled(id)' <=> Handled(id))
  PROVE  Progress(g, id)' /\ (pc'[g] = "done" => Agrees(id)')
<1> USE HandlerFacts DEF HandlersTypeOK, Publish, GoTo, NextId, eventVars, handlerVars,
                         Progress, Agrees, At
<1>0. msg' = msg
  BY DEF UpdateStep, PublishUpdate, UpdateTrackToMap, RecordHistory, SendHistory,
         RemoveStep, PublishDelete, RemoveTrackFromMap, BeginDelete, QueryFails,
         DeleteOne, EndDelete, RemoveReturns, StatisticStep, CompareTracks,
         RemoveTracksFromMap, PublishAll
<1>1. CASE UpdateStep(g)
  <2>1. Is(g, "update") /\ msg[g].id = id
    BY <1>1 DEF UpdateStep, PublishUpdate, UpdateTrackToMap, RecordHistory, SendHistory,
                Concerns, Is
  <2>2. CASE PublishUpdate(g)
    BY <2>1, <2>2 DEF PublishUpdate
  <2>3. CASE UpdateTrackToMap(g)
    BY <2>1, <2>3, MessagesAssumption DEF UpdateTrackToMap
  <2>4. CASE RecordHistory(g) \/ SendHistory(g)
    BY <2>4 DEF RecordHistory, SendHistory
  <2> QED  BY <1>1, <2>2, <2>3, <2>4 DEF UpdateStep
<1>2. CASE RemoveStep(g)
  <2>0. /\ Is(g, "remove") /\ msg[g].list \in Seq(Ids) /\ pos[g] \in Nat \ {0}
        /\ \E i \in 1..Len(msg[g].list) : msg[g].list[i] = id
    <3>1. Is(g, "remove")
      BY <1>2 DEF RemoveStep, PublishDelete, RemoveTrackFromMap, BeginDelete, QueryFails,
                  DeleteOne, EndDelete, RemoveReturns
    <3>2. msg[g].list \in Seq(Ids)
      BY <3>1, MessageShape
    <3>3. \E i \in DOMAIN msg[g].list : msg[g].list[i] = id
      BY <3>1 DEF Concerns, Is
    <3>4. pos[g] \in Nat \ {0}
      OBVIOUS
    <3>5. DOMAIN msg[g].list = 1..Len(msg[g].list)
      BY <3>2
    <3> QED  BY <3>1, <3>2, <3>3, <3>4, <3>5
  <2> DEFINE Had(n) == \E i \in 1..Len(msg[g].list) : msg[g].list[i] = id /\ i < n
  <2>8. /\ pc[g] \in {"received", "unmapping"} => (Cleared(g, id) <=> Had(pos[g]))
        /\ pc[g] \in {"erasing", "deleting"} => (Cleared(g, id) <=> Had(pos[g] + 1))
        /\ pc'[g] \in {"received", "unmapping"} => (Cleared(g, id)' <=> Had(pos'[g]))
        /\ pc'[g] \in {"erasing", "deleting"} => (Cleared(g, id)' <=> Had(pos'[g] + 1))
    <3>1. pos'[g] \in Nat
      BY <1>2, <2>0 DEF RemoveStep, PublishDelete, RemoveTrackFromMap, BeginDelete, QueryFails,
                  DeleteOne, EndDelete, RemoveReturns
    <3> QED  BY <1>0, <2>0, <3>1 DEF Cleared, Is
  <2>9. Current(g) = msg[g].list[pos[g]]
    BY DEF Current
  <2>10. /\ Current(g) = id => (pos[g] \in 1..Len(msg[g].list) => Had(pos[g] + 1))
         /\ Current(g) # id => (Had(pos[g] + 1) <=> Had(pos[g]))
         /\ pos[g] > Len(msg[g].list) => Had(pos[g])
    BY <2>0, <2>9
  <2> HIDE DEF Had
  <2> USE DEF AgreesSoFar, Answered
  <2>1. CASE PublishDelete(g)
    BY <1>0, <2>0, <2>1, <2>8, <2>9 DEF PublishDelete, Current
  <2>2. CASE RemoveTrackFromMap(g)
    <3>1. pos[g] \in 1..Len(msg[g].list)
      BY <2>2 DEF RemoveTrackFromMap, CurrentInList
    <3> QED  BY <1>0, <2>0, <2>2, <2>8, <2>10, <3>1 DEF RemoveTrackFromMap
  <2>3. CASE BeginDelete(g) \/ DeleteOne(g)
    BY <1>0, <2>0, <2>3, <2>8 DEF BeginDelete, DeleteOne
  <2>4. CASE QueryFails(g) \/ EndDelete(g)
    BY <1>0, <2>0, <2>4, <2>8 DEF QueryFails, EndDelete
  <2>5. CASE RemoveReturns(g)
    BY <1>0, <2>0, <2>5, <2>8, <2>10 DEF RemoveReturns
  <2> QED  BY <1>2, <2>1, <2>2, <2>3, <2>4, <2>5 DEF RemoveStep
<1>3. CASE StatisticStep(g)
  <2>1. Is(g, "statistic") /\ id \notin msg[g].listed
    BY <1>3 DEF StatisticStep, CompareTracks, RemoveTracksFromMap, PublishAll, Concerns, Is
  <2>2. CASE CompareTracks(g)
    BY <2>1, <2>2 DEF CompareTracks, Diff, AllTrackIds
  <2>3. CASE RemoveTracksFromMap(g)
    BY <2>3 DEF RemoveTracksFromMap
  <2>4. CASE PublishAll(g)
    BY <2>1, <2>4 DEF PublishAll
  <2> QED  BY <1>3, <2>2, <2>3, <2>4 DEF StatisticStep
<1> QED  BY <1>1, <1>2, <1>3

\* Of messages that arrived in turn only one is being handled.
LEMMA OneAtATime ==
  ASSUME BeforeReturned, NEW id \in Ids, InTurn(id),
         NEW g \in Goroutines, NEW h \in Goroutines \ {g},
         About(g, id), About(h, id), pc[g] # "done"
  PROVE  pc[h] = "done"
BY DEF InTurn, BeforeReturned, About

-----------------------------------------------------------------------------
(* Agreement *)

\* A step of a handler: what it is about makes progress, the rest stays.
LEMMA AgreementWork ==
  ASSUME SInv, Agreement, [ManagerNext]_managerVars, ~Die,
         NEW g \in Goroutines, UpdateStep(g) \/ RemoveStep(g) \/ StatisticStep(g),
         ~missed', NEW id \in Ids, InTurn(id)'
  PROVE  /\ \A h \in Goroutines : About(h, id)' => Progress(h, id)'
         /\ (\A h \in Goroutines : About(h, id)' => pc'[h] = "done") => AtRest(id)'
<1> USE HandlerFacts DEF HandlersTypeOK
<1>1. /\ msg' = msg /\ before' = before /\ ~missed
      /\ \A h \in Goroutines \ {g} :
           pc'[h] = pc[h] /\ pos'[h] = pos[h] /\ gone'[h] = gone[h]
  BY DEF UpdateStep, PublishUpdate, UpdateTrackToMap, RecordHistory, SendHistory,
         RemoveStep, PublishDelete, RemoveTrackFromMap, BeginDelete, QueryFails,
         DeleteOne, EndDelete, RemoveReturns, StatisticStep, CompareTracks,
         RemoveTracksFromMap, PublishAll, Publish, GoTo, NextId, eventVars, handlerVars
<1>2. pc[g] \in Started /\ worker # "down" /\ pc'[g] # "lost"
  <2>1. pc'[g] # "lost"
    BY DEF UpdateStep, PublishUpdate, UpdateTrackToMap, RecordHistory, SendHistory,
           RemoveStep, PublishDelete, RemoveTrackFromMap, BeginDelete, QueryFails,
           DeleteOne, EndDelete, RemoveReturns, StatisticStep, CompareTracks,
           RemoveTracksFromMap, PublishAll, GoTo, NextId, handlerVars, At
  <2> QED  BY <2>1, UpToWork
<1>3. \A h \in Goroutines : (Concerns(h, id)' <=> Concerns(h, id))
                              /\ (About(h, id)' <=> About(h, id))
  BY <1>1, <1>2 DEF Concerns, Is, About, Started
<1>4. InTurn(id)
  BY <1>1, <1>3 DEF InTurn
<1>5. /\ \A h \in Goroutines : About(h, id) => Progress(h, id)
      /\ (\A h \in Goroutines : About(h, id) => pc[h] = "done") => AtRest(id)
  BY <1>1, <1>2, <1>4 DEF Agreement
<1>6. CASE Concerns(g, id)
  <2>1. About(g, id) /\ pc[g] # "done"
    BY <1>2, <1>6 DEF About, Started
  <2>4. pc'[g] # "done" => (Handled(id)' <=> Handled(id))
    BY <1>1, <1>3, <2>1 DEF Handled, About
  <2>2. Progress(g, id)' /\ (pc'[g] = "done" => Agrees(id)')
    BY <1>5, <1>6, <2>1, <2>4, ProgressStep
  <2>3. ASSUME NEW h \in Goroutines \ {g}, About(h, id)'
        PROVE  Progress(h, id)'
    <3>1. pc'[h] = "done"
      BY <1>1, <1>3, <1>4, <2>1, <2>3, OneAtATime
    <3> QED  BY <3>1 DEF Progress
  <2>5. (\A h \in Goroutines : About(h, id)' => pc'[h] = "done") => Handled(id)'
    BY <1>3, <2>1 DEF Handled, About
  <2> QED  BY <1>3, <2>1, <2>2, <2>3, <2>5 DEF AtRest
<1>7. CASE ~Concerns(g, id)
  <2>1. trackMap'[id] = trackMap[id] /\ (id \in announced' <=> id \in announced)
    BY <1>7, OthersLeaveIt
  <2>4. Handled(id)' <=> Handled(id)
    BY <1>1, <1>3, <1>7 DEF Handled
  <2>2. (Agrees(id)' <=> Agrees(id)) /\ (AtRest(id)' <=> AtRest(id))
    BY <2>1, <2>4 DEF Agrees, AtRest
  <2>3. ASSUME NEW h \in Goroutines, About(h, id)
        PROVE  h # g /\ pc'[h] = pc[h] /\ (Progress(h, id)' <=> Progress(h, id))
    <3>1. h # g
      BY <1>7, <2>3 DEF About
    <3>2. Current(h)' = Current(h) /\ (Cleared(h, id)' <=> Cleared(h, id))
      BY <1>1, <3>1 DEF Current, Cleared, Is
    <3>3. AgreesSoFar(h, id)' <=> AgreesSoFar(h, id)
      BY <2>1, <2>2, <2>4, <3>2 DEF AgreesSoFar, Answered
    <3> QED  BY <1>1, <2>1, <2>2, <3>1, <3>2, <3>3 DEF Progress
  <2> QED  BY <1>3, <1>5, <2>2, <2>3
<1> QED  BY <1>6, <1>7

\* A message that arrives in turn finds subscribers and map in agreement.
LEMMA AgreementDeliver ==
  ASSUME SInv, Agreement, NEW g \in Goroutines, NEW m \in Messages, Deliver(g, m),
         ~missed', NEW id \in Ids, InTurn(id)'
  PROVE  /\ \A h \in Goroutines : About(h, id)' => Progress(h, id)'
         /\ (\A h \in Goroutines : About(h, id)' => pc'[h] = "done") => AtRest(id)'
<1> USE HandlerFacts DEF HandlersTypeOK
<1>1. /\ worker # "down" /\ pc[g] = "none" /\ UNCHANGED <<pos, gone, trackMap, announced, missed>>
      /\ msg'[g] = m /\ pc'[g] = (IF m.kind = "other" THEN "done" ELSE "received")
      /\ before'[g] = {h \in Goroutines : pc[h] = "done"}
      /\ \A h \in Goroutines \ {g} :
           pc'[h] = pc[h] /\ msg'[h] = msg[h] /\ before'[h] = before[h]
  BY DEF Deliver, GoTo, eventVars
<1>2. ~About(g, id)
  BY <1>1 DEF About, Concerns, Is, SInv, PositionsMatch
<1>3. \A h \in Goroutines \ {g} : About(h, id)' <=> About(h, id)
  BY <1>1 DEF About, Concerns, Is
<1>4. InTurn(id)
  BY <1>1, <1>2, <1>3 DEF InTurn
<1>5. /\ \A h \in Goroutines : About(h, id) => Progress(h, id)
      /\ (\A h \in Goroutines : About(h, id) => pc[h] = "done") => AtRest(id)
  BY <1>1, <1>4 DEF Agreement
<1>9. (Handled(id)' <=> Handled(id)) /\ (AtRest(id)' <=> AtRest(id))
  <2>1. Handled(id)' <=> Handled(id)
    <3>1. ~(Concerns(g, id)' /\ pc'[g] = "done")
      BY <1>1 DEF Concerns, Is
    <3>2. \A h \in Goroutines \ {g} : Concerns(h, id)' <=> Concerns(h, id)
      BY <1>1 DEF Concerns, Is
    <3> QED  BY <1>1, <3>1, <3>2 DEF Handled
  <2> QED  BY <1>1, <2>1 DEF AtRest, Agrees
<1>6. ASSUME NEW h \in Goroutines, About(h, id)
      PROVE  h # g /\ (Progress(h, id)' <=> Progress(h, id))
  <2>1. h # g
    BY <1>2, <1>6
  <2>2. Current(h)' = Current(h) /\ (Cleared(h, id)' <=> Cleared(h, id))
    BY <1>1, <2>1 DEF Current, Cleared, Is
  <2> QED  BY <1>1, <1>9, <2>1, <2>2 DEF Progress, Agrees, AgreesSoFar, Answered
<1>7. CASE About(g, id)'
  <2>1. pc'[g] = "received"
    BY <1>1, <1>7 DEF About, Concerns, Is
  <2>2. ASSUME NEW h \in Goroutines, About(h, id)
        PROVE  pc[h] = "done"
    <3>1. h # g /\ About(h, id)'
      BY <1>3, <1>6, <2>2
    <3>2. g \in before[h] \/ h \in before'[g]
      BY <1>1, <1>7, <3>1 DEF InTurn
    <3> QED  BY <1>1, <3>2 DEF BeforeReturned
  <2>3. AtRest(id)'
    BY <1>5, <1>9, <2>2
  <2>4. ~Cleared(g, id)'
    <3>1. pos'[g] = 1
      BY <1>1 DEF SInv, PositionsMatch
    <3>2. msg'[g].kind = "remove" => msg'[g].list \in Seq(Ids)
      BY <1>1, MessagesAssumption DEF Update, Remove, Statistic, Other
    <3> QED  BY <2>1, <3>1, <3>2 DEF Cleared, Is
  <2>5. Progress(g, id)'
    BY <2>1, <2>3, <2>4 DEF Progress, AgreesSoFar, Answered, AtRest
  <2>6. ASSUME NEW h \in Goroutines, About(h, id)' PROVE Progress(h, id)'
    BY <1>3, <1>5, <1>6, <2>5, <2>6
  <2>7. ~(\A h \in Goroutines : About(h, id)' => pc'[h] = "done")
    BY <1>7, <2>1
  <2> QED  BY <2>6, <2>7
<1>8. CASE ~About(g, id)'
  BY <1>1, <1>2, <1>3, <1>5, <1>6, <1>8, <1>9
<1> QED  BY <1>7, <1>8

LEMMA AgreementStep ==
  ASSUME SInv, Agreement, [ManagerNext]_managerVars
  PROVE  Agreement'
<1> SUFFICES ASSUME worker' # "down", ~missed', NEW id \in Ids, InTurn(id)'
             PROVE  /\ \A h \in Goroutines : About(h, id)' => Progress(h, id)'
                    /\ (\A h \in Goroutines : About(h, id)' => pc'[h] = "done")
                         => AtRest(id)'
  BY DEF Agreement
<1>1. ~Die
  BY DEF Die, Crash
<1>2. CASE RestartService
  <2>1. /\ \A h \in Goroutines : pc[h] \in {"none", "lost"}
        /\ UNCHANGED <<handlerVars, trackMap>>
    BY <1>2 DEF RestartService, Restart, SInv, DownIsEmpty
  <2>2. \A h \in Goroutines : ~About(h, id)'
    BY <2>1 DEF About, Concerns, Is, SInv, PositionsMatch, handlerVars
  <2>3. trackMap[id] = None
    BY <1>2 DEF RestartService, Restart, SInv, DownIsEmpty
  <2>4. ~Handled(id)'
    BY <2>1, <2>2 DEF Handled, About, handlerVars
  <2> QED  BY <2>1, <2>2, <2>3, <2>4 DEF AtRest
<1>3. CASE ~RestartService /\ (PipelineStep \/ UNCHANGED managerVars)
  <2>1. UNCHANGED <<handlerVars, trackMap, eventVars>>
    BY <1>3 DEF PipelineStep, managerVars
  <2>2. worker # "down"
    BY <1>1, <1>3, StaysUp
  <2>3. InTurn(id)
    BY <2>1 DEF InTurn, About, Concerns, Is, handlerVars
  <2> QED  BY <2>1, <2>2, <2>3
           DEF Agreement, About, Concerns, Is, Progress, Current, Agrees, AgreesSoFar, AtRest,
               Answered, Handled, Cleared, handlerVars, eventVars
<1>4. ASSUME NEW g \in Goroutines, UpdateStep(g) \/ RemoveStep(g) \/ StatisticStep(g)
      PROVE  /\ \A h \in Goroutines : About(h, id)' => Progress(h, id)'
             /\ (\A h \in Goroutines : About(h, id)' => pc'[h] = "done") => AtRest(id)'
  BY <1>1, <1>4, AgreementWork
<1>5. ASSUME NEW g \in Goroutines, NEW m \in Messages, Deliver(g, m)
      PROVE  /\ \A h \in Goroutines : About(h, id)' => Progress(h, id)'
             /\ (\A h \in Goroutines : About(h, id)' => pc'[h] = "done") => AtRest(id)'
  BY <1>5, AgreementDeliver
<1> QED  BY <1>1, <1>2, <1>3, <1>4, <1>5 DEF ManagerNext, HandlerStep, Panic

-----------------------------------------------------------------------------
\* The strengthened invariant holds in every state of the service.
THEOREM SubscriberInvariance == ManagerSpec => [](SInv /\ Agreement)
<1>1. ManagerInit => PositionsMatch /\ DownIsEmpty /\ Agreement
  <2> SUFFICES ASSUME ManagerInit PROVE PositionsMatch /\ DownIsEmpty /\ Agreement
    OBVIOUS
  <2>1. \A g \in Goroutines : pc[g] = "none" /\ msg[g] = None
    BY DEF ManagerInit
  <2>2. \A id \in Ids : trackMap[id] = None /\ id \notin announced
    BY DEF ManagerInit
  <2>3. PositionsMatch /\ DownIsEmpty
    BY <2>1, <2>2 DEF PositionsMatch, DownIsEmpty, ManagerInit
  <2>4. Agreement
    BY <2>1, <2>2 DEF Agreement, About, Concerns, Is, AtRest, Handled
  <2> QED  BY <2>3, <2>4
<1>2. ManagerIInv /\ ManagerIInv' /\ PositionsMatch /\ DownIsEmpty /\ Agreement
        /\ [ManagerNext]_managerVars => PositionsMatch' /\ DownIsEmpty' /\ Agreement'
  BY PositionsStep, DownStep, AgreementStep DEF SInv
<1> QED  BY <1>1, <1>2, ManagerInvariance, PTL DEF ManagerSpec, SInv

\* Subscribers who missed no event agree with the map about every track whose
\* messages were handled in turn, one of them by the running process, while any
\* other messages overlap; of other tracks the map has none.
THEOREM SubscribersAgree == ManagerSpec => []AgreesWithSubscribers
<1>1. Agreement => AgreesWithSubscribers
  <2> SUFFICES ASSUME Agreement, worker # "down", ~missed, NEW id \in Ids, HandledInTurn(id)
               PROVE  id \in AllTrackIds <=> id \in announced /\ Handled(id)
    BY DEF AgreesWithSubscribers
  <2>1. InTurn(id) /\ \A g \in Goroutines : About(g, id) => pc[g] = "done"
    BY DEF HandledInTurn, InTurn, About
  <2>2. AtRest(id)
    BY <2>1 DEF Agreement
  <2> QED  BY <2>2 DEF AtRest, Agrees, AllTrackIds
<1> QED  BY <1>1, SubscriberInvariance, PTL
-----------------------------------------------------------------------------
(* No handler waits for ever on the others: the part of HandlersReturn that *)
(* does not need fairness.                                                  *)

\* What a handler waits for is there: it has a message of a kind it handles, its
\* record is at the channel, its scan has begun.
CallsHeld ==
  \A g \in Goroutines :
    /\ pc[g] = "received" => Is(g, "update") \/ Is(g, "remove") \/ Is(g, "statistic")
    /\ pc[g] = "sending" => \E r \in sending : r.by = g
    /\ pc[g] = "deleting" => deleting[g] # None

\* The guards of the handler's steps, and of the worker's.
HandlerCanGoOn(g) ==
  \/ \E label \in {"received", "mapping", "recording"} : At(g, "update", label)
  \/ /\ At(g, "update", "sending")
     /\ \E r \in sending : r.by = g
     /\ Len(historyCh) < QueueCap
  \/ \E label \in {"received", "unmapping", "erasing"} : At(g, "remove", label)
  \/ At(g, "remove", "deleting") /\ deleting[g] # None
  \/ \E label \in {"received", "pruning", "announcing"} : At(g, "statistic", label)

WorkerCanGoOn ==
  \/ worker = "select" /\ historyCh # <<>>
  \/ Flushing /\ written <= Len(batch)

\* A handler that is under way can go on, or it waits at a full historyCh, and then
\* the worker can go on. No handler waits for a lock, an answer or a scan of
\* another one, and the worker waits for none.
NobodyIsStuck ==
  \A g \in Goroutines :
    pc[g] \in Started =>
      HandlerCanGoOn(g) \/ (At(g, "update", "sending") /\ WorkerCanGoOn)

LEMMA CallsHeldStep ==
  ASSUME MInv, CallsHeld, [ManagerNext]_managerVars
  PROVE  CallsHeld'
<1> USE DEF MInv, IInv, TypeOK, HandlersTypeOK, GoTo, NextId, handlerVars, eventVars
<1> SUFFICES ASSUME NEW h \in Goroutines
             PROVE  /\ pc'[h] = "received" =>
                         Is(h, "update")' \/ Is(h, "remove")' \/ Is(h, "statistic")'
                    /\ pc'[h] = "sending" => \E r \in sending' : r.by = h
                    /\ pc'[h] = "deleting" => deleting'[h] # None
  BY DEF CallsHeld
<1>1. ASSUME NEW g \in Goroutines, NEW m \in Messages, Deliver(g, m)
      PROVE  /\ pc'[h] = "received" =>
                  Is(h, "update")' \/ Is(h, "remove")' \/ Is(h, "statistic")'
             /\ pc'[h] = "sending" => \E r \in sending' : r.by = h
             /\ pc'[h] = "deleting" => deleting'[h] # None
  <2>1. UNCHANGED <<sending, deleting>>
    BY <1>1 DEF Deliver, historyVars, queueVars, deleteVars
  <2>2. CASE h = g
    <3>1. m \in Update \cup Remove \cup Statistic \cup Other /\ m # None
      BY MessagesAssumption
    <3>2. m.kind \in {"update", "remove", "statistic", "other"}
      BY <3>1 DEF Update, Remove, Statistic, Other
    <3>3. msg'[h] = m /\ pc'[h] = IF m.kind = "other" THEN "done" ELSE "received"
      BY <1>1, <2>2 DEF Deliver
    <3> QED BY <3>1, <3>2, <3>3 DEF Is
  <2>3. CASE h # g
    BY <1>1, <2>1, <2>3 DEF Deliver, CallsHeld, Is
  <2> QED BY <2>2, <2>3
<1>2. ASSUME UNCHANGED msg,
             \/ pc'[h] = pc[h] /\ UNCHANGED <<sending, deleting>>
             \/ pc'[h] \notin {"received", "sending", "deleting"}
             \/ pc'[h] = "received" /\ Is(h, "remove")
             \/ pc'[h] = pc[h] /\ sending \subseteq sending' /\ UNCHANGED deleting
             \/ /\ pc'[h] = pc[h] /\ UNCHANGED sending
                /\ deleting'[h] = deleting[h]
             \/ pc'[h] = "sending" /\ \E r \in sending' : r.by = h
             \/ pc'[h] = "deleting" /\ deleting'[h] # None
      PROVE  /\ pc'[h] = "received" =>
                  Is(h, "update")' \/ Is(h, "remove")' \/ Is(h, "statistic")'
             /\ pc'[h] = "sending" => \E r \in sending' : r.by = h
             /\ pc'[h] = "deleting" => deleting'[h] # None
  BY <1>2 DEF CallsHeld, Is
<1>3. ASSUME NEW g \in Goroutines,
             \/ PublishUpdate(g) \/ UpdateTrackToMap(g) \/ PublishDelete(g)
             \/ RemoveTrackFromMap(g) \/ QueryFails(g) \/ RemoveReturns(g)
             \/ StatisticStep(g)
      PROVE  /\ UNCHANGED msg
             /\ \/ pc'[h] = pc[h] /\ UNCHANGED <<sending, deleting>>
                \/ pc'[h] \notin {"received", "sending", "deleting"}
                \/ pc'[h] = "received" /\ Is(h, "remove")
  <2>1. UNCHANGED <<msg, sending, deleting>>
    BY <1>3 DEF PublishUpdate, UpdateTrackToMap, PublishDelete, RemoveTrackFromMap, QueryFails,
                RemoveReturns, StatisticStep, CompareTracks, RemoveTracksFromMap, PublishAll,
                historyVars, queueVars, deleteVars
  <2>2. CASE QueryFails(g)
    BY <2>1, <2>2 DEF QueryFails, At
  <2>3. CASE ~QueryFails(g)
    <3>1. \E label \in {"mapping", "recording", "unmapping", "erasing", "done", "announcing",
                        "pruning"} :
            pc' = [pc EXCEPT ![g] = label]
      BY <1>3, <2>3 DEF PublishUpdate, UpdateTrackToMap, PublishDelete, RemoveTrackFromMap,
                        RemoveReturns, StatisticStep, CompareTracks, RemoveTracksFromMap,
                        PublishAll
    <3> QED BY <2>1, <3>1
  <2> QED BY <2>2, <2>3
<1>4. ASSUME NEW g \in Goroutines, RecordHistory(g)
      PROVE  /\ UNCHANGED msg
             /\ \/ pc'[h] = pc[h] /\ sending \subseteq sending' /\ UNCHANGED deleting
                \/ pc'[h] = "sending" /\ \E r \in sending' : r.by = h
  <2>1. /\ UNCHANGED <<msg, deleting>> /\ pc' = [pc EXCEPT ![g] = "sending"]
        /\ sending' = sending \cup {[id |-> msg[g].id, at |-> now, by |-> g]}
    BY <1>4 DEF RecordHistory, CreateTrackHistory, deleteVars
  <2>2. \E r \in sending' : r.by = g
    <3> DEFINE r == [id |-> msg[g].id, at |-> now, by |-> g]
    <3>1. r \in sending' /\ r.by = g
      BY <2>1
    <3> HIDE DEF r
    <3> QED BY <3>1
  <2> QED BY <2>1, <2>2
<1>5. ASSUME NEW g \in Goroutines, SendHistory(g)
      PROVE  /\ pc'[h] = "received" =>
                  Is(h, "update")' \/ Is(h, "remove")' \/ Is(h, "statistic")'
             /\ pc'[h] = "sending" => \E r \in sending' : r.by = h
             /\ pc'[h] = "deleting" => deleting'[h] # None
  <2>1. PICK r \in sending : r.by = g /\ sending' = sending \ {r}
    BY <1>5 DEF SendHistory, Send
  <2>2. UNCHANGED <<msg, deleting>> /\ pc' = [pc EXCEPT ![g] = "done"]
    BY <1>5 DEF SendHistory, Send, deleteVars
  <2>3. CASE h = g
    BY <2>2, <2>3
  <2>4. CASE h # g
    BY <2>1, <2>2, <2>4 DEF CallsHeld, Is
  <2> QED BY <2>3, <2>4
<1>6. ASSUME NEW g \in Goroutines, BeginDelete(g)
      PROVE  /\ UNCHANGED msg
             /\ \/ pc'[h] = pc[h] /\ UNCHANGED sending /\ deleting'[h] = deleting[h]
                \/ pc'[h] = "deleting" /\ deleting'[h] # None
  <2>1. Current(g) \in Ids /\ Current(g) # None
    BY <1>6, CurrentIsId, PipelineConfig DEF BeginDelete, At
  <2> QED BY <1>6, <2>1 DEF BeginDelete, QueryHistory, At, queueVars
<1>7. ASSUME NEW g \in Goroutines, DeleteOne(g) \/ EndDelete(g)
      PROVE  /\ UNCHANGED msg
             /\ \/ pc'[h] = pc[h] /\ UNCHANGED sending /\ deleting'[h] = deleting[h]
                \/ pc'[h] = "received" /\ Is(h, "remove")
  <2>1. CASE DeleteOne(g)
    BY <2>1 DEF DeleteOne, DeleteRecord, queueVars
  <2>2. CASE EndDelete(g)
    BY <2>2 DEF EndDelete, DeleteDone, DeleteFails, ReturnFromDelete, At, queueVars
  <2> QED BY <1>7, <2>1, <2>2
<1>8. ASSUME Die \/ \E g \in Goroutines : Panic(g)
      PROVE  UNCHANGED msg /\ pc'[h] \notin {"received", "sending", "deleting"}
  BY <1>8 DEF Panic, Die
<1>9. ASSUME RestartService \/ PipelineStep \/ UNCHANGED managerVars
      PROVE  UNCHANGED <<msg, pc, sending, deleting>>
  BY <1>9 DEF RestartService, PipelineStep, Restart, WorkerStep, Receive, TimerCase, PutBins,
              FlushDone, FlushFails, EndFlush, TimerFires, Tick, ApplyLate, managerVars, historyVars,
              queueVars, deleteVars
<1> QED BY <1>1, <1>2, <1>3, <1>4, <1>5, <1>6, <1>7, <1>8, <1>9
           DEF ManagerNext, HandlerStep, UpdateStep, RemoveStep

\* The handlers and the worker never deadlock, for every set of messages, every
\* number of handlers at a time and every capacity of the channel.
THEOREM HandlersNeverStuck == ManagerSpec => []NobodyIsStuck
<1>1. ManagerInit => CallsHeld
  BY DEF ManagerInit, CallsHeld
<1>2. ManagerIInv /\ CallsHeld /\ [ManagerNext]_managerVars => CallsHeld'
  BY CallsHeldStep DEF ManagerIInv
<1>3. SInv /\ CallsHeld => NobodyIsStuck
  <2> SUFFICES ASSUME SInv, CallsHeld, NEW g \in Goroutines, pc[g] \in Started
               PROVE  HandlerCanGoOn(g) \/ (At(g, "update", "sending") /\ WorkerCanGoOn)
    BY DEF NobodyIsStuck
  <2> USE DEF SInv, ManagerIInv, MInv, IInv
  <2>1. CASE pc[g] = "sending"
    <3>1. At(g, "update", "sending") /\ \E r \in sending : r.by = g
      BY <2>1 DEF PositionsMatch, CallsHeld, At
    <3>2. CASE Len(historyCh) < QueueCap
      BY <3>1, <3>2 DEF HandlerCanGoOn
    <3>3. CASE Len(historyCh) = QueueCap
      <4>1. historyCh # <<>>
        BY <3>3, PipelineConfig
      <4>2. worker \in {"select", "full", "aged"} /\ written <= Len(batch)
        BY DEF CallsMatch, TypeOK
      <4> QED BY <3>1, <4>1, <4>2 DEF WorkerCanGoOn, Flushing
    <3>4. Len(historyCh) <= QueueCap /\ Len(historyCh) \in Nat
      BY DEF TypeOK
    <3> QED BY <3>2, <3>3, <3>4, PipelineConfig
  <2>2. CASE pc[g] = "deleting"
    BY <2>2 DEF PositionsMatch, CallsHeld, At, HandlerCanGoOn
  <2>3. CASE pc[g] = "received"
    BY <2>3 DEF CallsHeld, At, HandlerCanGoOn
  <2>4. CASE pc[g] \in Started \ {"sending", "deleting", "received"}
    BY <2>4 DEF PositionsMatch, At, HandlerCanGoOn, Started
  <2> QED BY <2>1, <2>2, <2>3, <2>4
<1>4. ManagerSpec => []CallsHeld
  BY <1>1, <1>2, ManagerInvariance, PTL DEF ManagerSpec
<1> QED BY <1>3, <1>4, SubscriberInvariance, PTL

\* What is proved of the pipeline holds in the service: the composition implements
\* HistorySpec.
THEOREM ServiceInherits ==
  ManagerSpec => /\ []InFlightInOrder /\ []WrittenOnce /\ []ScanCovers /\ []TimerLive
                 /\ LeavesByItsKey /\ SettledForGood /\ ImplementsLog
BY ServiceUsesPipeline, InFlight, AtMostOneWrite, ScansCover, TimerIsLive, LeavesOnlyByKey,
   NoneComesBack, Refinement, PTL DEF UsesPipeline
=============================================================================
