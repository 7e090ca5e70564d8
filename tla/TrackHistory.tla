---------------------------- MODULE TrackHistory ----------------------------
(***************************************************************************)
(* The history pipeline of MainService (internal/service/track_history.go):*)
(* handler goroutines push history records into the buffered channel       *)
(* historyCh, one worker goroutine (ProcessBatchHistory) collects them in  *)
(* a batch and writes the batch to Aerospike when it is full or old, and   *)
(* DeleteTrackHistory scans the store and deletes a track's records.       *)
(*                                                                         *)
(* A record is abstracted to what its key and its author distinguish: the  *)
(* track, the millisecond it was created in and the goroutine that made it.*)
(***************************************************************************)
EXTENDS Naturals, Sequences, FiniteSets

CONSTANTS
  Ids,         \* track ids
  Goroutines,  \* handler goroutines, one per NATS message
  QueueCap,    \* capacity of historyCh (10000 in New)
  BatchSize,   \* History_Batch_Size of the configuration; 0 if absent
  MaxTime,     \* bound on the millisecond clock
  MaxLate,     \* bound on the timed out commands the server has still to apply
  None         \* no DeleteTrackHistory call

Time == 0..MaxTime

\* dbmodel.TrackHistory, and the author of the record.
Record == [id : Ids, at : Time, by : Goroutines]

\* historyRecordKey: the primary key is "track_id:created_at".
Key == [id : Ids, at : Time]

ASSUME PipelineConfig ==
  /\ QueueCap \in Nat \ {0}
  /\ BatchSize \in Nat
  /\ MaxTime \in Nat
  /\ MaxLate \in Nat
  /\ None \notin Ids

VARIABLES
  now,        \* time.Now().UnixMilli()
  sending,    \* records whose goroutine is at the send into historyCh
  historyCh,  \* the channel's buffer
  batch,      \* ProcessBatchHistory's local batch
  written,    \* items of the batch InsertBatchTrackHistory has written
  worker,     \* where ProcessBatchHistory is: "select", in a flush because the
              \* batch is "full" or has "aged", or "down" after a crash
  timer,      \* its timer: "armed", "fired" (tick not received) or "idle"
  deleting,   \* the track a goroutine's DeleteTrackHistory call is about
  todo,       \* created_at of the records the call's scan has still to yield
  db,         \* the records of the Aerospike set
  late,       \* writes and deletes that timed out and the server may still apply
  sent,       \* history: every record ever accepted by historyCh, in order
  found       \* history: the records the store held when a call's scan began

queueVars  == <<sending, historyCh, sent>>
workerVars == <<batch, written, worker, timer>>
deleteVars == <<deleting, todo, found>>
storeVars  == <<db, late>>
historyVars == <<now, queueVars, workerVars, deleteVars, storeVars>>

TypeOK ==
  /\ now \in Time
  /\ sending \subseteq Record
  /\ historyCh \in Seq(Record) /\ Len(historyCh) <= QueueCap
  /\ batch \in Seq(Record)
  /\ written \in 0..Len(batch)
  /\ worker \in {"select", "full", "aged", "down"}
  /\ timer \in {"armed", "fired", "idle"}
  /\ deleting \in [Goroutines -> Ids \cup {None}]
  /\ todo \in [Goroutines -> SUBSET Time]
  /\ db \subseteq Record
  /\ late \subseteq Record \cup Key
  /\ sent \in Seq(Record)
  /\ found \in [Goroutines -> SUBSET Record]

HistoryInit ==
  /\ now = 0
  /\ sending = {} /\ historyCh = <<>> /\ sent = <<>>
  /\ batch = <<>> /\ written = 0 /\ worker = "select" /\ timer = "armed"
  /\ deleting = [g \in Goroutines |-> None]
  /\ todo = [g \in Goroutines |-> {}]
  /\ found = [g \in Goroutines |-> {}]
  /\ db = {} /\ late = {}

-----------------------------------------------------------------------------
(* The store *)

SameKey(r, s) == r.id = s.id /\ r.at = s.at

\* Mutants of Put: the key is not unique; the key is the track alone.
PutAppends(store, r) == store \cup {r}
PutByTrack(store, r) == {s \in store : s.id # r.id} \cup {r}

\* PutBins replaces the record under the same key.
Put(store, r) == {s \in store : ~SameKey(s, r)} \cup {r}

\* queryTrackHistoryByTrackID: the records the secondary index has for a track.
OfTrack(store, id) == {r \in store : r.id = id}

Erase(store, id, t) == {r \in store : ~(r.id = id /\ r.at = t)}

\* A command that timed out has reached the server, which may still apply it.
IsLate(command) ==
  /\ Cardinality(late) < MaxLate
  /\ late' = late \cup {command}

-----------------------------------------------------------------------------
(* Handler goroutines *)

\* CreateTrackHistory up to the send: the record is stamped before the
\* goroutine reaches the channel, which may make it wait.
CreateTrackHistory(g, id) ==
  /\ sending' = sending \cup {[id |-> id, at |-> now, by |-> g]}
  /\ UNCHANGED <<now, historyCh, sent, workerVars, deleteVars, storeVars>>

\* Mutant of Send: the channel has no bound.
SendUnbounded(r) ==
  /\ r \in sending
  /\ historyCh' = Append(historyCh, r)
  /\ sent' = Append(sent, r)
  /\ sending' = sending \ {r}
  /\ UNCHANGED <<now, workerVars, deleteVars, storeVars>>

\* s.historyCh <- trackHistoryObj
Send(r) ==
  /\ r \in sending
  /\ Len(historyCh) < QueueCap
  /\ historyCh' = Append(historyCh, r)
  /\ sent' = Append(sent, r)
  /\ sending' = sending \ {r}
  /\ UNCHANGED <<now, workerVars, deleteVars, storeVars>>

\* DeleteTrackHistory: the query succeeds and its scan begins.
QueryHistory(g, id) ==
  /\ deleting' = [deleting EXCEPT ![g] = id]
  /\ todo' = [todo EXCEPT ![g] = {r.at : r \in OfTrack(db, id)}]
  /\ found' = [found EXCEPT ![g] = OfTrack(db, id)]
  /\ UNCHANGED <<now, queueVars, workerVars, storeVars>>

\* The scan yields a record and the call deletes it (a record that is gone
\* already is no error). A record written since the scan began may be yielded.
DeleteRecord(g) ==
  /\ deleting[g] # None
  /\ \E t \in todo[g] \cup {r.at : r \in OfTrack(db, deleting[g])} :
       /\ db' = Erase(db, deleting[g], t)
       /\ todo' = [todo EXCEPT ![g] = @ \ {t}]
  /\ UNCHANGED <<now, queueVars, workerVars, deleting, found, late>>

ReturnFromDelete(g) ==
  /\ deleting' = [deleting EXCEPT ![g] = None]
  /\ todo' = [todo EXCEPT ![g] = {}]
  /\ found' = [found EXCEPT ![g] = {}]
  /\ UNCHANGED <<now, queueVars, workerVars>>

\* The scan is exhausted: the call returns nil.
DeleteDone(g) ==
  /\ deleting[g] # None /\ todo[g] = {}
  /\ ReturnFromDelete(g)
  /\ UNCHANGED storeVars

\* The scan or a delete fails and the call returns at once; a delete that
\* timed out may still be applied.
DeleteFails(g) ==
  /\ deleting[g] # None
  /\ \/ UNCHANGED late
     \/ \E t \in todo[g] \cup {r.at : r \in OfTrack(db, deleting[g])} :
          IsLate([id |-> deleting[g], at |-> t])
  /\ ReturnFromDelete(g)
  /\ UNCHANGED db

-----------------------------------------------------------------------------
(* ProcessBatchHistory *)

\* case ev := <-s.historyCh
Receive ==
  /\ worker = "select" /\ historyCh # <<>>
  /\ batch' = Append(batch, Head(historyCh))
  /\ historyCh' = Tail(historyCh)
  /\ worker' = IF Len(batch) + 1 >= BatchSize THEN "full" ELSE "select"
  /\ UNCHANGED <<now, sending, sent, written, timer, deleteVars, storeVars>>

\* case <-timer.C: flush returns at once when the batch is empty.
TimerCase ==
  /\ worker = "select" /\ timer = "fired"
  /\ IF batch = <<>> THEN timer' = "armed" /\ UNCHANGED worker
                     ELSE timer' = "idle" /\ worker' = "aged"
  /\ UNCHANGED <<now, queueVars, batch, written, deleteVars, storeVars>>

\* BatchMaxAge elapses; a tick waits in timer.C.
TimerFires ==
  /\ worker # "down" /\ timer = "armed"
  /\ timer' = "fired"
  /\ UNCHANGED <<now, queueVars, batch, written, worker, deleteVars, storeVars>>

Flushing == worker \in {"full", "aged"}

\* InsertBatchTrackHistory writes one item.
PutBins ==
  /\ Flushing /\ written < Len(batch)
  /\ db' = Put(db, batch[written + 1])
  /\ written' = written + 1
  /\ UNCHANGED <<now, queueVars, batch, worker, timer, deleteVars, late>>

\* Mutants of EndFlush: the batch is not emptied; the timer is not reset.
EndFlushKeepsBatch ==
  /\ written' = 0 /\ worker' = "select" /\ timer' = "armed"
  /\ UNCHANGED <<now, queueVars, batch, deleteVars>>

EndFlushWithoutReset ==
  /\ batch' = <<>> /\ written' = 0 /\ worker' = "select"
  /\ UNCHANGED <<now, queueVars, timer, deleteVars>>

\* Both ends of flush empty the batch, and the timer is stopped and reset in one
\* step: since Go 1.23 (go.mod asks for 1.24) Stop discards a tick that nobody
\* has received, so that none can come between the two and the drain after Stop
\* finds the channel empty.
EndFlush ==
  /\ batch' = <<>> /\ written' = 0
  /\ worker' = "select" /\ timer' = "armed"
  /\ UNCHANGED <<now, queueVars, deleteVars>>

FlushDone ==
  /\ Flushing /\ written = Len(batch)
  /\ EndFlush
  /\ UNCHANGED storeVars

\* Mutant of FlushFails: the written part of the batch is kept, not the rest.
FlushFailsKeepsWritten ==
  /\ Flushing /\ written < Len(batch)
  /\ batch' = SubSeq(batch, 1, written) /\ written' = 0
  /\ worker' = "select" /\ timer' = "armed"
  /\ UNCHANGED <<now, queueVars, deleteVars, storeVars>>

\* A PutBins returns an error: the rest of the batch is given up, but a write
\* that timed out may still be applied. NewWritePolicy allows no retries, so it
\* has been sent once.
FlushFails ==
  /\ Flushing /\ written < Len(batch)
  /\ UNCHANGED late \/ IsLate(batch[written + 1])
  /\ EndFlush
  /\ UNCHANGED db

\* The server applies a command the client gave up, in any order. (A command on
\* its way in a crash is one that fails just before the crash.)
ApplyLate ==
  \E c \in late :
    /\ db' = IF c \in Record THEN Put(db, c) ELSE Erase(db, c.id, c.at)
    /\ late' = late \ {c}
    /\ UNCHANGED <<now, queueVars, workerVars, deleteVars>>

-----------------------------------------------------------------------------
(* The process and its clock *)

Tick ==
  /\ now < MaxTime
  /\ now' = now + 1
  /\ UNCHANGED <<queueVars, workerVars, deleteVars, storeVars>>

\* The process dies: everything but the store is lost.
Crash ==
  /\ worker # "down"
  /\ sending' = {} /\ historyCh' = <<>>
  /\ batch' = <<>> /\ written' = 0 /\ worker' = "down" /\ timer' = "idle"
  /\ deleting' = [g \in Goroutines |-> None]
  /\ todo' = [g \in Goroutines |-> {}]
  /\ found' = [g \in Goroutines |-> {}]
  /\ UNCHANGED <<now, storeVars, sent>>

\* systemd starts the process again and runServer starts the worker.
Restart ==
  /\ worker = "down"
  /\ worker' = "select" /\ timer' = "armed"
  /\ UNCHANGED <<now, queueVars, batch, written, deleteVars, storeVars>>

-----------------------------------------------------------------------------
(* The pipeline on its own: a goroutine that is not in a call may create its
   record, once, or delete a track's history. *)

Idle(g) ==
  /\ worker # "down"
  /\ deleting[g] = None
  /\ \A r \in sending : r.by # g

Unsent(g) == \A i \in 1..Len(sent) : sent[i].by # g

WorkerStep == Receive \/ TimerCase \/ PutBins \/ FlushDone \/ FlushFails

DeleteStep(g) == DeleteRecord(g) \/ DeleteDone(g) \/ DeleteFails(g)

CallStep(g) ==
  \/ \E id \in Ids : Idle(g) /\ Unsent(g) /\ CreateTrackHistory(g, id)
  \/ \E id \in Ids : Idle(g) /\ QueryHistory(g, id)
  \/ DeleteStep(g)

HistoryNext ==
  \/ \E g \in Goroutines : CallStep(g)
  \/ \E r \in sending : Send(r)
  \/ WorkerStep
  \/ TimerFires \/ Tick \/ ApplyLate \/ Crash \/ Restart

HistorySpec == HistoryInit /\ [][HistoryNext]_historyVars

-----------------------------------------------------------------------------
(* Properties *)

\* Records accepted by the channel that are written, given up or lost.
Settled == Len(sent) - Len(historyCh) - (Len(batch) - written)

\* Records on their way to the store.
InMemory ==
  sending \cup {historyCh[i] : i \in 1..Len(historyCh)}
          \cup {batch[i] : i \in (written + 1)..Len(batch)}

\* The channel and, before it, the batch hold exactly the latest records that
\* were accepted, in the order of acceptance: between the send of a handler and
\* the write of the worker nothing is lost, doubled or reordered, whatever
\* flush failed in between (ProcessBatchHistory's batch = batch[:0]).
InFlightInOrder ==
  /\ Len(historyCh) + Len(batch) <= Len(sent)
  /\ \A i \in 1..Len(historyCh) :
       historyCh[i] = sent[Len(sent) - Len(historyCh) + i]
  /\ \A i \in 1..Len(batch) :
       batch[i] = sent[Len(sent) - Len(historyCh) - Len(batch) + i]

\* A record that is still waiting, in a goroutine, the channel or the unwritten
\* part of the batch, is neither in the store nor in a command the server may
\* still apply, and one in such a command is not in the store: each record is
\* written at most once, whatever fails and times out, so that what a deletion
\* has taken from the store does not come back.
WrittenOnce ==
  /\ InMemory \cap (db \cup late) = {}
  /\ late \cap db = {}

\* The worker never waits in its select with a timer that will not fire: each
\* way out of flush resets it, so a batch cannot wait for ever to be full.
TimerLive == worker = "select" => timer \in {"armed", "fired"}

\* A DeleteTrackHistory call has deleted every record its query saw that its
\* scan has passed, also those that flushes and other calls touched meanwhile:
\* when it returns nil none of them is left.
ScanCovers ==
  \A g \in Goroutines : \A r \in found[g] \cap db : r.at \in todo[g]

\* A record leaves the store only in a delete of its own track, one that a call
\* is at or one that timed out, or when a record of the same track and
\* millisecond is written over it.
LeavesByItsKey ==
  [][\A r \in db \ db' :
       \/ \E g \in Goroutines : deleting[g] = r.id
       \/ [id |-> r.id, at |-> r.at] \in late \ late'
       \/ \E s \in db' \ db : SameKey(r, s)]_historyVars

\* The pipeline implements the log.
Log == INSTANCE HistoryLog WITH settled <- Settled, late <- late \cap Record
ImplementsLog == Log!LogSpec
=============================================================================
