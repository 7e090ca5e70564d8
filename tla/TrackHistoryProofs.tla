------------------------- MODULE TrackHistoryProofs -------------------------
(***************************************************************************)
(* Proofs about TrackHistory for every number of goroutines and tracks,    *)
(* every channel capacity and every batch size.                            *)
(***************************************************************************)
EXTENDS TrackHistory, Integers, TLAPS

\* Every step keeps the types.
LEMMA TypeStep == TypeOK /\ [HistoryNext]_historyVars => TypeOK'
<1> USE PipelineConfig
<1> SUFFICES ASSUME TypeOK, [HistoryNext]_historyVars
             PROVE  TypeOK'
  OBVIOUS
<1> USE DEF TypeOK, queueVars, workerVars, deleteVars, storeVars
<1>1. ASSUME NEW g \in Goroutines, NEW id \in Ids, CreateTrackHistory(g, id)
      PROVE  TypeOK'
  BY <1>1 DEF CreateTrackHistory, Record
<1>2. ASSUME NEW g \in Goroutines, NEW id \in Ids, QueryHistory(g, id)
      PROVE  TypeOK'
  BY <1>2 DEF QueryHistory, OfTrack, Record
<1>3. ASSUME NEW g \in Goroutines, DeleteStep(g)
      PROVE  TypeOK'
  <2>1. CASE DeleteRecord(g)
    BY <2>1 DEF DeleteRecord, Erase
  <2>2. CASE DeleteDone(g)
    BY <2>2 DEF DeleteDone, ReturnFromDelete
  <2>3. CASE DeleteFails(g)
    <3>1. \A t \in todo[g] \cup {r.at : r \in OfTrack(db, deleting[g])} :
            [id |-> deleting[g], at |-> t] \in Key
      BY <2>3 DEF DeleteFails, OfTrack, Record, Key
    <3>2. late' \subseteq Record \cup Key
      BY <2>3, <3>1 DEF DeleteFails, IsLate
    <3> QED  BY <2>3, <3>2 DEF DeleteFails, ReturnFromDelete
  <2> QED BY <1>3, <2>1, <2>2, <2>3 DEF DeleteStep
<1>4. ASSUME NEW r \in sending, Send(r)
      PROVE  TypeOK'
  BY <1>4 DEF Send
<1>5. CASE WorkerStep
  <2>1. CASE Receive
    BY <2>1 DEF Receive
  <2>2. CASE TimerCase
    BY <2>2 DEF TimerCase
  <2>3. CASE PutBins
    BY <2>3 DEF PutBins, Put
  <2>4. CASE FlushDone
    BY <2>4 DEF FlushDone, EndFlush
  <2>5. CASE FlushFails
    BY <2>5 DEF FlushFails, EndFlush, IsLate
  <2> QED BY <1>5, <2>1, <2>2, <2>3, <2>4, <2>5 DEF WorkerStep
<1>6. CASE TimerFires
  BY <1>6 DEF TimerFires
<1>7. CASE Tick
  BY <1>7 DEF Tick, Time
<1>8. CASE Crash
  BY <1>8 DEF Crash
<1>9. CASE Restart
  BY <1>9 DEF Restart
<1>10. CASE ApplyLate
  BY <1>10 DEF ApplyLate, Put, Erase
<1>11. CASE UNCHANGED historyVars
  BY <1>11 DEF historyVars
<1> QED
  BY <1>1, <1>2, <1>3, <1>4, <1>5, <1>6, <1>7, <1>8, <1>9, <1>10, <1>11
     DEF HistoryNext, CallStep

\* Every state of the pipeline is well typed; in particular the channel never
\* holds more than its capacity and the worker never writes past its batch.
THEOREM TypeCorrect == HistorySpec => []TypeOK
<1>1. HistoryInit => TypeOK
  BY PipelineConfig DEF HistoryInit, TypeOK, Time, Record
<1>2. TypeOK /\ [HistoryNext]_historyVars => TypeOK'
  BY TypeStep
<1> QED BY <1>1, <1>2, PTL DEF HistorySpec

-----------------------------------------------------------------------------
(* The inductive invariant *)

\* A delete that timed out is no write.
LEMMA KeysAreNoRecords == Key \cap Record = {}
<1>1. \A c \in Key : DOMAIN c = {"id", "at"}
  BY DEF Key
<1>2. \A r \in Record : DOMAIN r = {"id", "at", "by"}
  BY DEF Record
<1> QED  BY <1>1, <1>2

\* A goroutine's record is accepted once, and is waiting to be sent at most
\* once, before it is accepted.
OneRecordEach ==
  /\ \A i, j \in 1..Len(sent) : sent[i].by = sent[j].by => i = j
  /\ \A r \in sending, i \in 1..Len(sent) : sent[i].by # r.by
  /\ \A r, s \in sending : r.by = s.by => r = s

\* What the store holds, or held when a scan began, or may hold because of a
\* write that timed out, is settled.
IsSettled(r) == \E i \in 1..Settled : sent[i] = r

StoreIsSettled ==
  /\ \A r \in db : IsSettled(r)
  /\ \A g \in Goroutines : \A r \in found[g] : IsSettled(r)
  /\ \A r \in late \cap Record : IsSettled(r)

\* A write that has still to be applied was not in the store, now or for a scan.
LateIsNew ==
  /\ late \cap db = {}
  /\ \A g \in Goroutines : late \cap found[g] = {}

\* A scan is about the records of one track.
FoundOfTrack ==
  \A g \in Goroutines : \A r \in found[g] : r.id = deleting[g]

\* The batch is flushed as soon as it is full.
BatchLimit == IF BatchSize = 0 THEN 1 ELSE BatchSize

BatchBounded ==
  /\ Len(batch) <= BatchLimit
  /\ worker = "select" => Len(batch) < BatchLimit
  /\ worker = "down" => batch = <<>>

IInv == TypeOK /\ InFlightInOrder /\ OneRecordEach /\ StoreIsSettled
          /\ LateIsNew /\ FoundOfTrack /\ ScanCovers /\ BatchBounded

\* The channel and the batch follow the log of accepted records.
LEMMA InFlightStep ==
  TypeOK /\ InFlightInOrder /\ [HistoryNext]_historyVars => InFlightInOrder'
<1> SUFFICES ASSUME TypeOK, InFlightInOrder, [HistoryNext]_historyVars
             PROVE  InFlightInOrder'
  OBVIOUS
<1> USE PipelineConfig DEF TypeOK, InFlightInOrder, queueVars, workerVars, deleteVars, storeVars
<1>1. CASE UNCHANGED <<historyCh, sent, batch>>
  BY <1>1
<1>2. ASSUME NEW r \in sending, Send(r)
      PROVE  InFlightInOrder'
  <2>1. /\ r \in Record /\ batch' = batch
        /\ historyCh' = Append(historyCh, r) /\ sent' = Append(sent, r)
    BY <1>2 DEF Send
  <2>2. /\ Len(historyCh') = Len(historyCh) + 1
        /\ Len(sent') = Len(sent) + 1
        /\ Len(historyCh) \in Nat /\ Len(sent) \in Nat /\ Len(batch) \in Nat
    BY <2>1
  <2>3. ASSUME NEW i \in 1..Len(historyCh')
        PROVE  historyCh'[i] = sent'[Len(sent') - Len(historyCh') + i]
    <3>1. CASE i = Len(historyCh) + 1
      BY <2>1, <2>2, <3>1
    <3>2. CASE i \in 1..Len(historyCh)
      BY <2>1, <2>2, <3>2
    <3> QED BY <2>2, <3>1, <3>2
  <2>4. ASSUME NEW i \in 1..Len(batch')
        PROVE  batch'[i] = sent'[Len(sent') - Len(historyCh') - Len(batch') + i]
    <3> DEFINE k == Len(sent) - Len(historyCh) - Len(batch) + i
    <3>1. Len(sent') - Len(historyCh') - Len(batch') + i = k
      BY <2>1, <2>2
    <3>2. k \in 1..Len(sent)
      BY <2>1, <2>2
    <3>3. sent'[k] = sent[k]
      BY <2>1, <3>2
    <3>4. batch[i] = sent[k] /\ batch'[i] = batch[i]
      BY <2>1
    <3> QED BY <3>1, <3>3, <3>4
  <2>5. Len(historyCh') + Len(batch') <= Len(sent')
    BY <2>1, <2>2
  <2> QED BY <2>3, <2>4, <2>5
<1>3. CASE Receive
  BY <1>3, SMTT(30) DEF Receive
<1>4. CASE FlushDone \/ FlushFails
  <2>1. batch' = <<>> /\ historyCh' = historyCh /\ sent' = sent
    BY <1>4 DEF FlushDone, FlushFails, EndFlush
  <2>2. Len(batch') = 0 /\ 1..Len(batch') = {}
    BY <2>1
  <2> QED BY <2>1, <2>2
<1>5. CASE Crash
  BY <1>5 DEF Crash
<1> QED
  <2>1. ASSUME NEW g \in Goroutines, CallStep(g)
        PROVE  UNCHANGED <<historyCh, sent, batch>>
    BY <2>1 DEF CallStep, CreateTrackHistory, QueryHistory, DeleteStep,
                DeleteRecord, DeleteDone, DeleteFails, ReturnFromDelete
  <2>2. CASE TimerCase \/ PutBins \/ TimerFires \/ Tick \/ ApplyLate \/ Restart
    BY <1>1, <2>2 DEF TimerCase, PutBins, TimerFires, Tick, ApplyLate, Restart
  <2>3. CASE UNCHANGED historyVars
    BY <1>1, <2>3 DEF historyVars
  <2> QED BY <1>1, <1>2, <1>3, <1>4, <1>5, <2>1, <2>2, <2>3
             DEF HistoryNext, WorkerStep

\* No goroutine's record is doubled.
LEMMA OneRecordStep ==
  TypeOK /\ OneRecordEach /\ [HistoryNext]_historyVars => OneRecordEach'
<1> SUFFICES ASSUME TypeOK, OneRecordEach, [HistoryNext]_historyVars
             PROVE  OneRecordEach'
  OBVIOUS
<1> USE DEF TypeOK, OneRecordEach, queueVars, workerVars, deleteVars, storeVars
<1>1. CASE UNCHANGED <<sending, sent>>
  BY <1>1
<1>2. ASSUME NEW r \in sending, Send(r)
      PROVE  OneRecordEach'
  BY <1>2 DEF Send, Record
<1>3. ASSUME NEW g \in Goroutines, NEW id \in Ids,
             Idle(g), Unsent(g), CreateTrackHistory(g, id)
      PROVE  OneRecordEach'
  BY <1>3 DEF CreateTrackHistory, Idle, Unsent, Record
<1>4. CASE Crash
  BY <1>4 DEF Crash
<1> QED
  <2>1. ASSUME NEW g \in Goroutines,
               DeleteStep(g) \/ \E id \in Ids : QueryHistory(g, id)
        PROVE  UNCHANGED <<sending, sent>>
    BY <2>1 DEF QueryHistory, DeleteStep,
                DeleteRecord, DeleteDone, DeleteFails, ReturnFromDelete
  <2>2. CASE WorkerStep \/ TimerFires \/ Tick \/ ApplyLate \/ Restart
    BY <1>1, <2>2 DEF WorkerStep, Receive, TimerCase, PutBins, FlushDone,
                      FlushFails, EndFlush, TimerFires, Tick, ApplyLate, Restart
  <2>3. CASE UNCHANGED historyVars
    BY <1>1, <2>3 DEF historyVars
  <2> QED BY <1>1, <1>2, <1>3, <1>4, <2>1, <2>2, <2>3
             DEF HistoryNext, CallStep

\* The batch stays within its limit.
LEMMA BatchStep ==
  TypeOK /\ BatchBounded /\ [HistoryNext]_historyVars => BatchBounded'
<1> SUFFICES ASSUME TypeOK, BatchBounded, [HistoryNext]_historyVars
             PROVE  BatchBounded'
  OBVIOUS
<1> USE PipelineConfig DEF TypeOK, BatchBounded, BatchLimit, queueVars, workerVars, deleteVars, storeVars
<1>1. CASE UNCHANGED <<batch, worker>>
  BY <1>1
<1>2. CASE Receive
  BY <1>2 DEF Receive
<1>3. CASE TimerCase
  BY <1>3 DEF TimerCase
<1>4. CASE FlushDone \/ FlushFails \/ Crash \/ Restart
  BY <1>4 DEF FlushDone, FlushFails, EndFlush, Crash, Restart
<1> QED
  <2>1. ASSUME NEW g \in Goroutines, CallStep(g)
        PROVE  UNCHANGED <<batch, worker>>
    BY <2>1 DEF CallStep, CreateTrackHistory, QueryHistory, DeleteStep,
                DeleteRecord, DeleteDone, DeleteFails, ReturnFromDelete
  <2>2. CASE PutBins \/ TimerFires \/ Tick \/ ApplyLate \/ \E r \in sending : Send(r)
    BY <1>1, <2>2 DEF PutBins, TimerFires, Tick, ApplyLate, Send
  <2>3. CASE UNCHANGED historyVars
    BY <1>1, <2>3 DEF historyVars
  <2> QED BY <1>1, <1>2, <1>3, <1>4, <2>1, <2>2, <2>3
             DEF HistoryNext, WorkerStep

\* The log only grows, and so does the settled part of it.
LEMMA SettledGrows ==
  ASSUME TypeOK, InFlightInOrder, [HistoryNext]_historyVars
  PROVE  /\ Settled \in 0..Len(sent)
         /\ Settled' \in Settled..Len(sent')
         /\ \A i \in 1..Len(sent) : i \in 1..Len(sent') /\ sent'[i] = sent[i]
<1> USE DEF TypeOK, InFlightInOrder, queueVars, workerVars, deleteVars, storeVars
<1>1. Settled \in 0..Len(sent)
  BY DEF Settled
<1>2. Settled' \in Nat /\ Len(sent') \in Nat /\ Settled' <= Len(sent')
  BY TypeStep, InFlightStep, SMTT(30) DEF Settled
<1>3. ASSUME UNCHANGED <<historyCh, batch, written, sent>>
      PROVE  Settled' = Settled /\ sent' = sent
  BY <1>3 DEF Settled
<1>4. ASSUME NEW r \in sending, Send(r)
      PROVE  /\ Settled' = Settled
             /\ \A i \in 1..Len(sent) : i \in 1..Len(sent') /\ sent'[i] = sent[i]
  BY <1>4 DEF Send, Settled
<1>5. CASE Receive
  <2>1. Len(historyCh') = Len(historyCh) - 1 /\ Len(batch') = Len(batch) + 1
    BY <1>5 DEF Receive
  <2>2. written' = written /\ sent' = sent
    BY <1>5 DEF Receive
  <2>3. Settled' = Settled
    BY <2>1, <2>2, SMTT(30) DEF Settled
  <2> QED BY <2>2, <2>3, <1>1, <1>2
<1>6. CASE PutBins
  BY <1>6 DEF PutBins, Settled
<1>7. CASE FlushDone \/ FlushFails \/ Crash
  <2>1. Len(batch') = 0 /\ written' = 0 /\ sent' = sent
    BY <1>7 DEF FlushDone, FlushFails, EndFlush, Crash
  <2>2. Len(historyCh') = Len(historyCh) \/ Len(historyCh') = 0
    BY <1>7 DEF FlushDone, FlushFails, EndFlush, Crash
  <2>3. Settled' = Len(sent) - Len(historyCh')
    BY <2>1, <2>2 DEF Settled
  <2>4. Settled' >= Settled
    BY <2>2, <2>3 DEF Settled
  <2> QED BY <1>2, <1>1, <2>1, <2>4
<1> QED
  <2>1. ASSUME NEW g \in Goroutines, CallStep(g)
        PROVE  UNCHANGED <<historyCh, batch, written, sent>>
    BY <2>1 DEF CallStep, CreateTrackHistory, QueryHistory, DeleteStep,
                DeleteRecord, DeleteDone, DeleteFails, ReturnFromDelete
  <2>2. ASSUME TimerCase \/ TimerFires \/ Tick \/ ApplyLate \/ Restart
        PROVE  UNCHANGED <<historyCh, batch, written, sent>>
    BY <2>2 DEF TimerCase, TimerFires, Tick, ApplyLate, Restart
  <2>3. ASSUME UNCHANGED historyVars
        PROVE  UNCHANGED <<historyCh, batch, written, sent>>
    BY <2>3 DEF historyVars
  <2>4. CASE UNCHANGED <<historyCh, batch, written, sent>>
    BY <1>1, <1>3, <2>4
  <2>5. CASE \E r \in sending : Send(r)
    BY <1>2, <1>1, <1>4, <2>5
  <2> QED BY <1>2, <1>1, <1>5, <1>6, <1>7, <2>1, <2>2, <2>3, <2>4, <2>5
             DEF HistoryNext, WorkerStep

\* The record being written is the first of the log that is not settled.
LEMMA NextOfBatch ==
  ASSUME TypeOK, InFlightInOrder, written < Len(batch)
  PROVE  /\ Settled + 1 \in 1..Len(sent)
         /\ batch[written + 1] = sent[Settled + 1]
<1>1. written + 1 \in 1..Len(batch) /\ Len(batch) \in Nat
      /\ Len(historyCh) \in Nat /\ Len(sent) \in Nat
  BY DEF TypeOK
<1>2. batch[written + 1] = sent[Len(sent) - Len(historyCh) - Len(batch) + (written + 1)]
  BY <1>1 DEF InFlightInOrder
<1>3. Len(sent) - Len(historyCh) - Len(batch) + (written + 1) = Settled + 1
  BY <1>1 DEF Settled, TypeOK
<1>4. Len(historyCh) + Len(batch) <= Len(sent) /\ written \in Nat
  BY DEF InFlightInOrder, TypeOK
<1>5. Settled + 1 \in 1..Len(sent)
  BY <1>1, <1>4 DEF Settled
<1> QED BY <1>2, <1>3, <1>5

\* What is settled stays settled.
LEMMA StaysSettled ==
  ASSUME TypeOK, InFlightInOrder, [HistoryNext]_historyVars, NEW r, IsSettled(r)
  PROVE  IsSettled(r)'
<1>1. PICK i \in 1..Settled : sent[i] = r
  BY DEF IsSettled
<1>2. /\ Settled \in 0..Len(sent) /\ Settled' \in Settled..Len(sent')
      /\ Len(sent) \in Nat /\ Len(sent') \in Nat
  BY SettledGrows, TypeStep DEF TypeOK
<1>3. i \in 1..Settled' /\ sent'[i] = sent[i]
  BY <1>2, SettledGrows
<1> QED BY <1>1, <1>3 DEF IsSettled

\* A write, done or failed, settles the record it writes.
LEMMA WriteSettles ==
  ASSUME TypeOK, InFlightInOrder, PutBins \/ FlushFails,
         NEW r, r = batch[written + 1]
  PROVE  IsSettled(r)'
<1> USE DEF queueVars, workerVars, deleteVars, storeVars
<1>1. written < Len(batch) /\ sent' = sent /\ historyCh' = historyCh
  BY DEF PutBins, FlushFails, EndFlush
<1>2. Settled + 1 \in 1..Len(sent) /\ r = sent[Settled + 1]
  BY <1>1, NextOfBatch
<1>3. Len(sent) \in Nat /\ Len(historyCh) \in Nat /\ Len(batch) \in Nat
      /\ written \in Nat
  BY DEF TypeOK
<1>4. Settled + 1 \in 1..Settled'
  <2>1. CASE PutBins
    BY <1>1, <1>2, <1>3, <2>1 DEF PutBins, Settled
  <2>2. CASE FlushFails
    <3>1. Len(batch') = 0 /\ written' = 0
      BY <2>2 DEF FlushFails, EndFlush
    <3> QED BY <1>1, <1>2, <1>3, <3>1 DEF Settled
  <2> QED BY <2>1, <2>2
<1> QED BY <1>1, <1>2, <1>4 DEF IsSettled

\* A deletion writes nothing, now or later.
LEMMA DeleteWrites ==
  ASSUME TypeOK, NEW g \in Goroutines, DeleteStep(g)
  PROVE  /\ db' \subseteq db /\ late \subseteq late' /\ late' \subseteq late \cup Key
         /\ \A h \in Goroutines : found'[h] \subseteq found[h]
<1> USE DEF TypeOK, queueVars, workerVars, deleteVars, storeVars
<1>1. CASE DeleteRecord(g)
  BY <1>1 DEF DeleteRecord, Erase
<1>2. CASE DeleteDone(g)
  BY <1>2 DEF DeleteDone, ReturnFromDelete
<1>3. CASE DeleteFails(g)
  <2>1. \A t \in todo[g] \cup {r.at : r \in OfTrack(db, deleting[g])} :
          [id |-> deleting[g], at |-> t] \in Key
    BY <1>3 DEF DeleteFails, OfTrack, Record, Key
  <2> QED  BY <1>3, <2>1 DEF DeleteFails, ReturnFromDelete, IsLate
<1> QED  BY <1>1, <1>2, <1>3 DEF DeleteStep

\* Where the records of the store come from, and the writes still to be applied.
LEMMA StoreOrigin ==
  ASSUME TypeOK, [HistoryNext]_historyVars
  PROVE  /\ \A r \in db' :
              \/ r \in db
              \/ PutBins /\ r = batch[written + 1]
              \/ ApplyLate /\ r \in late \cap Record /\ r \notin late'
         /\ \A r \in late' \cap Record :
              r \in late \/ (FlushFails /\ r = batch[written + 1] /\ db' = db)
         /\ \A g \in Goroutines : (found'[g] \subseteq found[g] \/ found'[g] \subseteq db)
<1> USE DEF TypeOK, queueVars, workerVars, deleteVars, storeVars
<1>1. ASSUME NEW g \in Goroutines, NEW id \in Ids, QueryHistory(g, id)
      PROVE  /\ db' = db /\ late' = late
             /\ \A h \in Goroutines : (found'[h] \subseteq found[h] \/ found'[h] \subseteq db)
  BY <1>1 DEF QueryHistory, OfTrack
<1>2. ASSUME NEW g \in Goroutines, DeleteStep(g)
      PROVE  /\ db' \subseteq db /\ late' \subseteq late \cup Key
             /\ \A h \in Goroutines : found'[h] \subseteq found[h]
  BY <1>2, DeleteWrites
<1>3. ASSUME PutBins
      PROVE  UNCHANGED <<found, late>> /\ db' \subseteq db \cup {batch[written + 1]}
  BY <1>3 DEF PutBins, Put
<1>4. ASSUME FlushFails
      PROVE  UNCHANGED <<found, db>> /\ late' \subseteq late \cup {batch[written + 1]}
  BY <1>4 DEF FlushFails, EndFlush, IsLate
<1>5. ASSUME ApplyLate
      PROVE  /\ found' = found /\ late' \subseteq late
             /\ \A r \in db' : r \in db \/ (r \in late \cap Record /\ r \notin late')
  BY <1>5 DEF ApplyLate, Put, Erase
<1>6. ASSUME Crash
      PROVE  UNCHANGED storeVars /\ \A h \in Goroutines : found'[h] = {}
  BY <1>6 DEF Crash
<1>7. ASSUME \/ \E r \in sending : Send(r)
             \/ \E g \in Goroutines, id \in Ids : CreateTrackHistory(g, id)
             \/ Receive \/ TimerCase \/ FlushDone
             \/ TimerFires \/ Tick \/ Restart
             \/ UNCHANGED historyVars
      PROVE  UNCHANGED <<storeVars, found>>
  BY <1>7 DEF Send, CreateTrackHistory, Receive, TimerCase, FlushDone,
              EndFlush, TimerFires, Tick, Restart, historyVars
<1>8. Key \cap Record = {}
  BY KeysAreNoRecords
<1> HIDE DEF TypeOK, queueVars, workerVars, deleteVars
<1>9. CASE PutBins
  BY <1>3, <1>9
<1>10. CASE FlushFails
  BY <1>4, <1>10
<1>11. CASE ApplyLate
  BY <1>5, <1>11
<1>12. CASE \E g \in Goroutines : DeleteStep(g)
  BY <1>2, <1>8, <1>12
<1>13. CASE \E g \in Goroutines, id \in Ids : QueryHistory(g, id)
  BY <1>1, <1>13
<1>14. CASE Crash
  BY <1>6, <1>14
<1> QED BY <1>7, <1>9, <1>10, <1>11, <1>12, <1>13, <1>14
           DEF HistoryNext, CallStep, WorkerStep

\* Whatever is in the store, or was, is settled.
LEMMA StoreStep ==
  TypeOK /\ InFlightInOrder /\ StoreIsSettled /\ [HistoryNext]_historyVars
    => StoreIsSettled'
<1> SUFFICES ASSUME TypeOK, InFlightInOrder, StoreIsSettled,
                    [HistoryNext]_historyVars
             PROVE  StoreIsSettled'
  OBVIOUS
<1>1. ASSUME NEW r \in db' PROVE IsSettled(r)'
  <2>1. CASE r \in db \cup (late \cap Record)
    BY <2>1, StaysSettled DEF StoreIsSettled
  <2>2. CASE PutBins /\ r = batch[written + 1]
    BY <2>2, WriteSettles
  <2> QED BY <2>1, <2>2, StoreOrigin
<1>2. ASSUME NEW g \in Goroutines, NEW r \in found'[g] PROVE IsSettled(r)'
  <2>1. r \in found[g] \cup db
    BY <1>2, StoreOrigin
  <2> QED BY <2>1, StaysSettled DEF StoreIsSettled
<1>3. ASSUME NEW r \in late' \cap Record PROVE IsSettled(r)'
  <2>1. CASE r \in late
    BY <1>3, <2>1, StaysSettled DEF StoreIsSettled
  <2>2. CASE FlushFails /\ r = batch[written + 1]
    BY <2>2, WriteSettles
  <2> QED BY <1>3, <2>1, <2>2, StoreOrigin
<1> QED BY <1>1, <1>2, <1>3 DEF StoreIsSettled

LEMMA FoundStep ==
  TypeOK /\ FoundOfTrack /\ [HistoryNext]_historyVars => FoundOfTrack'
<1> SUFFICES ASSUME TypeOK, FoundOfTrack, [HistoryNext]_historyVars
             PROVE  FoundOfTrack'
  OBVIOUS
<1> USE DEF TypeOK, FoundOfTrack, queueVars, workerVars, deleteVars, storeVars
<1>1. CASE UNCHANGED <<deleting, found>>
  BY <1>1
<1>2. ASSUME NEW g \in Goroutines, NEW id \in Ids, QueryHistory(g, id)
      PROVE  FoundOfTrack'
  BY <1>2 DEF QueryHistory, OfTrack
<1>3. ASSUME NEW g \in Goroutines, DeleteStep(g)
      PROVE  FoundOfTrack'
  BY <1>3 DEF DeleteStep, DeleteRecord, DeleteDone, DeleteFails, ReturnFromDelete
<1>4. CASE Crash
  BY <1>4 DEF Crash
<1>5. ASSUME \/ \E r \in sending : Send(r)
             \/ \E g \in Goroutines, id \in Ids : CreateTrackHistory(g, id)
             \/ WorkerStep \/ TimerFires \/ Tick \/ ApplyLate \/ Restart
             \/ UNCHANGED historyVars
      PROVE  UNCHANGED <<deleting, found>>
  BY <1>5 DEF Send, CreateTrackHistory, WorkerStep, Receive, TimerCase, PutBins,
              FlushDone, FlushFails, EndFlush, TimerFires, Tick, ApplyLate, Restart, historyVars
<1> QED BY <1>1, <1>2, <1>3, <1>4, <1>5 DEF HistoryNext, CallStep

\* The record being written has never been in the store.
LEMMA WriteIsNew ==
  ASSUME IInv, PutBins \/ FlushFails
  PROVE  ~IsSettled(batch[written + 1])
<1> SUFFICES ASSUME IsSettled(batch[written + 1]) PROVE FALSE
  OBVIOUS
<1>1. written < Len(batch)
  BY DEF PutBins, FlushFails
<1>2. /\ Settled + 1 \in 1..Len(sent)
      /\ batch[written + 1] = sent[Settled + 1]
  BY <1>1, NextOfBatch DEF IInv
<1>3. PICK i \in 1..Settled : sent[i] = batch[written + 1]
  BY DEF IsSettled
<1>4. Settled \in Int /\ Len(sent) \in Nat
  BY DEF IInv, TypeOK, Settled
<1>5. i \in 1..Len(sent) /\ i # Settled + 1
  BY <1>2, <1>3, <1>4
<1>6. sent[i].by = sent[Settled + 1].by
  BY <1>2, <1>3
<1> QED BY <1>2, <1>5, <1>6 DEF IInv, OneRecordEach

\* No write that has still to be applied has been applied before.
LEMMA LateStep == IInv /\ [HistoryNext]_historyVars => LateIsNew'
<1> SUFFICES ASSUME IInv, [HistoryNext]_historyVars
             PROVE  LateIsNew'
  OBVIOUS
<1>1. TypeOK /\ StoreIsSettled /\ LateIsNew
  BY DEF IInv
<1>2. db' \subseteq Record /\ \A g \in Goroutines : found'[g] \subseteq Record
  BY <1>1, TypeStep DEF TypeOK
<1>3. ASSUME NEW r \in late' \cap Record PROVE r \notin db'
  <2>1. CASE r \in late
    <3>1. r \notin db
      BY <1>1, <2>1 DEF LateIsNew
    <3>2. ~(PutBins /\ r = batch[written + 1])
      BY <1>1, <1>3, <2>1, WriteIsNew DEF StoreIsSettled
    <3> QED  BY <1>1, <1>3, <3>1, <3>2, StoreOrigin
  <2>2. CASE FlushFails /\ r = batch[written + 1] /\ db' = db
    BY <1>1, <2>2, WriteIsNew DEF StoreIsSettled
  <2> QED  BY <1>1, <1>3, <2>1, <2>2, StoreOrigin
<1>4. ASSUME NEW r \in late' \cap Record, NEW g \in Goroutines PROVE r \notin found'[g]
  <2>1. CASE r \in late
    BY <1>1, <2>1, StoreOrigin DEF LateIsNew
  <2>2. CASE FlushFails /\ r = batch[written + 1]
    <3>1. ~IsSettled(r)
      BY <2>2, WriteIsNew
    <3> QED  BY <1>1, <3>1, StoreOrigin DEF StoreIsSettled
  <2> QED  BY <1>1, <1>4, <2>1, <2>2, StoreOrigin
<1> QED  BY <1>2, <1>3, <1>4 DEF LateIsNew

\* What a scan has passed stays deleted.
LEMMA ScanStep == IInv /\ [HistoryNext]_historyVars => ScanCovers'
<1> SUFFICES ASSUME IInv, [HistoryNext]_historyVars,
                    NEW g \in Goroutines, NEW r \in found'[g], r \in db'
             PROVE  r.at \in todo'[g]
  BY DEF ScanCovers
<1> USE DEF IInv, TypeOK, ScanCovers, queueVars, workerVars, deleteVars, storeVars
<1>1. CASE r \in found[g] /\ r \in db /\ todo'[g] = todo[g]
  BY <1>1
<1>2. ASSUME NEW h \in Goroutines, NEW id \in Ids, QueryHistory(h, id)
      PROVE  r.at \in todo'[g]
  BY <1>1, <1>2 DEF QueryHistory
<1>3. ASSUME NEW h \in Goroutines, DeleteRecord(h)
      PROVE  r.at \in todo'[g]
  <2>1. found' = found /\ r \in db
    BY <1>3 DEF DeleteRecord, Erase
  <2>2. CASE g # h
    BY <1>1, <1>3, <2>1, <2>2 DEF DeleteRecord
  <2>3. CASE g = h
    <3>1. PICK t : db' = Erase(db, deleting[g], t)
                   /\ todo' = [todo EXCEPT ![g] = @ \ {t}]
      BY <1>3, <2>3 DEF DeleteRecord
    <3>2. r.id = deleting[g] /\ r.at # t
      BY <2>1, <3>1 DEF FoundOfTrack, Erase
    <3> QED BY <2>1, <3>1, <3>2
  <2> QED BY <2>2, <2>3
<1>4. ASSUME NEW h \in Goroutines, DeleteDone(h) \/ DeleteFails(h)
      PROVE  r.at \in todo'[g]
  BY <1>1, <1>4 DEF DeleteDone, DeleteFails, ReturnFromDelete
<1>5. CASE PutBins \/ FlushFails \/ ApplyLate
  <2>1. found' = found /\ todo' = todo
    BY <1>5 DEF PutBins, FlushFails, EndFlush, ApplyLate
  <2>2. ~(PutBins /\ r = batch[written + 1])
    BY <2>1, WriteIsNew DEF StoreIsSettled
  <2>3. r \notin late
    BY <2>1 DEF LateIsNew
  <2>4. r \in db
    BY <2>2, <2>3, StoreOrigin
  <2> QED BY <1>1, <2>1, <2>4
<1>6. CASE Crash
  BY <1>6 DEF Crash
<1>7. ASSUME \/ \E s \in sending : Send(s)
             \/ \E h \in Goroutines, id \in Ids : CreateTrackHistory(h, id)
             \/ Receive \/ TimerCase \/ FlushDone
             \/ TimerFires \/ Tick \/ Restart
             \/ UNCHANGED historyVars
      PROVE  UNCHANGED <<db, todo, found>>
  BY <1>7 DEF Send, CreateTrackHistory, Receive, TimerCase, FlushDone,
              EndFlush, TimerFires, Tick, Restart, historyVars
<1> QED BY <1>1, <1>2, <1>3, <1>4, <1>5, <1>6, <1>7
           DEF HistoryNext, CallStep, DeleteStep, WorkerStep

LEMMA InitInvariant == HistoryInit => IInv
BY PipelineConfig
   DEF HistoryInit, IInv, TypeOK, Time, Record, InFlightInOrder, OneRecordEach,
       StoreIsSettled, LateIsNew, FoundOfTrack, ScanCovers, BatchBounded, BatchLimit

LEMMA StepInvariant == IInv /\ [HistoryNext]_historyVars => IInv'
<1>1. IInv /\ [HistoryNext]_historyVars =>
        TypeOK' /\ InFlightInOrder' /\ OneRecordEach' /\ BatchBounded'
  BY TypeStep, InFlightStep, OneRecordStep, BatchStep DEF IInv
<1>2. IInv /\ [HistoryNext]_historyVars =>
        StoreIsSettled' /\ LateIsNew' /\ FoundOfTrack' /\ ScanCovers'
  BY StoreStep, LateStep, FoundStep, ScanStep DEF IInv
<1> QED BY <1>1, <1>2 DEF IInv

\* The inductive invariant holds in every state.
THEOREM Invariance == HistorySpec => []IInv
BY InitInvariant, StepInvariant, PTL DEF HistorySpec

-----------------------------------------------------------------------------
(* The properties *)

\* Between a handler's send and the worker's write no record is lost, doubled
\* or reordered, for every capacity and batch size.
THEOREM InFlight == HistorySpec => []InFlightInOrder
<1>1. IInv => InFlightInOrder
  BY DEF IInv
<1> QED BY <1>1, Invariance, PTL

\* A DeleteTrackHistory call leaves nothing of what its scan has passed.
THEOREM ScansCover == HistorySpec => []ScanCovers
<1>1. IInv => ScanCovers
  BY DEF IInv
<1> QED BY <1>1, Invariance, PTL

\* Whenever the worker waits in its select, the timer fires or has fired, whatever
\* flush came before, so that a batch that does not fill is flushed.
THEOREM TimerIsLive == HistorySpec => []TimerLive
<1>1. HistoryInit => TimerLive
  BY DEF HistoryInit, TimerLive
<1>2. TimerLive /\ [HistoryNext]_historyVars => TimerLive'
  <2> SUFFICES ASSUME TimerLive, [HistoryNext]_historyVars PROVE TimerLive'
    OBVIOUS
  <2> USE DEF TimerLive
  <2>1. CASE Receive \/ TimerCase
    BY <2>1 DEF Receive, TimerCase
  <2>2. CASE PutBins \/ FlushDone \/ FlushFails
    BY <2>2 DEF PutBins, FlushDone, FlushFails, EndFlush, Flushing
  <2>3. CASE TimerFires \/ Crash \/ Restart
    BY <2>3 DEF TimerFires, Crash, Restart
  <2>4. ASSUME Tick \/ ApplyLate \/ UNCHANGED historyVars \/ (\E r \in sending : Send(r))
                \/ \E g \in Goroutines :
                     DeleteStep(g) \/ \E id \in Ids : CreateTrackHistory(g, id) \/ QueryHistory(g, id)
        PROVE  UNCHANGED <<worker, timer>>
    BY <2>4 DEF Tick, ApplyLate, historyVars, workerVars, Send, DeleteStep, DeleteRecord, DeleteDone,
                DeleteFails, ReturnFromDelete, CreateTrackHistory, QueryHistory
  <2> QED BY <2>1, <2>2, <2>3, <2>4 DEF HistoryNext, CallStep, WorkerStep
<1> QED BY <1>1, <1>2, PTL DEF HistorySpec

\* No record that is still on its way is in the store or in a write that timed
\* out, and none is in both: it is written at most once.
THEOREM AtMostOneWrite == HistorySpec => []WrittenOnce
<1>1. IInv => WrittenOnce
  <2> SUFFICES ASSUME IInv, NEW r \in InMemory, r \in db \cup late PROVE FALSE
    BY DEF WrittenOnce, IInv, LateIsNew
  <2>0. r \in Record
    BY DEF IInv, TypeOK, InMemory
  <2> USE DEF IInv, TypeOK
  <2>1. PICK k \in 1..Settled : sent[k] = r
    BY <2>0 DEF StoreIsSettled, IsSettled
  <2>2. /\ Len(sent) \in Nat /\ Len(historyCh) \in Nat /\ Len(batch) \in Nat
        /\ written \in 0..Len(batch) /\ Len(historyCh) + Len(batch) <= Len(sent)
    BY DEF InFlightInOrder
  <2>3. k \in 1..Len(sent) /\ k <= Len(sent) - Len(historyCh) - Len(batch) + written
    BY <2>1, <2>2 DEF Settled
  <2>4. CASE r \in sending
    BY <2>1, <2>3, <2>4 DEF OneRecordEach
  <2>5. ASSUME NEW j \in 1..Len(sent), j # k, sent[j] = r
        PROVE  FALSE
    BY <2>1, <2>3, <2>5 DEF OneRecordEach
  <2>6. ASSUME NEW i \in 1..Len(historyCh), r = historyCh[i]
        PROVE  FALSE
    <3>1. sent[Len(sent) - Len(historyCh) + i] = r
      BY <2>6 DEF InFlightInOrder
    <3>2. /\ Len(sent) - Len(historyCh) + i \in 1..Len(sent)
          /\ Len(sent) - Len(historyCh) + i # k
      BY <2>2, <2>3
    <3> QED BY <2>5, <3>1, <3>2
  <2>7. ASSUME NEW i \in (written + 1)..Len(batch), r = batch[i]
        PROVE  FALSE
    <3>1. i \in 1..Len(batch) /\ i > written
      BY <2>2
    <3>2. sent[Len(sent) - Len(historyCh) - Len(batch) + i] = r
      BY <2>7, <3>1 DEF InFlightInOrder
    <3>3. /\ Len(sent) - Len(historyCh) - Len(batch) + i \in 1..Len(sent)
          /\ Len(sent) - Len(historyCh) - Len(batch) + i # k
      BY <2>2, <2>3, <3>1
    <3> QED BY <2>5, <3>2, <3>3
  <2> QED BY <2>4, <2>6, <2>7 DEF InMemory
<1> QED BY <1>1, Invariance, PTL

\* A record leaves the store by a delete of its track, in time or late, or under
\* another record of its key, and in no other way.
THEOREM LeavesOnlyByKey == HistorySpec => LeavesByItsKey
<1>1. ASSUME IInv, [HistoryNext]_historyVars,
             NEW r \in db \ db'
      PROVE  \/ \E g \in Goroutines : deleting[g] = r.id
             \/ [id |-> r.id, at |-> r.at] \in late \ late'
             \/ \E s \in db' \ db : SameKey(r, s)
  <2> USE <1>1 DEF queueVars, workerVars, deleteVars, storeVars
  <2>0. CASE ApplyLate
    <3>1. PICK c \in late : /\ db' = IF c \in Record THEN Put(db, c) ELSE Erase(db, c.id, c.at)
                            /\ late' = late \ {c}
      BY <2>0 DEF ApplyLate
    <3>2. CASE c \in Record
      <4>1. c \notin db
        BY DEF IInv, LateIsNew
      <4> QED  BY <3>1, <3>2, <4>1 DEF Put
    <3>3. CASE c \notin Record
      <4>1. c \in Key /\ r.id = c.id /\ r.at = c.at
        BY <3>1, <3>3 DEF Erase, IInv, TypeOK
      <4>2. c = [id |-> r.id, at |-> r.at]
        BY <4>1 DEF Key
      <4> QED  BY <3>1, <4>2
    <3> QED  BY <3>2, <3>3
  <2>1. CASE PutBins
    <3>1. db' = Put(db, batch[written + 1])
      BY <2>1 DEF PutBins
    <3>2. batch[written + 1] \notin db
      BY <2>1, WriteIsNew DEF IInv, StoreIsSettled
    <3> QED BY <3>1, <3>2 DEF Put
  <2>2. ASSUME NEW g \in Goroutines, DeleteStep(g)
        PROVE  deleting[g] = r.id
    BY <2>2 DEF DeleteStep, DeleteRecord, DeleteDone, DeleteFails, Erase, OfTrack
  <2>3. ASSUME \/ \E s \in sending : Send(s)
               \/ \E h \in Goroutines, id \in Ids :
                    CreateTrackHistory(h, id) \/ QueryHistory(h, id)
               \/ Receive \/ TimerCase \/ FlushDone \/ FlushFails
               \/ TimerFires \/ Tick \/ Crash \/ Restart
               \/ UNCHANGED historyVars
        PROVE  FALSE
    BY <2>3 DEF Send, CreateTrackHistory, QueryHistory, Receive, TimerCase,
                FlushDone, FlushFails, TimerFires, Tick, Crash, Restart, historyVars
  <2> QED BY <2>0, <2>1, <2>2, <2>3 DEF HistoryNext, CallStep, WorkerStep
<1>2. IInv /\ [HistoryNext]_historyVars =>
        [\A r \in db \ db' :
           \/ \E g \in Goroutines : deleting[g] = r.id
           \/ [id |-> r.id, at |-> r.at] \in late \ late'
           \/ \E s \in db' \ db : SameKey(r, s)]_historyVars
  BY <1>1
<1> QED BY <1>2, Invariance, PTL DEF HistorySpec, LeavesByItsKey

\* A record that is settled, not in the store and not in a write that timed out
\* never comes to be there again: one that was deleted stays deleted, one that was
\* given up or lost is not written later, and one that was replaced does not
\* replace its replacement. (A record that is accepted but not settled may yet be
\* written after a deletion of its track, which RemovedHistoryIsGone is about, and
\* so may one whose write timed out.)
SettledForGood ==
  [][\A i \in 1..Settled :
       sent[i] \notin db \cup late => sent'[i] \notin db' \cup late']_historyVars

THEOREM NoneComesBack == HistorySpec => SettledForGood
<1>1. ASSUME IInv, [HistoryNext]_historyVars,
             NEW i \in 1..Settled, sent[i] \notin db \cup late, sent'[i] \in db' \cup late'
      PROVE  FALSE
  <2>1. Settled \in 0..Len(sent) /\ Len(sent) \in Nat
    BY <1>1, SettledGrows DEF IInv, TypeOK
  <2>2. sent'[i] = sent[i]
    BY <1>1, <2>1, SettledGrows DEF IInv
  <2>3. sent[i] \in Record
    BY <1>1, <2>1 DEF IInv, TypeOK
  <2>4. (PutBins \/ FlushFails) /\ sent[i] = batch[written + 1]
    BY <1>1, <2>2, <2>3, StoreOrigin DEF IInv
  <2>5. IsSettled(batch[written + 1])
    BY <2>4 DEF IsSettled
  <2> QED BY <1>1, <2>4, <2>5, WriteIsNew
<1>2. IInv /\ [HistoryNext]_historyVars =>
        [\A i \in 1..Settled :
           sent[i] \notin db \cup late => sent'[i] \notin db' \cup late']_historyVars
  BY <1>1
<1> QED BY <1>2, Invariance, PTL DEF HistorySpec, SettledForGood

-----------------------------------------------------------------------------
(* The pipeline implements the log: what each step is in it. *)

LEMMA SendIsAccept ==
  ASSUME IInv, NEW r \in sending, Send(r)
  PROVE  Log!Accept
<1> USE DEF IInv, TypeOK, queueVars, workerVars, deleteVars, storeVars
<1>1. r \in Log!LogRecord /\ sent' = Append(sent, r) /\ db' = db /\ late' = late
  BY DEF Send, Record, Time, Log!LogRecord
<1>2. \A i \in 1..Len(sent) : sent[i].by # r.by
  BY DEF OneRecordEach
<1>3. Settled' = Settled
  BY DEF Send, Settled
<1> QED BY <1>1, <1>2, <1>3 DEF Log!Accept

LEMMA WriteIsSettle ==
  ASSUME IInv, PutBins \/ FlushFails
  PROVE  Log!Settle \/ Log!GiveUp
<1> USE DEF IInv, TypeOK, queueVars, workerVars, deleteVars, storeVars
<1>1. /\ written < Len(batch) /\ sent' = sent /\ historyCh' = historyCh
      /\ Len(sent) \in Nat /\ Len(historyCh) \in Nat /\ Len(batch) \in Nat
      /\ written \in Nat
  BY DEF PutBins, FlushFails, EndFlush
<1>2. Settled + 1 \in 1..Len(sent) /\ batch[written + 1] = sent[Settled + 1]
  BY <1>1, NextOfBatch
<1>3. Put(db, batch[written + 1]) = Log!Store(sent[Settled + 1])
  BY <1>2 DEF Put, SameKey, Log!Store, Log!Without, Log!Key
<1>4. CASE PutBins
  <2>1. Settled' = Settled + 1
    BY <1>1, <1>4 DEF PutBins, Settled
  <2> QED BY <1>1, <1>2, <1>3, <1>4, <2>1 DEF PutBins, Log!Settle, Settled
<1>5. CASE FlushFails
  <2> DEFINE n == Len(batch) - written
  <2>1. batch' = <<>> /\ Len(batch') = 0 /\ written' = 0
    BY <1>5 DEF FlushFails, EndFlush
  <2>2. Settled' = Settled + n /\ Settled + n <= Len(sent)
    BY <1>1, <2>1 DEF Settled, InFlightInOrder
  <2>3. n \in 1..Log!BatchLimit
    BY <1>1, PipelineConfig DEF BatchBounded, BatchLimit, Log!BatchLimit
  <2>4. /\ db' = db
        /\ (late \cap Record)' \in {late \cap Record, (late \cap Record) \cup {sent[Settled + 1]}}
    <3>1. sent[Settled + 1] \in Record
      BY <1>2
    <3> QED  BY <1>2, <1>5, <3>1 DEF FlushFails, IsLate
  <2> QED BY <1>1, <2>2, <2>3, <2>4 DEF Log!GiveUp
<1> QED BY <1>4, <1>5

LEMMA DeleteIsForget ==
  ASSUME IInv, NEW g \in Goroutines, DeleteStep(g)
  PROVE  Log!Forget \/ UNCHANGED <<sent, Settled, late \cap Record, db>>
<1> USE DEF IInv, TypeOK, queueVars, workerVars, deleteVars, storeVars
<1>1. sent' = sent /\ Settled' = Settled
  BY DEF DeleteStep, DeleteRecord, DeleteDone, DeleteFails, ReturnFromDelete, Settled
<1>4. (late \cap Record)' = late \cap Record
  BY DeleteWrites, KeysAreNoRecords
<1>2. db' = db \/ \E id \in Ids, t \in Time : db' = Erase(db, id, t)
  BY DEF DeleteStep, DeleteRecord, DeleteDone, DeleteFails, OfTrack, Record
<1>3. ASSUME NEW id \in Ids, NEW t \in Time, db' = Erase(db, id, t)
      PROVE  Log!Forget
  <2>1. db' = Log!Without(db, <<id, t>>)
    BY <1>3 DEF Erase, Log!Without, Log!Key
  <2>2. <<id, t>> \in Ids \X (0..MaxTime)
    BY DEF Time
  <2> QED BY <1>1, <1>4, <2>1, <2>2 DEF Log!Forget
<1> QED BY <1>1, <1>2, <1>3, <1>4

LEMMA LateIsLate ==
  ASSUME IInv, ApplyLate
  PROVE  Log!WriteLate \/ Log!Forget
<1>1. PICK c \in late : /\ db' = IF c \in Record THEN Put(db, c) ELSE Erase(db, c.id, c.at)
                        /\ late' = late \ {c}
  BY DEF ApplyLate
<1>2. sent' = sent /\ Settled' = Settled
  BY DEF ApplyLate, queueVars, workerVars, Settled
<1>3. CASE c \in Record
  <2>1. Put(db, c) = Log!Store(c)
    BY DEF Put, SameKey, Log!Store, Log!Without, Log!Key
  <2> QED  BY <1>1, <1>2, <1>3, <2>1 DEF Log!WriteLate
<1>4. CASE c \notin Record
  <2>1. c \in Key /\ (late \cap Record)' = late \cap Record
    BY <1>1, <1>4 DEF IInv, TypeOK
  <2>2. Erase(db, c.id, c.at) = Log!Without(db, <<c.id, c.at>>)
    BY DEF Erase, Log!Without, Log!Key
  <2>3. <<c.id, c.at>> \in Ids \X (0..MaxTime)
    BY <2>1 DEF Key, Time
  <2> QED  BY <1>1, <1>2, <1>4, <2>1, <2>2, <2>3 DEF Log!Forget
<1> QED  BY <1>3, <1>4

LEMMA OthersAreInvisible ==
  ASSUME IInv, [HistoryNext]_historyVars,
         ~\E r \in sending : Send(r),
         ~\E g \in Goroutines : DeleteStep(g),
         ~PutBins, ~FlushFails, ~ApplyLate
  PROVE  Log!Lose \/ UNCHANGED <<sent, Settled, late \cap Record, db>>
<1> USE DEF IInv, TypeOK, queueVars, workerVars, deleteVars, storeVars
<1>1. ASSUME \/ \E g \in Goroutines, id \in Ids :
                   CreateTrackHistory(g, id) \/ QueryHistory(g, id)
             \/ TimerCase \/ TimerFires \/ Tick \/ Restart
             \/ UNCHANGED historyVars
      PROVE  UNCHANGED <<sent, Settled, late \cap Record, db>>
  BY <1>1 DEF CreateTrackHistory, QueryHistory, TimerCase, TimerFires, Tick,
              Restart, historyVars, Settled
<1>2. ASSUME Receive PROVE UNCHANGED <<sent, Settled, late \cap Record, db>>
  BY <1>2 DEF Receive, Settled
<1>3. ASSUME FlushDone PROVE UNCHANGED <<sent, Settled, late \cap Record, db>>
  BY <1>3 DEF FlushDone, EndFlush, Settled
<1>4. ASSUME Crash PROVE Log!Lose
  <2>1. Len(historyCh') = 0 /\ Len(batch') = 0 /\ written' = 0 /\ sent' = sent
    BY <1>4 DEF Crash
  <2> QED BY <1>4, <2>1 DEF Crash, Log!Lose, Settled
<1> QED BY <1>1, <1>2, <1>3, <1>4 DEF HistoryNext, CallStep, WorkerStep

\* Seen through the records accepted, settled and stored, the pipeline is the
\* log, for every capacity, batch size and number of handlers.
THEOREM Refinement == HistorySpec => ImplementsLog
<1>1. HistoryInit => Log!LogInit
  <2> SUFFICES ASSUME HistoryInit PROVE Log!LogInit
    OBVIOUS
  <2>1. Len(sent) = 0 /\ Len(historyCh) = 0 /\ Len(batch) = 0 /\ written = 0
    BY DEF HistoryInit
  <2>2. Settled = 0
    BY <2>1 DEF Settled
  <2>3. sent = <<>> /\ db = {} /\ late \cap Record = {}
    BY DEF HistoryInit
  <2> QED BY <2>2, <2>3 DEF Log!LogInit
<1>2. IInv /\ [HistoryNext]_historyVars => [Log!LogNext]_(Log!logVars)
  BY SendIsAccept, WriteIsSettle, DeleteIsForget, LateIsLate, OthersAreInvisible
     DEF Log!LogNext, Log!logVars
<1> QED BY <1>1, <1>2, Invariance, PTL DEF HistorySpec, ImplementsLog, Log!LogSpec
=============================================================================
