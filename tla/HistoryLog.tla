----------------------------- MODULE HistoryLog -----------------------------
(***************************************************************************)
(* What the history pipeline promises its callers, without its channel,    *)
(* batch, timer or scans: an append-only log of accepted records, settled  *)
(* strictly in the order of acceptance.  Settling the next record writes   *)
(* it, once; a failure gives up at most a batch of records from that point *)
(* on, the first of which may be written late; a crash gives up all that   *)
(* are not settled.  Records leave the store by key, when another record   *)
(* takes the key or the key is deleted.                                    *)
(***************************************************************************)
EXTENDS Naturals, Sequences

CONSTANTS Ids, Goroutines, BatchSize, MaxTime

VARIABLES sent, settled, late, db

logVars == <<sent, settled, late, db>>

LogRecord == [id : Ids, at : 0..MaxTime, by : Goroutines]

Key(r) == <<r.id, r.at>>

Without(store, key) == {r \in store : Key(r) # key}

Store(r) == Without(db, Key(r)) \cup {r}

\* A batch holds BatchSize records, and at least one.
BatchLimit == IF BatchSize = 0 THEN 1 ELSE BatchSize

LogInit == sent = <<>> /\ settled = 0 /\ late = {} /\ db = {}

\* A goroutine has its one record accepted.
Accept ==
  /\ \E r \in LogRecord :
       /\ \A i \in 1..Len(sent) : sent[i].by # r.by
       /\ sent' = Append(sent, r)
  /\ UNCHANGED <<settled, late, db>>

Settle ==
  /\ settled < Len(sent)
  /\ db' = Store(sent[settled + 1])
  /\ settled' = settled + 1
  /\ UNCHANGED <<sent, late>>

\* A failed write: it may still be applied.
GiveUp ==
  /\ \E n \in 1..BatchLimit :
       settled + n <= Len(sent) /\ settled' = settled + n
  /\ late' \in {late, late \cup {sent[settled + 1]}}
  /\ UNCHANGED <<sent, db>>

WriteLate ==
  /\ \E r \in late : db' = Store(r) /\ late' = late \ {r}
  /\ UNCHANGED <<sent, settled>>

Lose ==
  /\ settled' = Len(sent)
  /\ UNCHANGED <<sent, late, db>>

Forget ==
  /\ \E key \in Ids \X (0..MaxTime) : db' = Without(db, key)
  /\ UNCHANGED <<sent, settled, late>>

LogNext == Accept \/ Settle \/ GiveUp \/ WriteLate \/ Lose \/ Forget

LogSpec == LogInit /\ [][LogNext]_logVars
=============================================================================
