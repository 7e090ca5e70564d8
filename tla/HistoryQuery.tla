---------------------------- MODULE HistoryQuery ----------------------------
(***************************************************************************)
(* GET /track-histories (internal/hapi/handlers/trackhistory/handler.go) and*)
(* FindByTrackId (internal/service/track_history.go): the newest records of*)
(* a track. Parameters are texts; numbers have their width.                *)
(***************************************************************************)
EXTENDS Integers, Sequences, FiniteSets, SequencesExt

CONSTANTS
  IntHalf,    \* 2^63: an int is in -IntHalf..(IntHalf - 1)
  Int32Half,  \* 2^31: an int32 is in -Int32Half..(Int32Half - 1)
  MaxLen,     \* the largest capacity that make([]TrackHistory, 0, n) accepts
  DefaultSize \* 1000

ASSUME QueryConfig ==
  /\ Int32Half \in Nat \ {0} /\ IntHalf \in Nat /\ Int32Half <= IntHalf
  /\ MaxLen \in Nat /\ DefaultSize \in Nat

IsInt32(n) == -Int32Half <= n /\ n < Int32Half

\* A query parameter: missing, not a number, or the text of n.
Missing  == [text |-> "missing", n |-> 0]
Malformed == [text |-> "malformed", n |-> 0]
Number(n) == [text |-> "number", n |-> n]

\* strconv.Atoi with its error ignored: 0 for a text that is no number, the
\* nearest int for a number that is out of range.
Atoi(p) ==
  IF p.n >= IntHalf THEN IntHalf - 1 ELSE IF p.n < -IntHalf THEN -IntHalf ELSE p.n

\* int32(n)
ToInt32(n) == ((n + Int32Half) % (2 * Int32Half)) - Int32Half

NumOfHistory(size) == IF size.text = "missing" THEN DefaultSize ELSE Atoi(size)

Newer(r, s) == r.at > s.at

\* sort.Slice: the records newest first.
Sorted(scan) ==
  LET n     == Len(scan)
      order == CHOOSE p \in Bijection(1..n, 1..n) :
                 \A i, j \in 1..n : i < j => ~Newer(scan[p[j]], scan[p[i]])
  IN  [i \in 1..n |-> scan[order[i]]]

Cut(items, n) == IF n > 0 /\ Len(items) > n THEN SubSeq(items, 1, n) ELSE items

\* Mutant of Newest: the result is cut before it is sorted.
NewestOfFirst(scan, n) == Sorted(Cut(scan, n))

Newest(scan, n) == Cut(Sorted(scan), n)

\* What FindByTrackId may do, for a scan of the store that delivers the track's
\* records in some order, or ends in an error.
FindByTrackId(db, track, n) ==
  {[status |-> "error", items |-> <<>>]} \cup
  IF n < 0 \/ n > MaxLen
    THEN {[status |-> "panic", items |-> <<>>]}
    ELSE {[status |-> "ok", items |-> Newest(scan, n)] :
            scan \in SetToSeqs({r \in db : r.id = ToInt32(track)})}

\* The handler: no track_id is a bad request.
FindByTrackIdHandler(db, track, size) ==
  IF track.text = "missing"
    THEN {[status |-> "bad request", items |-> <<>>]}
    ELSE FindByTrackId(db, Atoi(track), NumOfHistory(size))

-----------------------------------------------------------------------------
(* Properties *)

\* What is returned of a track is newest first, no more records than were asked
\* for (1000 if size is missing, all if it is 0 or not a number), and no record
\* is left out for an older one; whatever the order of the scan.
NewestAreReturned(db, track, size) ==
  \A res \in FindByTrackIdHandler(db, track, size) :
    res.status = "ok" =>
      LET items == res.items
          rest  == {r \in db : r.id = ToInt32(Atoi(track))} \ Range(items)
      IN  /\ Range(items) \subseteq db
          /\ \A i, j \in 1..Len(items) : i < j => Newer(items[i], items[j])
          /\ rest # {} => NumOfHistory(size) = Len(items) /\ items # <<>>
          /\ \A r \in rest : \A i \in 1..Len(items) : Newer(items[i], r)

\* The records are of one track: of the one that was asked for, if its id is an
\* int32 at all. Another number is cut to one, so that a track nobody asked for
\* is answered; a text that is no number asks for track 0.
TrackIsAsAsked(db, track, size) ==
  \A res \in FindByTrackIdHandler(db, track, size) :
    \A r, s \in Range(res.items) :
      /\ r.id = s.id
      /\ track.text = "number" /\ IsInt32(track.n) => r.id = track.n
      /\ track.text = "malformed" => r.id = 0
=============================================================================
