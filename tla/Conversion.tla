----------------------------- MODULE Conversion -----------------------------
(***************************************************************************)
(* convertIpcTrackToTrack (internal/service/track.go): what becomes of an  *)
(* update, depending on which of its optional fields are there. Every scalar*)
(* of the message is a pointer; some are checked before they are followed, *)
(* and some are not.                                                       *)
(***************************************************************************)
EXTENDS Naturals, Sequences

\* A part of the message: missing, whole, or without an inner field that is
\* dereferenced unchecked.
Parts == {"none", "whole", "broken"}

\* sources: SourceTracks (SourceInfo.Id); shape: AircraftInfo.Type1 (Type and
\* Proba); geodetic: GeodeticPosition.
IpcTracks ==
  [id : BOOLEAN, sources : Parts, info : BOOLEAN, aircraft : BOOLEAN,
   shape : Parts, geodetic : Parts, polar : BOOLEAN]

Stop(here, with) == [here |-> here, with |-> with]

\* Mutant of Stops: a message without a position is taken.
StopsWithoutPosition(m) ==
  << Stop(~m.id, "error"), Stop(m.sources = "broken", "panic"),
     Stop(~m.info \/ ~m.aircraft, "error"), Stop(m.shape = "broken", "panic"),
     Stop(m.geodetic = "broken", "panic"), Stop(~m.polar, "error") >>

\* Where the conversion ends before the last field, and with what, in the order
\* of the code.
Stops(m) ==
  << Stop(~m.id, "error"), Stop(m.sources = "broken", "panic"),
     Stop(~m.info \/ ~m.aircraft, "error"), Stop(m.shape = "broken", "panic"),
     Stop(m.geodetic = "none", "error"), Stop(m.geodetic = "broken", "panic"),
     Stop(~m.polar, "error") >>

\* Identification is set once the TrackInfo is converted: after the fourth.
IdentifiedAfter == 4

\* The track that is returned, with its error, or the panic.
Convert(m) ==
  LET hit == {i \in 1..Len(Stops(m)) : Stops(m)[i].here}
      end == CHOOSE i \in hit : \A j \in hit : i <= j
  IN  [result     |-> IF hit = {} THEN "ok" ELSE Stops(m)[end].with,
       identified |-> hit = {} \/ end > IdentifiedAfter,
       positioned |-> m.geodetic = "whole" /\ \A i \in hit : i > 6]

\* What processIpcTrackUpdate, which ignores the error, then works with: a "full"
\* track; a "partial" one that has an Identification; one that has none
\* ("unidentified", whose id is 0 if it was the id that was missing); or a panic
\* ("malformed").
Forms == {"full", "partial", "unidentified", "malformed"}

FormOf(m) ==
  LET c == Convert(m) IN
  CASE c.result = "panic" -> "malformed"
    [] c.result = "ok"    -> "full"
    [] c.result = "error" /\ c.identified  -> "partial"
    [] c.result = "error" /\ ~c.identified -> "unidentified"

-----------------------------------------------------------------------------
(* Properties *)

\* A track that is returned without an error has all that is used of it later
\* (track.go:79..83, track_history.go:18..29): the id, the position, and the
\* Identification that CreateTrackHistory dereferences.
AcceptedIsWhole(m) ==
  Convert(m).result = "ok" =>
    m.id /\ Convert(m).identified /\ Convert(m).positioned
=============================================================================
