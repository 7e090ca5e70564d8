--------------------------- MODULE MCTrackHistory ---------------------------
(* TrackHistory for TLC. *)
EXTENDS TrackHistory, TLC

Symmetry == Permutations(Goroutines) \cup Permutations(Ids)
=============================================================================
