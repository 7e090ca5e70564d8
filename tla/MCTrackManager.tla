--------------------------- MODULE MCTrackManager ---------------------------
(* TrackManager for TLC. *)
EXTENDS TrackManager, TLC

CONSTANTS k1, k2

\* The forms of an update are what the conversion yields, all of them.
ASSUME FormsOfConversion == Forms = {FormOf(m) : m \in IpcTracks}

Full(id)    == [kind |-> "update", id |-> id, form |-> "full"]
Removal(s)  == [kind |-> "remove", list |-> s]
Listing(s)  == [kind |-> "statistic", listed |-> s]

\* One track comes and goes; a statistic lists it or not.
OneTrack == {Full(k1), Removal(<<k1>>), Listing({}), Listing({k1})}

UpdatesAndRemovals ==
  {Full(k1), Removal(<<k1>>), [kind |-> "update", id |-> k1, form |-> "malformed"]}

\* A removal of several tracks among updates and a statistic.
TwoTracks == {Full(k1), Full(k2), Removal(<<k1, k2>>), Listing({k2})}

\* Two tracks, and every way a message may be wrong.
MixedMessages ==
  TwoTracks \cup {[kind |-> "update", id |-> k1, form |-> f] : f \in Forms}
    \cup {[kind |-> "other"], Removal(<<>>)}

Symmetry == Permutations(Goroutines)
=============================================================================
