----------------------------- MODULE MCHelpers -----------------------------
(* TaskRunner and the pure functions for TLC: RunAllWithLimit runs, and when *)
(* all its tasks succeed one of the other functions is called, with inputs   *)
(* from small sets.                                                          *)
EXTENDS TaskRunner, Conversion, HistoryQuery, ArrayUtil, Hosts, FileUtil

VARIABLE call  \* the function that is called, and its arguments

Tuples(S, n) == UNION {[1..k -> S] : k \in 0..n}

\* Three records of track 1 and one of track -2.
Records == {[id |-> 1, at |-> t] : t \in 1..3} \cup {[id |-> -2, at |-> 2]}

\* Numbers past both ends of int32 and of int.
Texts == {Missing, Malformed} \cup {Number(n) : n \in -10..10}

Elements == {1, 2, Nil}

Entries == {[form |-> f, host |-> "a", port |-> "p1"] : f \in EntryForms}
             \cup {[form |-> "name:port", host |-> "b", port |-> "p2"]}

\* Every tree with at most two names in a folder and two levels.
Names == {1, 2}
Paths == {<<n>> : n \in Names} \cup (Names \X Names)
Trees ==
  {[dirs  |-> {<<>>} \cup {p \in Paths : kind[p] = "dir"},
    files |-> [f \in {p \in Paths : kind[p] = "file"} |-> Data(f)]] :
     kind \in {k \in [Paths -> {"none", "file", "dir"}] :
                 \A p \in Names \X Names : k[p] # "none" => k[Front(p)] = "dir"}}

\* Where Unzip unpacks: there is never anything at <<3>>.
Targets == {<<2>>, <<3>>}

\* Regular expressions by the names that they match, and one that is none.
Patterns == {[valid |-> TRUE, matches |-> s] : s \in SUBSET Names}
              \cup {[valid |-> FALSE, matches |-> {}]}

Called(f, args) == call' = <<f, args>>

Call ==
  \/ \E m \in IpcTracks : Called("convert", m)
  \/ \E db \in SUBSET Records, track, size \in Texts : Called("find", <<db, track, size>>)
  \/ \E arr, elms \in Tuples(Elements, 3) : Called("array", <<arr, elms>>)
  \/ \E entries \in Tuples(Entries, 3) : Called("hosts", entries)
  \/ \E fs \in Trees :
       \/ \E src \in Paths, des \in Paths : Called("copy", <<fs, src, des>>)
       \/ \E paths \in Tuples(Paths, 2), isRecreate \in BOOLEAN :
            Called("folders", <<fs, paths, isRecreate>>)
       \/ \E dir \in {<<>>} \cup Paths, to \in Paths, target \in Targets, flushed \in BOOLEAN :
            Called("zip", <<fs, dir, to, target, flushed>>)
       \/ \E dir \in {<<>>} \cup Paths, pattern \in Patterns, recurse, includeDirPath \in BOOLEAN :
            Called("search", <<fs, dir, pattern, recurse, includeDirPath>>)

HelpersInit == RunnerInit /\ call = <<"RunAllWithLimit", <<>>>>

HelpersNext ==
  \/ RunnerNext /\ UNCHANGED call
  \/ /\ caller = "returned" /\ failed = {} /\ call[1] = "RunAllWithLimit"
     /\ Call
     /\ UNCHANGED runnerVars

HelpersSpec ==
  /\ HelpersInit /\ [][HelpersNext]_<<runnerVars, call>>
  /\ WF_runnerVars(CallerStep)
  /\ \A t \in Tasks : WF_runnerVars(TaskStep(t))

-----------------------------------------------------------------------------
(* The properties of the modules, of the call that is made *)

Of(f, P(_)) == call[1] = f => P(call[2])

\* What convertIpcTrackToTrack returns without an error can be used as the
\* handlers do, for every choice of missing fields.
ConversionIsWhole == Of("convert", AcceptedIsWhole)

\* GET /track-histories answers with the newest records, newest first, as many as
\* were asked for, in whatever order the store delivers them; and with records of
\* one track, the one asked for if there can be such a track, although ids are
\* texts, ints and int32s on the way.
QueryAnswers ==
  Of("find", LAMBDA a : /\ NewestAreReturned(a[1], a[2], a[3])
                        /\ TrackIsAsAsked(a[1], a[2], a[3]))

\* Unique keeps the first of equal elements; AppendUnique adds no element twice, even
\* if its arguments repeat one; Remove leaves what it leaves without them. All panic
\* exactly when they have to compare a nil pointer.
ArraysKeepValues ==
  Of("array", LAMBDA a : /\ UniqueKeepsFirsts(a[1])
                         /\ PanicsAtNil(a[1], a[2])
                         /\ AddedOnceAndRemoved(a[1], a[2]))

\* ConnectDatabase gets every configured host with its own port or the default one.
HostsAreKept ==
  Of("hosts", LAMBDA a : HostsAreConfigured(a, [host |-> "c", port |-> "default"]))

\* CopyFile, wherever it fails, harms no file but the destination.
CopyKeepsFiles == Of("copy", LAMBDA a : CopyIsFaithful(a[1], a[2], a[3]))

\* CreateFolders leaves all folders, and empty ones if it recreates them, also if
\* they contain one another; and if it fails it has lost no other file.
FoldersAreMade == Of("folders", LAMBDA a : FoldersAreFresh(a[1], a[2], a[3]))

\* Unzip of what Zip has made restores every file at its place, wherever the archive
\* and the target are; Zip and Unzip touch no other file.
ZipRoundTrip == Of("zip", LAMBDA a : ZipKeepsFiles(a[1], a[2], a[3], a[4], a[5]))

\* file.go:175: "Zip all files and folders in dir path". An empty folder is lost.
FoldersAreZipped == Of("zip", LAMBDA a : ZipKeepsFolders(a[1], a[2], a[3], a[4], a[5]))

\* SearchFiles finds every file of a matching name once, and no other, and names
\* the same files with and without their paths.
SearchIsExact == Of("search", LAMBDA a : SearchFindsAll(a[1], a[2], a[3], a[4], a[5]))
=============================================================================
