---------------------------- MODULE HelperProofs ----------------------------
(***************************************************************************)
(* The pure functions are correct for all their inputs.                    *)
(***************************************************************************)
EXTENDS MCHelpers, SequenceFolds

\* The inputs of the calls that MCHelpers makes.
InputsInv ==
  /\ call[1] = "convert" => call[2] \in IpcTracks
  /\ call[1] = "find" =>
       \E db \in SUBSET Records, track, size \in Texts : call[2] = <<db, track, size>>
  /\ call[1] = "array" =>
       \E arr, elms \in Tuples(Elements, 3) : call[2] = <<arr, elms>>
  /\ call[1] = "hosts" => call[2] \in Tuples(Entries, 3)
  /\ call[1] = "copy" =>
       \E fs \in Trees, src, des \in Paths : call[2] = <<fs, src, des>>
  /\ call[1] = "folders" =>
       \E fs \in Trees, paths \in Tuples(Paths, 2), isRecreate \in BOOLEAN :
         call[2] = <<fs, paths, isRecreate>>
  /\ call[1] = "zip" =>
       \E fs \in Trees, dir \in {<<>>} \cup Paths, to \in Paths, target \in Targets,
          flushed \in BOOLEAN :
         call[2] = <<fs, dir, to, target, flushed>>
  /\ call[1] = "search" =>
       \E fs \in Trees, dir \in {<<>>} \cup Paths, pattern \in Patterns,
          recurse, includeDirPath \in BOOLEAN :
         call[2] = <<fs, dir, pattern, recurse, includeDirPath>>

\* Every call is made with inputs of its kind.
LEMMA Inputs == HelpersSpec => []InputsInv
<1>1. HelpersInit => InputsInv
  BY DEF HelpersInit, InputsInv
<1>2. InputsInv /\ [HelpersNext]_<<runnerVars, call>> => InputsInv'
  <2> SUFFICES ASSUME InputsInv, [HelpersNext]_<<runnerVars, call>> PROVE InputsInv'
    OBVIOUS
  <2>1. CASE UNCHANGED call
    BY <2>1 DEF InputsInv
  <2>2. CASE Call
    <3>0. \A f, args : Called(f, args) => call'[1] = f /\ call'[2] = args
      BY DEF Called
    <3>1. CASE \E m \in IpcTracks :
                 Called("convert", m)
      BY <3>0, <3>1 DEF InputsInv
    <3>2. CASE \E db \in SUBSET Records, track, size \in Texts :
                 Called("find", <<db, track, size>>)
      BY <3>0, <3>2 DEF InputsInv
    <3>3. CASE \E arr, elms \in Tuples(Elements, 3) :
                 Called("array", <<arr, elms>>)
      BY <3>0, <3>3 DEF InputsInv
    <3>4. CASE \E entries \in Tuples(Entries, 3) :
                 Called("hosts", entries)
      BY <3>0, <3>4 DEF InputsInv
    <3>5. CASE \E fs \in Trees, src \in Paths, des \in Paths :
                 Called("copy", <<fs, src, des>>)
      BY <3>0, <3>5 DEF InputsInv
    <3>6. CASE \E fs \in Trees, paths \in Tuples(Paths, 2), isRecreate \in BOOLEAN :
                 Called("folders", <<fs, paths, isRecreate>>)
      BY <3>0, <3>6 DEF InputsInv
    <3>7. CASE \E fs \in Trees, dir \in {<<>>} \cup Paths, to \in Paths, target \in Targets,
                  flushed \in BOOLEAN :
                 Called("zip", <<fs, dir, to, target, flushed>>)
      BY <3>0, <3>7 DEF InputsInv
    <3>8. CASE \E fs \in Trees, dir \in {<<>>} \cup Paths, pattern \in Patterns,
                  recurse, includeDirPath \in BOOLEAN :
                 Called("search", <<fs, dir, pattern, recurse, includeDirPath>>)
      BY <3>0, <3>8 DEF InputsInv
    <3> QED  BY <2>2, <3>1, <3>2, <3>3, <3>4, <3>5, <3>6, <3>7, <3>8 DEF Call
  <2> QED  BY <2>1, <2>2 DEF HelpersNext
<1> QED  BY <1>1, <1>2, PTL DEF HelpersSpec

-----------------------------------------------------------------------------
(* Conversion *)

\* A message that passes every check of convertIpcTrackToTrack is whole.
THEOREM Converted ==
  ASSUME NEW m \in IpcTracks
  PROVE  AcceptedIsWhole(m)
<1> SUFFICES ASSUME Convert(m).result = "ok"
             PROVE  m.id /\ Convert(m).identified /\ Convert(m).positioned
  BY DEF AcceptedIsWhole
<1> DEFINE hit == {i \in 1..Len(Stops(m)) : Stops(m)[i].here}
<1>1. Len(Stops(m)) = 7
  BY DEF Stops
<1>2. \A i \in 1..7 : Stops(m)[i].with # "ok"
  BY DEF Stops, Stop
<1>3. hit = {}
  <2> SUFFICES ASSUME hit # {} PROVE FALSE
    OBVIOUS
  <2> DEFINE end == CHOOSE i \in hit : \A j \in hit : i <= j
  <2>0. hit \in SUBSET Nat
    OBVIOUS
  <2>1. end \in 1..7
    <3>1. \E i \in hit : \A j \in hit : i <= j
      BY <2>0, LeastExists
    <3>2. end \in hit
      BY <3>1, Zenon
    <3> QED  BY <1>1, <3>2
  <2>2. Convert(m).result = Stops(m)[end].with
    BY DEF Convert
  <2> QED  BY <1>2, <2>1, <2>2
<1>4. \A i \in 1..7 : ~Stops(m)[i].here
  BY <1>1, <1>3
<1>5. m.id /\ m.geodetic \notin {"none", "broken"}
  <2>1. ~Stops(m)[1].here /\ ~Stops(m)[5].here /\ ~Stops(m)[6].here
    BY <1>4
  <2> QED  BY <2>1 DEF Stops, Stop, IpcTracks
<1>6. m.geodetic = "whole"
  BY <1>5 DEF IpcTracks, Parts
<1>7. Convert(m).identified /\ Convert(m).positioned
  BY <1>3, <1>6 DEF Convert
<1> QED  BY <1>5, <1>7

\* What convertIpcTrackToTrack accepts is whole.
THEOREM AcceptedWhole == HelpersSpec => []ConversionIsWhole
<1>1. InputsInv => ConversionIsWhole
  BY Converted DEF InputsInv, ConversionIsWhole, Of
<1> QED  BY <1>1, Inputs, PTL

-----------------------------------------------------------------------------
(* Hosts *)

\* The tuples of MCHelpers are sequences.
LEMMA TuplesAreSequences ==
  ASSUME NEW S, NEW n \in Nat, NEW t \in Tuples(S, n)
  PROVE  t \in Seq(S)
BY DEF Tuples

\* The loop of buildHosts, and the hosts after each turn.
HostsFold(entries) == FoldLeft(LAMBDA hosts, e : hosts \o Parse(e), <<>>, entries)

HostsTurns(h, entries, H) ==
  /\ h \in [0..Len(entries) -> Seq(H)] /\ h[0] = <<>>
  /\ \A i \in 1..Len(entries) : h[i] = h[i - 1] \o Parse(entries[i])
  /\ h[Len(entries)] = HostsFold(entries)

\* The fold over the entries is a loop.
LEMMA HostsLoop ==
  ASSUME NEW E, NEW H, NEW entries \in Seq(E), \A e \in E : Parse(e) \in Seq(H)
  PROVE  \E h : HostsTurns(h, entries, H)
<1> DEFINE n == Len(entries)
           A == Seq(H)
           F == [i \in 1..n |-> [a \in A |-> a \o Parse(entries[i])]]
           Body(iter) == [s \in SUBSET (DOMAIN entries) |->
                            IF s = {} THEN <<>>
                            ELSE iter[s \ {Max(s)}] \o Parse(entries[Max(s)])]
           it == CHOOSE iter : iter = Body(iter)
<1>1. n \in Nat /\ DOMAIN entries = 1..n /\ \A i \in 1..n : entries[i] \in E
  OBVIOUS
<1>2. <<>> \in A /\ F \in [1..n -> [A -> A]]
  BY <1>1
<1>3. PICK g : Iterates(g, n, A, <<>>, F)
  <2> HIDE DEF F, A
  <2> QED  BY <1>1, <1>2, FoldExists
<1>4. \A s \in SUBSET (1..n) : s # {} => Max(s) \in 1..n /\ s \ {Max(s)} \in SUBSET (1..n)
  BY <1>1, MaxOfRange
<1>5. g = Body(g)
  BY <1>1, <1>3, <1>4 DEF Iterates
<1>6. it = Body(it)
  <2> HIDE DEF Body
  <2> QED  BY <1>5
<1>7. HostsFold(entries) = it[1..n]
  BY <1>1 DEF HostsFold, FoldLeft, MapThenFoldSet
<1> HIDE DEF it
<1>8. Recurs(it, n, A, <<>>, F)
  BY <1>1, <1>4, <1>6 DEF Recurs
<1>9. PICK h : Loops(h, n, A, <<>>, F, it[1..n])
  <2> HIDE DEF F, A
  <2> QED  BY <1>1, <1>2, <1>8, FoldLoop
<1>10. \A i \in 1..n : h[i] = h[i - 1] \o Parse(entries[i])
  <2> TAKE i \in 1..n
  <2>1. h[i - 1] \in A /\ h[i] = F[i][h[i - 1]]
    <3> HIDE DEF F, A
    <3> QED  BY <1>1, <1>9, LoopStep
  <2> QED  BY <2>1
<1>11. h \in [0..n -> A] /\ h[0] = <<>> /\ h[n] = it[1..n]
  <2> HIDE DEF F, A
  <2> QED  BY <1>9 DEF Loops
<1>12. HostsTurns(h, entries, H)
  BY <1>7, <1>10, <1>11 DEF HostsTurns
<1> QED  BY <1>12

\* How many of the first k entries are not blank.
Rank(entries, k) == Cardinality({j \in Named(entries) : j <= k})

\* Ranks count the entries that are not blank, one by one.
LEMMA Ranks ==
  ASSUME NEW E, NEW entries \in Seq(E)
  PROVE  /\ \A k \in 0..Len(entries) : Rank(entries, k) \in Nat
         /\ Rank(entries, 0) = 0
         /\ Rank(entries, Len(entries)) = Cardinality(Named(entries))
         /\ \A k \in 1..Len(entries) :
              Rank(entries, k) =
                Rank(entries, k - 1) + (IF k \in Named(entries) THEN 1 ELSE 0)
         /\ \A i, k \in 0..Len(entries) : i <= k => Rank(entries, i) <= Rank(entries, k)
<1> DEFINE upTo(k) == {j \in Named(entries) : j <= k}
<1>1. Named(entries) \in SUBSET (1..Len(entries)) /\ IsFiniteSet(1..Len(entries))
  BY FS_Interval DEF Named
<1>2. \A k \in Nat : upTo(k) \in SUBSET (1..Len(entries))
  BY <1>1
<1>3. \A k \in Nat : IsFiniteSet(upTo(k)) /\ Cardinality(upTo(k)) \in Nat
  BY <1>1, <1>2, FS_Subset, FS_CardinalityType
<1>4. Rank(entries, 0) = 0
  <2>1. upTo(0) = {}
    BY <1>1
  <2> QED  BY <2>1, FS_EmptySet DEF Rank
<1>5. Rank(entries, Len(entries)) = Cardinality(Named(entries))
  <2>1. upTo(Len(entries)) = Named(entries)
    BY <1>1
  <2> QED  BY <2>1 DEF Rank
<1>6. ASSUME NEW k \in 1..Len(entries)
      PROVE  Rank(entries, k) =
               Rank(entries, k - 1) + (IF k \in Named(entries) THEN 1 ELSE 0)
  <2>1. k - 1 \in Nat /\ k \in Nat
    OBVIOUS
  <2>2. CASE k \in Named(entries)
    <3>1. upTo(k) = upTo(k - 1) \cup {k} /\ k \notin upTo(k - 1)
      BY <1>1, <2>1, <2>2
    <3>2. Cardinality(upTo(k)) = Cardinality(upTo(k - 1)) + 1
      BY <1>3, <2>1, <3>1, FS_AddElement
    <3> QED  BY <2>2, <3>2 DEF Rank
  <2>3. CASE k \notin Named(entries)
    <3>1. upTo(k) = upTo(k - 1)
      BY <1>1, <2>1, <2>3
    <3>2. Cardinality(upTo(k - 1)) \in Nat
      BY <1>3, <2>1
    <3>3. Rank(entries, k) = Rank(entries, k - 1) /\ Rank(entries, k - 1) \in Nat
      BY <3>1, <3>2 DEF Rank
    <3> QED  BY <2>3, <3>3
  <2> QED  BY <2>2, <2>3
<1>7. ASSUME NEW i \in 0..Len(entries), NEW k \in 0..Len(entries), i <= k
      PROVE  Rank(entries, i) <= Rank(entries, k)
  <2>1. upTo(i) \in SUBSET upTo(k) /\ IsFiniteSet(upTo(k))
    BY <1>1, <1>3, <1>7
  <2> QED  BY <2>1, FS_Subset DEF Rank
<1>8. \A k \in 0..Len(entries) : Rank(entries, k) \in Nat
  <2> TAKE k \in 0..Len(entries)
  <2>1. k \in Nat
    OBVIOUS
  <2>2. Cardinality(upTo(k)) \in Nat
    BY <1>3, <2>1
  <2> QED  BY <2>2 DEF Rank
<1> QED  BY <1>4, <1>5, <1>6, <1>7, <1>8

\* The host of an entry that is not blank.
HostOf(entry) ==
  [host |-> entry.host, port |-> IF entry.form = "name" THEN "default" ELSE entry.port]

\* A well-formed entry gives its host; a blank one gives none.
LEMMA Parsed ==
  ASSUME NEW e, e.form \in EntryForms \ {"name:text"}
  PROVE  Parse(e) = IF e.form = "blank" THEN <<>> ELSE <<HostOf(e)>>
BY DEF Parse, EntryForms, HostOf

\* After k turns the loop has the hosts of the first k entries.
LEMMA HostsOfPrefix ==
  ASSUME NEW E, NEW entries \in Seq(E), NEW H, NEW h,
         \A e \in E : e.form \in EntryForms \ {"name:text"} /\ HostOf(e) \in H,
         HostsTurns(h, entries, H)
  PROVE  \A k \in 0..Len(entries) :
           /\ Len(h[k]) = Rank(entries, k)
           /\ \A i \in Named(entries) :
                i <= k => h[k][Rank(entries, i)] = HostOf(entries[i])
<1> DEFINE P(k) == /\ Len(h[k]) = Rank(entries, k)
                   /\ \A i \in Named(entries) :
                        i <= k => h[k][Rank(entries, i)] = HostOf(entries[i])
           S == {k \in 0..Len(entries) : P(k)}
<1>1. Named(entries) \in SUBSET (1..Len(entries)) /\ Len(entries) \in Nat
  BY DEF Named
<1>2. 0 \in S
  BY <1>1, Ranks DEF HostsTurns
<1>3. ASSUME NEW k \in 1..Len(entries), k - 1 \in S PROVE k \in S
  <2>1. /\ k \in 0..Len(entries) /\ k - 1 \in 0..Len(entries)
        /\ entries[k] \in E
    OBVIOUS
  <2> HIDE DEF S, P
  <2>5. h[k - 1] \in Seq(H) /\ h[k] = h[k - 1] \o Parse(entries[k])
    BY <2>1 DEF HostsTurns
  <2>6. P(k - 1)
    BY <1>3 DEF S
  <2> USE DEF P
  <2>2. CASE k \notin Named(entries)
    <3>1. Parse(entries[k]) = <<>>
      BY <2>1, <2>2, Parsed DEF Named
    <3>2. h[k] = h[k - 1]
      BY <2>5, <3>1, ConcatEmptySeq
    <3>3. Rank(entries, k) = Rank(entries, k - 1)
      <4>1. Rank(entries, k) = Rank(entries, k - 1) + 0 /\ Rank(entries, k - 1) \in Nat
        BY <2>1, <2>2, Ranks
      <4> QED  BY <4>1
    <3>4. \A i \in Named(entries) : i <= k => i <= k - 1
      BY <1>1, <2>2
    <3>5. P(k)
      BY <2>6, <3>2, <3>3, <3>4
    <3> QED  BY <2>1, <3>5 DEF S
  <2>3. CASE k \in Named(entries)
    <3>1. Parse(entries[k]) = <<HostOf(entries[k])>> /\ HostOf(entries[k]) \in H
      BY <2>1, <2>3, Parsed DEF Named
    <3>2. /\ Len(h[k]) = Len(h[k - 1]) + 1
          /\ h[k][Len(h[k - 1]) + 1] = HostOf(entries[k])
          /\ \A j \in 1..Len(h[k - 1]) : h[k][j] = h[k - 1][j]
      <4> DEFINE one == <<HostOf(entries[k])>>
      <4>1. one \in Seq(H) /\ Len(one) = 1 /\ one[1] = HostOf(entries[k])
        BY <3>1
      <4> HIDE DEF one
      <4>2. h[k] = h[k - 1] \o one
        BY <2>5, <3>1 DEF one
      <4>3. /\ Len(h[k - 1] \o one) = Len(h[k - 1]) + Len(one)
            /\ \A i \in 1..(Len(h[k - 1]) + Len(one)) : (h[k - 1] \o one)[i] =
                 IF i <= Len(h[k - 1]) THEN h[k - 1][i] ELSE one[i - Len(h[k - 1])]
        BY <2>5, <4>1, ConcatProperties
      <4>4. Len(h[k - 1]) \in Nat
        BY <2>5
      <4> QED  BY <4>1, <4>2, <4>3, <4>4
    <3>3. Rank(entries, k) = Rank(entries, k - 1) + 1 /\ Rank(entries, k - 1) \in Nat
      BY <2>1, <2>3, Ranks
    <3>4. Len(h[k - 1]) = Rank(entries, k - 1)
      BY <2>6
    <3>5. ASSUME NEW i \in Named(entries), i <= k - 1
          PROVE  h[k][Rank(entries, i)] = HostOf(entries[i])
      <4>1. i \in 1..Len(entries) /\ i \in 0..Len(entries) /\ i - 1 \in 0..Len(entries)
        BY <1>1
      <4>2. Rank(entries, i) <= Rank(entries, k - 1) /\ Rank(entries, i) \in Nat
        BY <2>1, <3>5, <4>1, Ranks
      <4>3. Rank(entries, i) = Rank(entries, i - 1) + 1 /\ Rank(entries, i - 1) \in Nat
        BY <3>5, <4>1, Ranks
      <4>4. Rank(entries, i) \in 1..Len(h[k - 1])
        BY <3>3, <3>4, <4>2, <4>3
      <4> QED  BY <2>6, <3>2, <3>5, <4>4
    <3>6. \A i \in Named(entries) : i <= k => i <= k - 1 \/ i = k
      BY <1>1
    <3>7. P(k)
      BY <3>2, <3>3, <3>4, <3>5, <3>6
    <3> QED  BY <2>1, <3>7 DEF S
  <2> QED  BY <2>2, <2>3
<1> HIDE DEF S
<1>4. 0..Len(entries) \subseteq S
  BY <1>1, <1>2, <1>3, RangeInduction
<1> QED  BY <1>4 DEF S

\* buildHosts keeps every entry that is not blank, at its rank and with its port,
\* for every list of entries.
THEOREM HostsBuilt ==
  ASSUME NEW E, NEW entries \in Seq(E), \A e \in E : e.form \in EntryForms,
         NEW fallback
  PROVE  HostsAreConfigured(entries, fallback)
<1> SUFFICES ASSUME NEW hosts \in BuildHosts(entries, fallback), entries # <<>>
             PROVE  /\ Len(hosts) = Cardinality(Named(entries)) /\ hosts # <<>>
                    /\ \A i \in Named(entries) :
                         hosts[Rank(entries, i)] = HostOf(entries[i])
  <2>1. \A i \in Named(entries) : \A host : host = HostOf(entries[i]) =>
          /\ host.host = entries[i].host
          /\ host.port = IF entries[i].form = "name" THEN "default" ELSE entries[i].port
    BY DEF HostOf
  <2> QED  BY <2>1 DEF HostsAreConfigured, Rank
<1> DEFINE D == {e \in E : e.form # "name:text"}
           H == {HostOf(e) : e \in D}
<1>1. /\ hosts = HostsFold(entries) /\ hosts # <<>>
      /\ \A i \in DOMAIN entries : entries[i].form # "name:text"
  BY DEF BuildHosts, Failed, HostsFold
<1>2. entries \in Seq(D)
  <2>1. \A i \in 1..Len(entries) : entries[i] \in D
    BY <1>1
  <2> HIDE DEF D
  <2> QED  BY <2>1
<1>3. \A e \in D : e.form \in EntryForms \ {"name:text"} /\ HostOf(e) \in H
  OBVIOUS
<1> HIDE DEF D, H
<1>4. \A e \in D : Parse(e) \in Seq(H)
  <2> TAKE e \in D
  <2>1. <<>> \in Seq(H) /\ <<HostOf(e)>> \in Seq(H)
    BY <1>3
  <2>2. Parse(e) = <<>> \/ Parse(e) = <<HostOf(e)>>
    BY <1>3, Parsed
  <2> QED  BY <2>1, <2>2
<1>5. PICK h : HostsTurns(h, entries, H)
  BY <1>2, <1>4, HostsLoop
<1>6. Len(entries) \in 0..Len(entries) /\ \A i \in Named(entries) : i <= Len(entries)
  BY <1>2 DEF Named
<1>7. /\ Len(h[Len(entries)]) = Rank(entries, Len(entries))
      /\ \A i \in Named(entries) : h[Len(entries)][Rank(entries, i)] = HostOf(entries[i])
  BY <1>2, <1>3, <1>5, <1>6, HostsOfPrefix
<1>8. hosts = h[Len(entries)]
  BY <1>1, <1>5 DEF HostsTurns
<1> QED  BY <1>1, <1>2, <1>7, <1>8, Ranks

\* buildHosts keeps every host of the configuration with its port.
THEOREM HostsKept == HelpersSpec => []HostsAreKept
<1>1. \A e \in Entries : e.form \in EntryForms
  BY DEF Entries, EntryForms
<1>2. InputsInv => HostsAreKept
  BY <1>1, TuplesAreSequences, HostsBuilt DEF InputsInv, HostsAreKept, Of
<1> QED  BY <1>2, Inputs, PTL

-----------------------------------------------------------------------------
(* Queries of the history *)

\* What the conversion of ints relies on.
LEMMA ModSmall == ASSUME NEW a \in Nat, NEW m \in Nat \ {0}, a < m PROVE a % m = a
OBVIOUS
\* An int that fits in an int32 is converted to itself.
LEMMA ToInt32Same == ASSUME NEW n \in Int, IsInt32(n) PROVE ToInt32(n) = n
<1>1. n + Int32Half \in Nat /\ 2 * Int32Half \in Nat \ {0} /\ n + Int32Half < 2 * Int32Half
  BY QueryConfig DEF IsInt32
<1>2. (n + Int32Half) % (2 * Int32Half) = n + Int32Half
  BY <1>1, ModSmall
<1> QED BY <1>2, QueryConfig DEF ToInt32

\* One record comes before another in a stable sorted order.
Before(scan, i, j) == Newer(scan[i], scan[j]) \/ (~Newer(scan[j], scan[i]) /\ i < j)

\* The records of a finite scan can be sorted: each goes where its rank says.
LEMMA SortOrderExists ==
  ASSUME NEW R, \A r \in R : r.at \in Int, NEW scan \in Seq(R)
  PROVE  \E p \in Bijection(1..Len(scan), 1..Len(scan)) :
           \A i, j \in 1..Len(scan) : i < j => ~Newer(scan[p[j]], scan[p[i]])
<1> DEFINE n == Len(scan)
           D == 1..n
           B(i) == {j \in D : Before(scan, j, i)}
           rank == [i \in D |-> Cardinality(B(i)) + 1]
           p == [k \in D |-> CHOOSE i \in D : rank[i] = k]
<1>1. n \in Nat /\ IsFiniteSet(D) /\ Cardinality(D) = n
  <2>1. n \in Nat /\ n \in Int /\ 1 \in Int
    OBVIOUS
  <2> HIDE DEF n
  <2> QED  BY <2>1, FS_Interval
<1>2. \A i \in D : scan[i] \in R /\ scan[i].at \in Int
  OBVIOUS
<1>3. \A i \in D : IsFiniteSet(B(i)) /\ Cardinality(B(i)) \in Nat
  <2> TAKE i \in D
  <2>1. B(i) \in SUBSET D
    OBVIOUS
  <2> QED BY <1>1, <2>1, FS_Subset, FS_CardinalityType
<1>4. \A i \in D : Cardinality(B(i)) <= n - 1
  <2> TAKE i \in D
  <2>1. B(i) \in SUBSET (D \ {i})
    BY <1>2 DEF Before, Newer
  <2>2. IsFiniteSet(D \ {i}) /\ Cardinality(D \ {i}) = n - 1
    BY <1>1, FS_RemoveElement
  <2> QED BY <2>1, <2>2, FS_Subset
<1>5. rank \in [D -> D]
  <2>1. \A i \in D : Cardinality(B(i)) + 1 \in D
    <3> HIDE DEF B
    <3> QED  BY <1>1, <1>3, <1>4
  <2> HIDE DEF B
  <2> QED  BY <2>1
<1>6. \A i, j \in D : Before(scan, i, j) => rank[i] < rank[j]
  <2> SUFFICES ASSUME NEW i \in D, NEW j \in D, Before(scan, i, j) PROVE rank[i] < rank[j]
    OBVIOUS
  <2>1. B(i) \cup {i} \in SUBSET B(j) /\ i \notin B(i)
    BY <1>2 DEF Before, Newer
  <2>2. Cardinality(B(i) \cup {i}) = Cardinality(B(i)) + 1
    BY <1>3, <2>1, FS_AddElement
  <2>3. Cardinality(B(i) \cup {i}) <= Cardinality(B(j))
    BY <1>3, <2>1, FS_Subset
  <2>4. rank[i] = Cardinality(B(i)) + 1 /\ rank[j] = Cardinality(B(j)) + 1
    OBVIOUS
  <2> HIDE DEF rank, B
  <2> QED BY <1>3, <2>2, <2>3, <2>4
<1>7. \A i, j \in D : i # j => rank[i] # rank[j]
  <2> SUFFICES ASSUME NEW i \in D, NEW j \in D, i # j PROVE rank[i] # rank[j]
    OBVIOUS
  <2>1. Before(scan, i, j) \/ Before(scan, j, i)
    BY <1>2 DEF Before, Newer
  <2>2. rank[i] \in D /\ rank[j] \in D
    BY <1>5
  <2> HIDE DEF rank
  <2> QED BY <1>6, <2>1, <2>2
<1> HIDE DEF rank
<1>8. rank \in Surjection(D, D)
  <2>1. rank \in Injection(D, D)
    BY <1>5, <1>7 DEF Injection, IsInjective
  <2> QED BY <1>1, <2>1, FS_Injection
<1>9. \A k \in D : p[k] \in D /\ rank[p[k]] = k
  <2> TAKE k \in D
  <2>1. \E i \in D : rank[i] = k
    BY <1>8 DEF Surjection
  <2> QED BY <2>1
<1>10. \A i \in D : p[rank[i]] = i
  BY <1>5, <1>7, <1>9
<1> HIDE DEF p
<1>11. p \in [D -> D]
  BY <1>9 DEF p
<1>12. p \in Bijection(D, D)
  BY <1>5, <1>9, <1>10, <1>11 DEF Bijection, Injection, IsInjective, Surjection
<1>13. \A i, j \in D : i < j => ~Newer(scan[p[j]], scan[p[i]])
  <2> SUFFICES ASSUME NEW i \in D, NEW j \in D, i < j, Newer(scan[p[j]], scan[p[i]]) PROVE FALSE
    OBVIOUS
  <2>1. Before(scan, p[j], p[i])
    BY DEF Before
  <2>2. rank[p[j]] < rank[p[i]]
    BY <1>6, <1>9, <2>1
  <2> QED BY <1>9, <2>2
<1> QED BY <1>12, <1>13

\* What sort.Slice makes of the records: all of them, none before a newer one.
LEMMA SortedScan ==
  ASSUME NEW R, \A r \in R : r.at \in Int, NEW scan \in Seq(R)
  PROVE  /\ Sorted(scan) \in Seq(R)
         /\ Len(Sorted(scan)) = Len(scan)
         /\ \E p \in Bijection(1..Len(scan), 1..Len(scan)) :
              /\ \A i \in 1..Len(scan) : Sorted(scan)[i] = scan[p[i]]
              /\ \A i, j \in 1..Len(scan) : i < j => ~Newer(scan[p[j]], scan[p[i]])
<1> DEFINE n == Len(scan)
           Order(p) == \A i, j \in 1..n : i < j => ~Newer(scan[p[j]], scan[p[i]])
           order == CHOOSE p \in Bijection(1..n, 1..n) : Order(p)
<1>1. \E p \in Bijection(1..n, 1..n) : Order(p)
  BY SortOrderExists
<1>2. order \in Bijection(1..n, 1..n) /\ Order(order)
  <2> HIDE DEF Order, n
  <2> QED  BY <1>1
<1>3. Sorted(scan) = [i \in 1..n |-> scan[order[i]]]
  BY DEF Sorted
<1>4. \A i \in 1..n : order[i] \in 1..n
  BY <1>2 DEF Bijection, Injection
<1> HIDE DEF order
<1>5. \A i \in 1..n : scan[order[i]] \in R
  BY <1>4
<1>6. n \in Nat
  OBVIOUS
<1>7. Sorted(scan) \in Seq(R) /\ Len(Sorted(scan)) = n
  <2> HIDE DEF n
  <2> QED  BY <1>3, <1>5, <1>6
<1>8. \A i \in 1..n : Sorted(scan)[i] = scan[order[i]]
  BY <1>3
<1> QED  BY <1>2, <1>7, <1>8

\* A scan delivers each record of the set once.
LEMMA Scans ==
  ASSUME NEW S, IsFiniteSet(S), NEW scan \in SetToSeqs(S)
  PROVE  /\ scan \in Seq(S) /\ Range(scan) = S
         /\ \A i, j \in 1..Len(scan) : i # j => scan[i] # scan[j]
<1> DEFINE D == 1..Cardinality(S)
<1>1. Cardinality(S) \in Nat
  BY FS_CardinalityType
<1>2. scan \in [D -> S] /\ \A i, j \in D : i # j => scan[i] # scan[j]
  BY DEF SetToSeqs
<1>3. scan \in Seq(S) /\ Len(scan) = Cardinality(S)
  BY <1>1, <1>2
<1>4. scan \in Surjection(D, S)
  <2>1. scan \in Injection(D, S)
    BY <1>2 DEF Injection, IsInjective
  <2>2. Cardinality(D) = Cardinality(S)
    BY <1>1, FS_Interval
  <2> QED  BY <2>1, <2>2, FS_Injection
<1>5. Range(scan) = S
  BY <1>2, <1>4 DEF Surjection, Range
<1> QED  BY <1>2, <1>3, <1>5

\* The newest n records of a track whose records have different times.
LEMMA NewestOfScan ==
  ASSUME NEW T, IsFiniteSet(T), \A r \in T : r.at \in Int,
         \A r, s \in T : r.at = s.at => r = s,
         NEW n \in Nat, NEW scan \in SetToSeqs(T)
  PROVE  LET items == Newest(scan, n) IN
         /\ items \in Seq(T)
         /\ \A i, j \in 1..Len(items) : i < j => Newer(items[i], items[j])
         /\ T \ Range(items) # {} => n = Len(items) /\ items # <<>>
         /\ \A r \in T \ Range(items) : \A i \in 1..Len(items) : Newer(items[i], r)
<1> DEFINE all == Sorted(scan)
           items == Newest(scan, n)
<1>1. /\ scan \in Seq(T) /\ Range(scan) = T
      /\ \A i, j \in 1..Len(scan) : i # j => scan[i] # scan[j]
  BY Scans
<1>2. all \in Seq(T) /\ Len(all) = Len(scan)
  BY <1>1, SortedScan
<1>3. PICK p \in Bijection(1..Len(scan), 1..Len(scan)) :
        /\ \A i \in 1..Len(scan) : all[i] = scan[p[i]]
        /\ \A i, j \in 1..Len(scan) : i < j => ~Newer(scan[p[j]], scan[p[i]])
  BY <1>1, SortedScan
<1> HIDE DEF all
<1>4. /\ \A i \in 1..Len(scan) : p[i] \in 1..Len(scan)
      /\ \A i, j \in 1..Len(scan) : i # j => p[i] # p[j]
      /\ \A k \in 1..Len(scan) : \E i \in 1..Len(scan) : p[i] = k
  BY <1>3 DEF Bijection, Injection, Surjection, IsInjective
<1>5. \A i, j \in 1..Len(all) : i < j => Newer(all[i], all[j])
  <2> SUFFICES ASSUME NEW i \in 1..Len(all), NEW j \in 1..Len(all), i < j
               PROVE  Newer(all[i], all[j])
    OBVIOUS
  <2>1. ~Newer(all[j], all[i])
    BY <1>2, <1>3
  <2>2. all[i] # all[j]
    <3>1. p[i] # p[j] /\ p[i] \in 1..Len(scan) /\ p[j] \in 1..Len(scan)
      BY <1>2, <1>4
    <3>2. all[i] = scan[p[i]] /\ all[j] = scan[p[j]]
      BY <1>2, <1>3
    <3> QED  BY <1>1, <3>1, <3>2
  <2>3. all[i] \in T /\ all[j] \in T
    BY <1>2
  <2> QED  BY <2>1, <2>2, <2>3 DEF Newer
<1>6. \A r \in T : \E i \in 1..Len(all) : r = all[i]
  <2> TAKE r \in T
  <2>1. PICK k \in 1..Len(scan) : r = scan[k]
    BY <1>1 DEF Range
  <2>2. PICK i \in 1..Len(scan) : p[i] = k
    BY <1>4
  <2> QED  BY <1>2, <1>3, <2>1, <2>2
<1>7. items = Cut(all, n)
  BY DEF Newest, all
<1> HIDE DEF items
<1>8. CASE n > 0 /\ Len(all) > n
  <2>1. /\ items \in Seq(T) /\ Len(items) = n
        /\ \A i \in 1..n : items[i] = all[i]
    BY <1>2, <1>7, <1>8 DEF Cut
  <2>2. \A r \in T \ Range(items) : \E k \in 1..Len(all) : k > n /\ r = all[k]
    <3> TAKE r \in T \ Range(items)
    <3>1. PICK k \in 1..Len(all) : r = all[k]
      BY <1>6
    <3>2. k \notin 1..n
      BY <2>1, <3>1 DEF Range
    <3> QED  BY <3>1, <3>2
  <2>3. \A i, j \in 1..Len(items) : i < j => Newer(items[i], items[j])
    BY <1>2, <1>5, <1>8, <2>1, SMTT(30)
  <2>4. \A r \in T \ Range(items) : \A i \in 1..Len(items) : Newer(items[i], r)
    BY <1>2, <1>5, <1>8, <2>1, <2>2, SMTT(30)
  <2>5. items # <<>>
    BY <1>8, <2>1
  <2> QED  BY <2>1, <2>3, <2>4, <2>5 DEF items
<1>9. CASE ~(n > 0 /\ Len(all) > n)
  <2>1. items = all
    BY <1>7, <1>9 DEF Cut
  <2>2. T \ Range(items) = {}
    BY <1>2, <1>6, <2>1 DEF Range
  <2> QED  BY <1>2, <1>5, <2>1, <2>2 DEF items
<1> QED  BY <1>8, <1>9

\* The parameters of a request.
IsText(p) == p.n \in Int /\ (p.text = "malformed" => p.n = 0)

\* The records of the track that a request is about.
Asked(db, track) == {r \in db : r.id = ToInt32(Atoi(track))}

\* An answer has records only if it is what sorting and cutting a scan gives.
LEMMA AnswerIsScan ==
  ASSUME NEW db, NEW track, NEW size, IsText(size),
         NEW res \in FindByTrackIdHandler(db, track, size)
  PROVE  \/ res.status # "ok" /\ res.items = <<>>
         \/ /\ NumOfHistory(size) \in Nat
            /\ \E scan \in SetToSeqs(Asked(db, track)) :
                 res.items = Newest(scan, NumOfHistory(size))
<1> DEFINE n == NumOfHistory(size)
           T == Asked(db, track)
<1>1. n \in Int
  BY QueryConfig DEF NumOfHistory, Atoi, IsText
<1>2. CASE track.text = "missing"
  <2>1. res = [status |-> "bad request", items |-> <<>>]
    BY <1>2 DEF FindByTrackIdHandler
  <2>2. res.status # "ok" /\ res.items = <<>>
    BY <2>1
  <2> QED  BY <2>2
<1>3. CASE track.text # "missing"
  <2>1. res \in FindByTrackId(db, Atoi(track), n)
    BY <1>3 DEF FindByTrackIdHandler
  <2>2. \/ res = [status |-> "error", items |-> <<>>]
        \/ res = [status |-> "panic", items |-> <<>>]
        \/ /\ ~(n < 0 \/ n > MaxLen)
           /\ \E scan \in SetToSeqs(T) : res = [status |-> "ok", items |-> Newest(scan, n)]
    <3> HIDE DEF n
    <3> QED  BY <2>1 DEF FindByTrackId, Asked
  <2> HIDE DEF T, n
  <2>3. CASE res.status # "ok" /\ res.items = <<>>
    BY <2>3
  <2>4. CASE /\ ~(n < 0 \/ n > MaxLen)
             /\ \E scan \in SetToSeqs(T) : res = [status |-> "ok", items |-> Newest(scan, n)]
    <3>1. n \in Nat
      BY <1>1, <2>4
    <3>2. PICK scan \in SetToSeqs(T) : res = [status |-> "ok", items |-> Newest(scan, n)]
      BY <2>4
    <3>3. res.items = Newest(scan, n)
      BY <3>2
    <3> QED  BY <3>1, <3>3 DEF T, n
  <2> QED  BY <2>2, <2>3, <2>4
<1> QED  BY <1>2, <1>3

\* The records of a database, and what their keys guarantee.
IsHistory(db) ==
  /\ IsFiniteSet(db)
  /\ \A r \in db : r.at \in Int
  /\ \A r, s \in db : r.id = s.id /\ r.at = s.at => r = s

\* GET /track-histories returns the newest records, for every finite history in
\* which a track has one record at a time, and for all parameters.
THEOREM NewestReturned ==
  ASSUME NEW db, IsHistory(db), NEW track, NEW size, IsText(size)
  PROVE  NewestAreReturned(db, track, size)
<1> SUFFICES ASSUME NEW res \in FindByTrackIdHandler(db, track, size), res.status = "ok"
             PROVE  LET items == res.items
                        rest  == Asked(db, track) \ Range(items)
                    IN  /\ Range(items) \subseteq db
                        /\ \A i, j \in 1..Len(items) : i < j => Newer(items[i], items[j])
                        /\ rest # {} => NumOfHistory(size) = Len(items) /\ items # <<>>
                        /\ \A r \in rest : \A i \in 1..Len(items) : Newer(items[i], r)
  BY DEF NewestAreReturned, Asked
<1> DEFINE T == Asked(db, track)
<1>1. PICK scan \in SetToSeqs(T) :
        NumOfHistory(size) \in Nat /\ res.items = Newest(scan, NumOfHistory(size))
  BY AnswerIsScan
<1>2. /\ IsFiniteSet(T) /\ T \subseteq db
      /\ \A r \in T : r.at \in Int
      /\ \A r, s \in T : r.at = s.at => r = s
  BY FS_Subset DEF Asked, IsHistory
<1> HIDE DEF T
<1>3. LET items == res.items IN
         /\ items \in Seq(T)
         /\ \A i, j \in 1..Len(items) : i < j => Newer(items[i], items[j])
         /\ T \ Range(items) # {} => NumOfHistory(size) = Len(items) /\ items # <<>>
         /\ \A r \in T \ Range(items) : \A i \in 1..Len(items) : Newer(items[i], r)
  BY <1>1, <1>2, NewestOfScan, SMTT(30)
<1>4. Range(res.items) \subseteq db
  BY <1>2, <1>3 DEF Range
<1> QED  BY <1>3, <1>4 DEF T

\* And they are records of one track, the one that was asked for if its id fits.
THEOREM OneTrackReturned ==
  ASSUME NEW db, IsHistory(db), NEW track, IsText(track), NEW size, IsText(size)
  PROVE  TrackIsAsAsked(db, track, size)
<1> SUFFICES ASSUME NEW res \in FindByTrackIdHandler(db, track, size),
                    NEW r \in Range(res.items), NEW s \in Range(res.items)
             PROVE  /\ r.id = s.id
                    /\ track.text = "number" /\ IsInt32(track.n) => r.id = track.n
                    /\ track.text = "malformed" => r.id = 0
  BY DEF TrackIsAsAsked
<1>1. Range(<<>>) = {}
  BY DEF Range
<1>2. PICK scan \in SetToSeqs(Asked(db, track)) :
        NumOfHistory(size) \in Nat /\ res.items = Newest(scan, NumOfHistory(size))
  BY <1>1, AnswerIsScan
<1>3. Range(res.items) \subseteq Asked(db, track)
  <2> DEFINE T == Asked(db, track)
  <2>1. /\ IsFiniteSet(T)
        /\ \A q \in T : q.at \in Int
        /\ \A q, t \in T : q.at = t.at => q = t
    BY FS_Subset DEF Asked, IsHistory
  <2> HIDE DEF T
  <2>2. res.items \in Seq(T)
    BY <1>2, <2>1, NewestOfScan DEF T
  <2>3. Range(res.items) \subseteq T
    BY <2>2 DEF Range
  <2> QED  BY <2>3 DEF T
<1>4. r.id = ToInt32(Atoi(track)) /\ s.id = ToInt32(Atoi(track))
  BY <1>3 DEF Asked
<1>5. IsInt32(track.n) => ToInt32(Atoi(track)) = track.n
  <2> SUFFICES ASSUME IsInt32(track.n) PROVE ToInt32(Atoi(track)) = track.n
    OBVIOUS
  <2>1. track.n \in Int
    BY DEF IsText
  <2>2. Atoi(track) = track.n
    BY <2>1, QueryConfig DEF Atoi, IsInt32
  <2> QED  BY <2>1, <2>2, ToInt32Same
<1>6. IsInt32(0)
  BY QueryConfig DEF IsInt32
<1> QED  BY <1>4, <1>5, <1>6 DEF IsText

\* The databases of MCHelpers are histories.
LEMMA RecordsAreHistories == \A db \in SUBSET Records : IsHistory(db)
<1> DEFINE rec(i, t) == [id |-> i, at |-> t]
<1>1. Records = (({rec(1, 1)} \cup {rec(1, 2)}) \cup {rec(1, 3)}) \cup {rec(-2, 2)}
  <2>1. {rec(1, t) : t \in 1..3} = ({rec(1, 1)} \cup {rec(1, 2)}) \cup {rec(1, 3)}
    <3>1. 1..3 = {1, 2, 3}
      OBVIOUS
    <3> HIDE DEF rec
    <3> QED  BY <3>1
  <2> QED  BY <2>1 DEF Records
<1>2. IsFiniteSet(Records)
  <2> HIDE DEF rec
  <2>1. \A x : IsFiniteSet({x})
    BY FS_Singleton
  <2> QED  BY <1>1, <2>1, FS_Union
<1>3. \A r \in Records : r.at \in Int
  BY DEF Records
<1>4. \A r, s \in Records : r.id = s.id /\ r.at = s.at => r = s
  BY DEF Records
<1> QED  BY <1>2, <1>3, <1>4, FS_Subset DEF IsHistory

\* The parameters of MCHelpers are texts.
LEMMA TextsAreTexts == \A p \in Texts : IsText(p)
BY DEF Texts, Missing, Malformed, Number, IsText

\* GET /track-histories returns the newest records of one track.
THEOREM QueriesAnswered == HelpersSpec => []QueryAnswers
<1>1. InputsInv => QueryAnswers
  BY RecordsAreHistories, TextsAreTexts, NewestReturned, OneTrackReturned
  DEF InputsInv, QueryAnswers, Of
<1> QED  BY <1>1, Inputs, PTL

-----------------------------------------------------------------------------
(* Arrays *)

Has(r, e) == \E i \in 1..Len(r) : r[i] = e

\* IsInclude panics or answers; it never answers wrongly.
LEMMA IncludeAnswers ==
  ASSUME NEW r, NEW e
  PROVE  /\ IsInclude(r, e) \subseteq {Has(r, e)}
         /\ IsInclude(r, e) = {} \/ IsInclude(r, e) = {Has(r, e)}
BY DEF IsInclude, Panic, Contains, Has

\* It panics when it is asked for nil, or when it finds nil first.
LEMMA IncludePanics ==
  ASSUME NEW V, NEW r \in Seq(V), NEW e
  PROVE  /\ r # <<>> /\ (e = Nil \/ r[1] = Nil) => IsInclude(r, e) = {}
         /\ r = <<>> => IsInclude(r, e) = {FALSE}
         /\ e # Nil /\ ~Has(r, Nil) => IsInclude(r, e) = {Has(r, e)}
<1>1. ASSUME r # <<>>, e = Nil \/ r[1] = Nil
      PROVE  IsInclude(r, e) = {}
  <2>1. 1 \in 1..Len(r)
    BY <1>1
  <2>2. 1 \in Compared(r, LAMBDA x : x = e /\ x # Nil)
    BY <2>1 DEF Compared
  <2> QED  BY <1>1, <2>2 DEF IsInclude, ComparesNil, Panic
<1>2. ASSUME r = <<>> PROVE IsInclude(r, e) = {FALSE}
  BY <1>2 DEF IsInclude, ComparesNil, Compared, Contains
<1>3. ASSUME e # Nil, ~Has(r, Nil) PROVE IsInclude(r, e) = {Has(r, e)}
  BY <1>3 DEF IsInclude, ComparesNil, Compared, Contains, Has
<1> QED  BY <1>1, <1>2, <1>3

\* What a turn of the loop may make of r.
LEMMA Included ==
  ASSUME NEW R, NEW e, NEW t \in Include(R, e)
  PROVE  \E r \in R : /\ Has(r, e) \in IsInclude(r, e)
                      /\ t = IF Has(r, e) THEN r ELSE Append(r, e)
<1>1. PICK r \in R : t \in {IF found THEN r ELSE Append(r, e) : found \in IsInclude(r, e)}
  BY DEF Include
<1>2. PICK found \in IsInclude(r, e) : t = IF found THEN r ELSE Append(r, e)
  BY <1>1
<1>3. found = Has(r, e)
  BY IncludeAnswers
<1> QED  BY <1>2, <1>3

\* The loops panic if every array they may have built makes IsInclude panic.
LEMMA IncludeEmpty ==
  ASSUME NEW R, NEW e
  PROVE  Include(R, e) = {} <=> \A r \in R : IsInclude(r, e) = {}
<1>1. ASSUME NEW r \in R, IsInclude(r, e) # {} PROVE Include(R, e) # {}
  <2>1. PICK found \in IsInclude(r, e) : TRUE
    BY <1>1
  <2> DEFINE t == IF found THEN r ELSE Append(r, e)
  <2>2. t \in {IF f THEN r ELSE Append(r, e) : f \in IsInclude(r, e)}
    BY <2>1
  <2>3. t \in Include(R, e)
    BY <2>2, Zenon DEF Include
  <2> QED  BY <2>3
<1>2. ASSUME NEW t \in Include(R, e) PROVE \E r \in R : IsInclude(r, e) # {}
  BY Included
<1> QED  BY <1>1, <1>2

\* A turn of the loops builds arrays of the same elements.
LEMMA IncludeType ==
  ASSUME NEW V, NEW R \in SUBSET Seq(V), NEW e \in V
  PROVE  Include(R, e) \in SUBSET Seq(V)
<1> SUFFICES ASSUME NEW t \in Include(R, e) PROVE t \in Seq(V)
  OBVIOUS
<1>1. PICK r \in R : t = IF Has(r, e) THEN r ELSE Append(r, e)
  BY Included
<1> QED  BY <1>1

\* The loops of Unique and AppendUnique, and what they have after each turn.
IncludeFold(base, elms) == FoldLeft(Include, base, elms)

IncludeTurns(h, base, elms, V) ==
  /\ h \in [0..Len(elms) -> (SUBSET Seq(V))] /\ h[0] = base
  /\ \A i \in 1..Len(elms) : h[i] = Include(h[i - 1], elms[i])
  /\ h[Len(elms)] = IncludeFold(base, elms)

\* The fold of Include is a loop.
LEMMA IncludeLoop ==
  ASSUME NEW V, NEW elms \in Seq(V), NEW base \in SUBSET Seq(V)
  PROVE  \E h : IncludeTurns(h, base, elms, V)
<1> DEFINE n == Len(elms)
           A == (SUBSET Seq(V))
           F == [i \in 1..n |-> [a \in A |-> Include(a, elms[i])]]
           Body(iter) == [s \in SUBSET (DOMAIN elms) |->
                            IF s = {} THEN base
                            ELSE Include(iter[s \ {Max(s)}], elms[Max(s)])]
           it == CHOOSE iter : iter = Body(iter)
<1>1. n \in Nat /\ DOMAIN elms = 1..n
  OBVIOUS
<1>2. base \in A /\ F \in [1..n -> [A -> A]]
  <2>1. \A i \in 1..n, a \in A : Include(a, elms[i]) \in A
    BY IncludeType
  <2> QED  BY <2>1
<1>3. PICK g : Iterates(g, n, A, base, F)
  <2> HIDE DEF F, A
  <2> QED  BY <1>1, <1>2, FoldExists
<1>4. \A s \in SUBSET (1..n) : s # {} => Max(s) \in 1..n /\ s \ {Max(s)} \in SUBSET (1..n)
  BY <1>1, MaxOfRange
<1>5. g = Body(g)
  BY <1>1, <1>3, <1>4 DEF Iterates
<1>6. it = Body(it)
  <2> HIDE DEF Body
  <2> QED  BY <1>5
<1>7. IncludeFold(base, elms) = it[1..n]
  BY <1>1 DEF IncludeFold, FoldLeft, MapThenFoldSet
<1> HIDE DEF it
<1>8. Recurs(it, n, A, base, F)
  BY <1>1, <1>4, <1>6 DEF Recurs
<1>9. PICK h : Loops(h, n, A, base, F, it[1..n])
  <2> HIDE DEF F, A
  <2> QED  BY <1>1, <1>2, <1>8, FoldLoop
<1>10. \A i \in 1..n : h[i] = Include(h[i - 1], elms[i])
  <2> TAKE i \in 1..n
  <2>1. h[i - 1] \in A /\ h[i] = F[i][h[i - 1]]
    <3> HIDE DEF F, A
    <3> QED  BY <1>1, <1>9, LoopStep
  <2> QED  BY <2>1
<1>11. h \in [0..n -> A] /\ h[0] = base /\ h[n] = it[1..n]
  <2> HIDE DEF F, A
  <2> QED  BY <1>9 DEF Loops
<1>12. IncludeTurns(h, base, elms, V)
  BY <1>7, <1>10, <1>11 DEF IncludeTurns
<1> QED  BY <1>12

\* The loop of Remove.
RemoveFold(arr, elms) ==
  FoldLeft(LAMBDA res, e : IF Contains(elms, e) THEN res ELSE Append(res, e), <<>>, arr)

RemoveTurn(res, elms, e) == IF Contains(elms, e) THEN res ELSE Append(res, e)

RemoveTurns(h, arr, elms, V) ==
  /\ h \in [0..Len(arr) -> Seq(V)] /\ h[0] = <<>>
  /\ \A i \in 1..Len(arr) : h[i] = RemoveTurn(h[i - 1], elms, arr[i])
  /\ h[Len(arr)] = RemoveFold(arr, elms)

\* The fold of Remove is a loop.
LEMMA RemoveLoop ==
  ASSUME NEW V, NEW arr \in Seq(V), NEW elms
  PROVE  \E h : RemoveTurns(h, arr, elms, V)
<1> DEFINE n == Len(arr)
           A == Seq(V)
           F == [i \in 1..n |-> [a \in A |-> RemoveTurn(a, elms, arr[i])]]
           Body(iter) == [s \in SUBSET (DOMAIN arr) |->
                            IF s = {} THEN <<>>
                            ELSE RemoveTurn(iter[s \ {Max(s)}], elms, arr[Max(s)])]
           it == CHOOSE iter : iter = Body(iter)
<1>1. n \in Nat /\ DOMAIN arr = 1..n
  OBVIOUS
<1>2. <<>> \in A /\ F \in [1..n -> [A -> A]]
  <2>1. \A i \in 1..n : arr[i] \in V
    OBVIOUS
  <2>2. \A a \in A : \A e \in V : Append(a, e) \in A
    OBVIOUS
  <2>3. <<>> \in A
    OBVIOUS
  <2> HIDE DEF A
  <2> QED  BY <2>1, <2>2, <2>3 DEF RemoveTurn
<1>3. PICK g : Iterates(g, n, A, <<>>, F)
  <2> HIDE DEF F, A
  <2> QED  BY <1>1, <1>2, FoldExists
<1>4. \A s \in SUBSET (1..n) : s # {} => Max(s) \in 1..n /\ s \ {Max(s)} \in SUBSET (1..n)
  BY <1>1, MaxOfRange
<1>5. g = Body(g)
  BY <1>1, <1>3, <1>4 DEF Iterates
<1>6. it = Body(it)
  <2> HIDE DEF Body
  <2> QED  BY <1>5
<1>7. RemoveFold(arr, elms) = it[1..n]
  BY <1>1 DEF RemoveFold, RemoveTurn, FoldLeft, MapThenFoldSet
<1> HIDE DEF it
<1>8. Recurs(it, n, A, <<>>, F)
  BY <1>1, <1>4, <1>6 DEF Recurs
<1>9. PICK h : Loops(h, n, A, <<>>, F, it[1..n])
  <2> HIDE DEF F, A
  <2> QED  BY <1>1, <1>2, <1>8, FoldLoop
<1>10. \A i \in 1..n : h[i] = RemoveTurn(h[i - 1], elms, arr[i])
  <2> TAKE i \in 1..n
  <2>1. h[i - 1] \in A /\ h[i] = F[i][h[i - 1]]
    <3> HIDE DEF F, A
    <3> QED  BY <1>1, <1>9, LoopStep
  <2> QED  BY <2>1
<1>11. h \in [0..n -> A] /\ h[0] = <<>> /\ h[n] = it[1..n]
  <2> HIDE DEF F, A
  <2> QED  BY <1>9 DEF Loops
<1>12. RemoveTurns(h, arr, elms, V)
  BY <1>7, <1>10, <1>11 DEF RemoveTurns
<1> QED  BY <1>12

\* The range of an array is what it has.
LEMMA RangeIsHas ==
  ASSUME NEW V, NEW s \in Seq(V)
  PROVE  \A e : e \in Range(s) <=> Has(s, e)
BY DEF Range, Has

\* Arrays that have the same elements have the same range.
LEMMA SameRange ==
  ASSUME NEW V, NEW s \in Seq(V), NEW t \in Seq(V),
         \A i \in 1..Len(s) : \E j \in 1..Len(t) : t[j] = s[i],
         \A j \in 1..Len(t) : \E i \in 1..Len(s) : s[i] = t[j]
  PROVE  Range(s) = Range(t)
<1>1. \A e : Has(s, e) <=> Has(t, e)
  BY DEF Has
<1> QED  BY <1>1, RangeIsHas

\* Where e comes first in arr.
First(arr, e) == SelectInSeq(arr, LAMBDA x : x = e)

\* An element that comes first at j is found at j.
LEMMA FirstFound ==
  ASSUME NEW V, NEW arr \in Seq(V), NEW j \in 1..Len(arr)
  PROVE  /\ First(arr, arr[j]) \in 1..j
         /\ arr[First(arr, arr[j])] = arr[j]
         /\ (\A i \in 1..(j - 1) : arr[i] # arr[j]) => First(arr, arr[j]) = j
<1> DEFINE I == {i \in 1..Len(arr) : arr[i] = arr[j]}
<1>1. j \in I /\ I \in SUBSET Nat
  OBVIOUS
<1>2. First(arr, arr[j]) = Min(I)
  BY <1>1 DEF First, SelectInSeq
<1>3. \E x \in I : \A y \in I : x <= y
  BY <1>1, LeastExists
<1>4. Min(I) \in I /\ \A y \in I : Min(I) <= y
  BY <1>3, Zenon DEF Min
<1> HIDE DEF I
<1>5. Min(I) <= j /\ Min(I) \in 1..Len(arr) /\ arr[Min(I)] = arr[j]
  BY <1>1, <1>4 DEF I
<1> QED  BY <1>2, <1>5

\* What Unique has after k turns.
FirstsOf(arr, k, r) ==
  /\ \A i \in 1..Len(r) : \E j \in 1..k : arr[j] = r[i]
  /\ \A j \in 1..k : Has(r, arr[j])
  /\ \A i, j \in 1..Len(r) : i < j => First(arr, r[i]) < First(arr, r[j])

UniqueTurn(arr, k, R) ==
  /\ R = {} <=> k > 1 /\ \E j \in 1..k : arr[j] = Nil
  /\ \A r \in R : FirstsOf(arr, k, r)

\* A turn of Unique keeps an element only when it comes for the first time.
LEMMA FirstsKept ==
  ASSUME NEW V, NEW arr \in Seq(V), NEW k \in 1..Len(arr),
         NEW r \in Seq(V), FirstsOf(arr, k - 1, r)
  PROVE  FirstsOf(arr, k, IF Has(r, arr[k]) THEN r ELSE Append(r, arr[k]))
<1>0. \A j \in 1..k : j = k \/ j \in 1..(k - 1)
  OBVIOUS
<1>1. CASE Has(r, arr[k])
  BY <1>0, <1>1 DEF FirstsOf
<1>2. CASE ~Has(r, arr[k])
  <2> DEFINE t == Append(r, arr[k])
  <2>1. /\ t \in Seq(V) /\ Len(t) = Len(r) + 1 /\ t[Len(t)] = arr[k]
        /\ \A i \in 1..Len(r) : t[i] = r[i]
        /\ \A i \in 1..Len(t) : i = Len(t) \/ i \in 1..Len(r)
        /\ Len(t) \in 1..Len(t) /\ \A i \in 1..Len(r) : i \in 1..Len(t)
    OBVIOUS
  <2> HIDE DEF t
  <2>2. \A i \in 1..Len(t) : \E j \in 1..k : arr[j] = t[i]
    <3>1. k \in 1..k /\ \A j \in 1..(k - 1) : j \in 1..k
      OBVIOUS
    <3> QED  BY <2>1, <3>1 DEF FirstsOf
  <2>3. \A j \in 1..k : Has(t, arr[j])
    BY <1>0, <2>1 DEF FirstsOf, Has
  <2>4. First(arr, arr[k]) = k
    <3>1. \A i \in 1..(k - 1) : arr[i] # arr[k]
      BY <1>2 DEF FirstsOf
    <3> QED  BY <3>1, FirstFound
  <2>5. \A i \in 1..Len(r) : First(arr, r[i]) \in 1..(k - 1)
    <3> TAKE i \in 1..Len(r)
    <3>1. PICK j \in 1..(k - 1) : arr[j] = r[i]
      BY DEF FirstsOf
    <3>2. First(arr, arr[j]) \in 1..j
      <4>1. j \in 1..Len(arr)
        OBVIOUS
      <4> QED  BY <4>1, FirstFound
    <3> QED  BY <3>1, <3>2
  <2>6. ASSUME NEW i \in 1..Len(t), NEW j \in 1..Len(t), i < j
        PROVE  First(arr, t[i]) < First(arr, t[j])
    <3>1. i \in 1..Len(r)
      BY <2>1, <2>6
    <3>2. CASE j = Len(t)
      BY <2>1, <2>4, <2>5, <3>1, <3>2
    <3>3. CASE j \in 1..Len(r)
      BY <2>1, <2>6, <3>1, <3>3 DEF FirstsOf
    <3> QED  BY <2>1, <3>2, <3>3
  <2>7. FirstsOf(arr, k, t)
    BY <2>2, <2>3, <2>6 DEF FirstsOf
  <2> QED  BY <1>2, <2>7 DEF t
<1> QED  BY <1>1, <1>2

\* A turn of Unique panics if it has to compare a nil pointer.
LEMMA UniqueTurns ==
  ASSUME NEW V, NEW arr \in Seq(V), NEW k \in 1..Len(arr),
         NEW R \in SUBSET Seq(V), k = 1 => R = {<<>>}, UniqueTurn(arr, k - 1, R)
  PROVE  UniqueTurn(arr, k, Include(R, arr[k]))
<1>1. \A t \in Include(R, arr[k]) : FirstsOf(arr, k, t)
  <2> TAKE t \in Include(R, arr[k])
  <2>1. PICK r \in R : t = IF Has(r, arr[k]) THEN r ELSE Append(r, arr[k])
    BY Included
  <2> QED  BY <2>1, FirstsKept DEF UniqueTurn
<1>2. CASE k = 1
  <2>1. <<>> \in R /\ IsInclude(<<>>, arr[k]) # {}
    BY <1>2, IncludePanics
  <2> QED  BY <1>1, <1>2, <2>1, IncludeEmpty DEF UniqueTurn
<1>3. CASE k > 1 /\ R = {}
  <2>1. Include(R, arr[k]) = {}
    BY <1>3, IncludeEmpty
  <2>2. \E j \in 1..k : arr[j] = Nil
    BY <1>3 DEF UniqueTurn
  <2> QED  BY <1>1, <1>3, <2>1, <2>2 DEF UniqueTurn
<1>4. CASE k > 1 /\ R # {}
  <2>0. 1 \in 1..(k - 1) /\ \A j \in 1..k : j = k \/ j \in 1..(k - 1)
    BY <1>4
  <2>1. \A r \in R : r # <<>> /\ FirstsOf(arr, k - 1, r)
    BY <2>0 DEF UniqueTurn, FirstsOf, Has
  <2>2. CASE \E j \in 1..(k - 1) : arr[j] = Nil
    <3>1. k - 1 = 1 /\ arr[1] = Nil
      BY <1>4, <2>2 DEF UniqueTurn
    <3>2. \A r \in R : r[1] = Nil
      <4> TAKE r \in R
      <4>1. 1 \in 1..Len(r)
        BY <2>1
      <4> QED  BY <2>1, <3>1, <4>1 DEF FirstsOf
    <3>3. \A r \in R : IsInclude(r, arr[k]) = {}
      BY <2>1, <3>2, IncludePanics
    <3> QED  BY <1>1, <1>4, <2>0, <2>2, <3>3, IncludeEmpty DEF UniqueTurn
  <2>3. CASE (\A j \in 1..(k - 1) : arr[j] # Nil) /\ arr[k] = Nil
    <3>1. \A r \in R : IsInclude(r, arr[k]) = {}
      BY <2>1, <2>3, IncludePanics
    <3> QED  BY <1>1, <1>4, <2>3, <3>1, IncludeEmpty DEF UniqueTurn
  <2>4. CASE (\A j \in 1..(k - 1) : arr[j] # Nil) /\ arr[k] # Nil
    <3>1. PICK r \in R : FirstsOf(arr, k - 1, r)
      BY <1>4, <2>1
    <3>2. ~Has(r, Nil)
      BY <2>4, <3>1 DEF Has, FirstsOf
    <3>3. IsInclude(r, arr[k]) # {}
      BY <2>4, <3>2, IncludePanics
    <3> QED  BY <1>1, <1>4, <2>0, <2>4, <3>3, IncludeEmpty DEF UniqueTurn
  <2> QED  BY <2>2, <2>3, <2>4
<1> QED  BY <1>2, <1>3, <1>4

\* Unique keeps the first of equal elements and panics on nil, for every array.
THEOREM UniqueKept ==
  ASSUME NEW V, NEW arr \in Seq(V)
  PROVE  UniqueKeepsFirsts(arr)
<1> DEFINE n == Len(arr)
<1>1. PICK h : IncludeTurns(h, {<<>>}, arr, V)
  <2>1. {<<>>} \in SUBSET Seq(V)
    OBVIOUS
  <2> QED  BY <2>1, IncludeLoop
<1> DEFINE S == {k \in 0..n : UniqueTurn(arr, k, h[k])}
<1>2. /\ n \in Nat /\ h[0] = {<<>>} /\ h[n] = Unique(arr)
      /\ \A k \in 0..n : h[k] \in SUBSET Seq(V)
      /\ \A k \in 1..n : h[k] = Include(h[k - 1], arr[k])
  BY <1>1 DEF IncludeTurns, IncludeFold, Unique
<1>3. 0 \in S
  <2>1. UniqueTurn(arr, 0, {<<>>})
    BY DEF UniqueTurn, FirstsOf
  <2>2. 0 \in 0..n
    BY <1>2
  <2> QED  BY <1>2, <2>1, <2>2
<1>4. ASSUME NEW k \in 1..n, k - 1 \in S PROVE k \in S
  <2>1. /\ k - 1 \in 0..n /\ k \in 0..n /\ UniqueTurn(arr, k - 1, h[k - 1])
        /\ k = 1 => h[k - 1] = {<<>>}
    BY <1>2, <1>4
  <2>2. UniqueTurn(arr, k, Include(h[k - 1], arr[k]))
    BY <1>2, <2>1, UniqueTurns
  <2> QED  BY <1>2, <2>1, <2>2
<1> HIDE DEF S
<1>5. n \in S
  <2>1. n \in Nat
    BY <1>2
  <2>2. 0..n \subseteq S
    BY <1>3, <1>4, <2>1, RangeInduction
  <2> QED  BY <2>1, <2>2
<1>6. UniqueTurn(arr, n, Unique(arr)) /\ Unique(arr) \in SUBSET Seq(V)
  BY <1>2, <1>5 DEF S
<1>7. Unique(arr) = Panic <=> Nil \in Range(arr) /\ Len(arr) > 1
  BY <1>6 DEF UniqueTurn, Panic, Range
<1>8. ASSUME NEW res \in Unique(arr)
      PROVE  /\ Range(res) = Range(arr) /\ IsInjective(res)
             /\ Increasing([i \in 1..Len(res) |-> SelectInSeq(arr, LAMBDA e : e = res[i])])
  <2>1. FirstsOf(arr, n, res) /\ res \in Seq(V)
    BY <1>6 DEF UniqueTurn
  <2>2. Range(res) = Range(arr)
    <3>1. \A i \in 1..Len(res) : \E j \in 1..Len(arr) : arr[j] = res[i]
      BY <2>1 DEF FirstsOf
    <3>2. \A j \in 1..Len(arr) : \E i \in 1..Len(res) : res[i] = arr[j]
      BY <2>1 DEF FirstsOf, Has
    <3> QED  BY <2>1, <3>1, <3>2, SameRange
  <2>3. \A i \in 1..Len(res) : First(arr, res[i]) \in Nat
    <3> TAKE i \in 1..Len(res)
    <3>1. PICK j \in 1..n : arr[j] = res[i]
      BY <2>1 DEF FirstsOf
    <3>2. First(arr, arr[j]) \in 1..j
      BY FirstFound
    <3> QED  BY <3>1, <3>2
  <2>4. IsInjective(res)
    <3> SUFFICES ASSUME NEW i \in 1..Len(res), NEW j \in 1..Len(res), res[i] = res[j], i # j
                 PROVE  FALSE
      BY <2>1 DEF IsInjective
    <3>1. i < j \/ j < i
      OBVIOUS
    <3>2. First(arr, res[i]) < First(arr, res[j]) \/ First(arr, res[j]) < First(arr, res[i])
      BY <2>1, <3>1 DEF FirstsOf
    <3> QED  BY <2>3, <3>2
  <2>5. Increasing([i \in 1..Len(res) |-> First(arr, res[i])])
    <3> DEFINE s == [i \in 1..Len(res) |-> First(arr, res[i])]
    <3>1. s \in Seq(Nat) /\ Len(s) = Len(res)
      BY <2>1, <2>3
    <3> HIDE DEF s
    <3>2. \A i \in 1..Len(res) : s[i] = First(arr, res[i])
      BY DEF s
    <3>3. Increasing(s)
      BY <2>1, <3>1, <3>2 DEF Increasing, FirstsOf
    <3> QED  BY <3>3 DEF s
  <2> QED  BY <2>2, <2>4, <2>5 DEF First
<1> QED  BY <1>7, <1>8 DEF UniqueKeepsFirsts

\* What AppendUnique has after k turns.
AddedOf(arr, elms, k, r) ==
  /\ Len(arr) <= Len(r) /\ \A i \in 1..Len(arr) : r[i] = arr[i]
  /\ \A i \in 1..Len(r) : i <= Len(arr) \/ \E j \in 1..k : elms[j] = r[i]
  /\ \A j \in 1..k : Has(r, elms[j])
  /\ \A i, j \in 1..Len(r) : i > Len(arr) /\ r[i] = r[j] => i = j

\* A turn of AppendUnique adds an element only if it is not there.
LEMMA AddedKept ==
  ASSUME NEW V, NEW arr \in Seq(V), NEW elms \in Seq(V), NEW k \in 1..Len(elms),
         NEW r \in Seq(V), AddedOf(arr, elms, k - 1, r)
  PROVE  AddedOf(arr, elms, k, IF Has(r, elms[k]) THEN r ELSE Append(r, elms[k]))
<1>0. /\ \A j \in 1..k : j = k \/ j \in 1..(k - 1)
      /\ k \in 1..k /\ \A j \in 1..(k - 1) : j \in 1..k
  OBVIOUS
<1>1. CASE Has(r, elms[k])
  BY <1>0, <1>1 DEF AddedOf
<1>2. CASE ~Has(r, elms[k])
  <2> DEFINE t == Append(r, elms[k])
  <2>1. /\ t \in Seq(V) /\ Len(t) = Len(r) + 1 /\ t[Len(t)] = elms[k]
        /\ \A i \in 1..Len(r) : t[i] = r[i]
        /\ \A i \in 1..Len(t) : i = Len(t) \/ i \in 1..Len(r)
        /\ Len(t) \in 1..Len(t) /\ \A i \in 1..Len(r) : i \in 1..Len(t)
        /\ Len(r) \in Nat /\ Len(arr) \in Nat
    OBVIOUS
  <2> HIDE DEF t
  <2>2. Len(arr) <= Len(t) /\ \A i \in 1..Len(arr) : t[i] = arr[i]
    <3>1. Len(arr) <= Len(r) /\ \A i \in 1..Len(arr) : r[i] = arr[i]
      BY DEF AddedOf
    <3>2. \A i \in 1..Len(arr) : i \in 1..Len(r)
      BY <2>1, <3>1
    <3> QED  BY <2>1, <3>1, <3>2
  <2>3. \A i \in 1..Len(t) : i <= Len(arr) \/ \E j \in 1..k : elms[j] = t[i]
    BY <1>0, <2>1 DEF AddedOf
  <2>4. \A j \in 1..k : Has(t, elms[j])
    BY <1>0, <2>1, SMTT(30) DEF AddedOf, Has
  <2>5. \A i \in 1..Len(r) : r[i] # elms[k]
    BY <1>2 DEF Has
  <2>6. \A i, j \in 1..Len(t) : i > Len(arr) /\ t[i] = t[j] => i = j
    BY <2>1, <2>5 DEF AddedOf
  <2>7. AddedOf(arr, elms, k, t)
    BY <2>2, <2>3, <2>4, <2>6 DEF AddedOf
  <2> QED  BY <1>2, <2>7 DEF t
<1> QED  BY <1>1, <1>2

\* AppendUnique leaves what was there and adds every other element once.
LEMMA Added ==
  ASSUME NEW V, NEW arr \in Seq(V), NEW elms \in Seq(V),
         NEW res \in AppendUnique(arr, elms)
  PROVE  res \in Seq(V) /\ AddedOf(arr, elms, Len(elms), res)
<1> DEFINE n == Len(elms)
<1>1. PICK h : IncludeTurns(h, {arr}, elms, V)
  <2>1. {arr} \in SUBSET Seq(V)
    OBVIOUS
  <2> QED  BY <2>1, IncludeLoop
<1> DEFINE S == {k \in 0..n : \A r \in h[k] : AddedOf(arr, elms, k, r)}
<1>2. /\ n \in Nat /\ h[0] = {arr} /\ h[n] = AppendUnique(arr, elms)
      /\ \A k \in 0..n : h[k] \in SUBSET Seq(V)
      /\ \A k \in 1..n : h[k] = Include(h[k - 1], elms[k])
  BY <1>1 DEF IncludeTurns, IncludeFold, AppendUnique
<1>3. 0 \in S
  <2>1. AddedOf(arr, elms, 0, arr)
    BY DEF AddedOf
  <2>2. 0 \in 0..n
    BY <1>2
  <2> QED  BY <1>2, <2>1, <2>2
<1>4. ASSUME NEW k \in 1..n, k - 1 \in S PROVE k \in S
  <2>1. /\ k - 1 \in 0..n /\ k \in 0..n
        /\ \A r \in h[k - 1] : r \in Seq(V) /\ AddedOf(arr, elms, k - 1, r)
    BY <1>2, <1>4
  <2>2. \A t \in Include(h[k - 1], elms[k]) : AddedOf(arr, elms, k, t)
    <3> TAKE t \in Include(h[k - 1], elms[k])
    <3>1. PICK r \in h[k - 1] : t = IF Has(r, elms[k]) THEN r ELSE Append(r, elms[k])
      BY Included
    <3> QED  BY <2>1, <3>1, AddedKept
  <2> QED  BY <1>2, <2>1, <2>2
<1> HIDE DEF S
<1>5. n \in S
  <2>1. n \in Nat
    BY <1>2
  <2>2. 0..n \subseteq S
    BY <1>3, <1>4, <2>1, RangeInduction
  <2> QED  BY <2>1, <2>2
<1> QED  BY <1>2, <1>5 DEF S

\* What Remove leaves.
LEMMA Removed ==
  ASSUME NEW V, NEW arr \in Seq(V), NEW elms, NEW left \in RemoveElms(arr, elms)
  PROVE  /\ left \in Seq(V)
         /\ \A e : Has(left, e) <=> Has(arr, e) /\ ~Contains(elms, e)
<1> DEFINE n == Len(arr)
<1>1. PICK h : RemoveTurns(h, arr, elms, V)
  BY RemoveLoop
<1>0. left = RemoveFold(arr, elms)
  <2>1. left \in {RemoveFold(arr, elms)}
    BY Zenon DEF RemoveElms, RemoveFold, Panic
  <2> QED  BY <2>1
<1>2. /\ n \in Nat /\ h[0] = <<>> /\ h[n] = left
      /\ \A k \in 0..n : h[k] \in Seq(V)
      /\ \A k \in 1..n : h[k] = (IF Contains(elms, arr[k]) THEN h[k - 1]
                                 ELSE Append(h[k - 1], arr[k]))
  <2>1. n \in Nat /\ h[0] = <<>> /\ h[n] = left /\ h \in [0..n -> Seq(V)]
    BY <1>0, <1>1 DEF RemoveTurns
  <2>2. \A k \in 1..n : h[k] = (IF Contains(elms, arr[k]) THEN h[k - 1]
                                ELSE Append(h[k - 1], arr[k]))
    BY <1>1, Zenon DEF RemoveTurns, RemoveTurn
  <2> QED  BY <2>1, <2>2
<1> DEFINE Left(k, r) ==
             \A e : Has(r, e) <=> ~Contains(elms, e) /\ \E i \in 1..k : arr[i] = e
           S == {k \in 0..n : Left(k, h[k])}
<1>3. 0 \in S
  <2>1. Left(0, <<>>)
    BY DEF Has
  <2>2. 0 \in 0..n
    BY <1>2
  <2> HIDE DEF Left
  <2> QED  BY <1>2, <2>1, <2>2
<1>4. ASSUME NEW k \in 1..n, k - 1 \in S PROVE k \in S
  <2> DEFINE r == h[k - 1]
  <2>1. /\ k - 1 \in 0..n /\ k \in 0..n /\ r \in Seq(V) /\ Left(k - 1, r)
        /\ \A j \in 1..k : j = k \/ j \in 1..(k - 1)
        /\ k \in 1..k /\ \A j \in 1..(k - 1) : j \in 1..k
    BY <1>2, <1>4
  <2>2. \A e : Has(Append(r, arr[k]), e) <=> Has(r, e) \/ e = arr[k]
    <3> DEFINE t == Append(r, arr[k])
    <3>1. /\ Len(t) = Len(r) + 1 /\ t[Len(t)] = arr[k]
          /\ \A i \in 1..Len(r) : t[i] = r[i]
          /\ \A i \in 1..Len(t) : i = Len(t) \/ i \in 1..Len(r)
          /\ Len(t) \in 1..Len(t) /\ \A i \in 1..Len(r) : i \in 1..Len(t)
      BY <2>1
    <3> HIDE DEF t, r
    <3>2. \A e : Has(t, e) <=> Has(r, e) \/ e = arr[k]
      BY <3>1 DEF Has
    <3> QED  BY <3>2 DEF t
  <2>3. h[k] = IF Contains(elms, arr[k]) THEN r ELSE Append(r, arr[k])
    BY <1>2
  <2>4. Left(k, h[k])
    <3> HIDE DEF r
    <3> QED  BY <2>1, <2>2, <2>3
  <2> HIDE DEF Left
  <2> QED  BY <2>1, <2>4
<1> HIDE DEF S
<1>5. n \in S
  <2>1. n \in Nat
    BY <1>2
  <2>2. 0..n \subseteq S
    BY <1>3, <1>4, <2>1, RangeInduction
  <2> QED  BY <2>1, <2>2
<1> QED  BY <1>2, <1>5 DEF S, Has

\* A search that stops at the first element equal to e compares a nil pointer.
SearchFails(r, e) == ComparesNil(r, e, LAMBDA x : x = e /\ x # Nil)

\* IsInclude panics exactly when its search compares a nil pointer.
LEMMA IncludeAnswered ==
  ASSUME NEW V, NEW r \in Seq(V), NEW e
  PROVE  /\ IsInclude(r, e) # {} <=> Answered(r, e)
         /\ SearchFails(r, e) <=> ~Answered(r, e)
<1> DEFINE C == Compared(r, LAMBDA x : x = e /\ x # Nil)
           Met == \E i \in C : Nil \in {r[i], e}
<1>1. C = {i \in 1..Len(r) : \A j \in 1..(i - 1) : ~(r[j] = e /\ r[j] # Nil)}
  BY DEF Compared
<1>2. SearchFails(r, e) <=> Met
  BY DEF SearchFails, ComparesNil
<1>3. IsInclude(r, e) # {} <=> ~Met
  BY <1>2 DEF IsInclude, Panic, SearchFails
<1> HIDE DEF C
<1>4. ASSUME ~Met, r # <<>> PROVE Answered(r, e)
  <2>1. 1 \in C
    BY <1>1, <1>4
  <2>2. e # Nil
    BY <1>4, <2>1
  <2>3. CASE \E i \in 1..Len(r) : r[i] = Nil
    <3> DEFINE I == {i \in 1..Len(r) : r[i] = Nil}
    <3>1. PICK p \in I : \A q \in I : p <= q
      <4>1. I \in SUBSET Nat /\ I # {}
        BY <2>3
      <4> HIDE DEF I
      <4> QED  BY <4>1, LeastExists
    <3>2. p \notin C
      BY <1>4, <3>1
    <3>3. PICK i \in 1..(p - 1) : r[i] = e /\ r[i] # Nil
      BY <1>1, <3>1, <3>2
    <3>4. i \in 1..Len(r) /\ \A j \in 1..i : r[j] # Nil
      BY <3>1, <3>3
    <3> QED  BY <2>2, <3>3, <3>4 DEF Answered
  <2>4. CASE ~\E i \in 1..Len(r) : r[i] = Nil
    BY <2>2, <2>4 DEF Answered, Range
  <2> QED  BY <2>3, <2>4
<1>5. ASSUME r = <<>> PROVE ~Met /\ Answered(r, e)
  BY <1>1, <1>5 DEF Answered
<1>6. ASSUME Answered(r, e), r # <<>> PROVE ~Met
  <2> SUFFICES ASSUME NEW k \in C, r[k] = Nil PROVE FALSE
    BY <1>6 DEF Answered
  <2>1. k \in 1..Len(r) /\ \A j \in 1..(k - 1) : ~(r[j] = e /\ r[j] # Nil)
    BY <1>1
  <2>2. Nil \in Range(r)
    BY <2>1 DEF Range
  <2>3. PICK i \in 1..Len(r) : r[i] = e /\ \A j \in 1..i : r[j] # Nil
    BY <1>6, <2>2 DEF Answered
  <2>4. k > i
    BY <2>1, <2>3
  <2>5. i \in 1..(k - 1) /\ i \in 1..i
    BY <2>1, <2>4
  <2> QED  BY <2>1, <2>3, <2>5
<1> QED  BY <1>2, <1>3, <1>4, <1>5, <1>6

\* What AppendUnique has added does not change how its searches end.
LEMMA AnsweredAsBefore ==
  ASSUME NEW V, NEW arr \in Seq(V), arr # <<>>, NEW elms \in Seq(V),
         NEW k \in 0..Len(elms), NEW r \in Seq(V), AddedOf(arr, elms, k, r),
         \A j \in 1..k : Answered(arr, elms[j]), NEW e
  PROVE  Answered(r, e) <=> Answered(arr, e)
<1>1. /\ Len(arr) \in Nat /\ Len(r) \in Nat /\ Len(arr) <= Len(r) /\ 1 \in 1..Len(arr)
      /\ \A i \in 1..Len(arr) : i \in 1..Len(r) /\ r[i] = arr[i]
  BY DEF AddedOf
<1>2. \A j \in 1..k : elms[j] # Nil
  BY DEF Answered
<1>3. \A i \in 1..Len(r) : r[i] = Nil => i \in 1..Len(arr)
  BY <1>1, <1>2 DEF AddedOf
<1>4. r # <<>>
  BY <1>1
<1>5. Nil \in Range(r) <=> Nil \in Range(arr)
  <2>1. Has(r, Nil) <=> Has(arr, Nil)
    BY <1>1, <1>3 DEF Has
  <2> QED  BY <2>1, RangeIsHas
<1>6. ASSUME NEW i \in 1..Len(arr), \A j \in 1..i : arr[j] # Nil PROVE \A j \in 1..i : r[j] # Nil
  BY <1>1, <1>6
<1>7. ASSUME NEW i \in 1..Len(r), \A j \in 1..i : r[j] # Nil, Nil \in Range(arr)
      PROVE  i \in 1..Len(arr) /\ \A j \in 1..i : arr[j] # Nil
  <2>1. PICK p \in 1..Len(arr) : arr[p] = Nil
    BY <1>7 DEF Range
  <2>2. i < p
    BY <1>1, <1>7, <2>1
  <2> QED  BY <1>1, <1>7, <2>1, <2>2
<1>8. ASSUME Answered(r, e) PROVE Answered(arr, e)
  BY <1>1, <1>4, <1>5, <1>7, <1>8 DEF Answered
<1>9. ASSUME Answered(arr, e) PROVE Answered(r, e)
  BY <1>1, <1>5, <1>6, <1>9 DEF Answered
<1> QED  BY <1>8, <1>9

\* AppendUnique to an array that has elements panics if a search in it does.
LEMMA AppendPanics ==
  ASSUME NEW V, NEW arr \in Seq(V), arr # <<>>, NEW elms \in Seq(V)
  PROVE  AppendUnique(arr, elms) = {} <=> \E e \in Range(elms) : ~Answered(arr, e)
<1> DEFINE n == Len(elms)
           All(k) == \A j \in 1..k : Answered(arr, elms[j])
<1>1. PICK h : IncludeTurns(h, {arr}, elms, V)
  <2>1. {arr} \in SUBSET Seq(V)
    OBVIOUS
  <2> QED  BY <2>1, IncludeLoop
<1> DEFINE S == {k \in 0..n : /\ \A r \in h[k] : AddedOf(arr, elms, k, r)
                              /\ h[k] # {} <=> All(k)}
<1>2. /\ n \in Nat /\ h[0] = {arr} /\ h[n] = AppendUnique(arr, elms)
      /\ \A k \in 0..n : h[k] \in SUBSET Seq(V)
      /\ \A k \in 1..n : h[k] = Include(h[k - 1], elms[k])
  BY <1>1 DEF IncludeTurns, IncludeFold, AppendUnique
<1>3. 0 \in S
  <2>1. AddedOf(arr, elms, 0, arr)
    BY DEF AddedOf
  <2>2. 0 \in 0..n /\ All(0) /\ h[0] # {}
    BY <1>2
  <2> HIDE DEF All
  <2> QED  BY <1>2, <2>1, <2>2
<1>4. ASSUME NEW k \in 1..n, k - 1 \in S PROVE k \in S
  <2>1. /\ k - 1 \in 0..n /\ k \in 0..n
        /\ \A r \in h[k - 1] : r \in Seq(V) /\ AddedOf(arr, elms, k - 1, r)
        /\ h[k - 1] # {} <=> All(k - 1)
    BY <1>2, <1>4
  <2>2. \A t \in h[k] : AddedOf(arr, elms, k, t)
    <3> TAKE t \in h[k]
    <3>1. t \in Include(h[k - 1], elms[k])
      BY <1>2
    <3>2. PICK r \in h[k - 1] : t = IF Has(r, elms[k]) THEN r ELSE Append(r, elms[k])
      BY <3>1, Included
    <3> QED  BY <2>1, <3>2, AddedKept
  <2>3. All(k) <=> All(k - 1) /\ Answered(arr, elms[k])
    <3>1. \A j : j \in 1..k <=> j = k \/ j \in 1..(k - 1)
      OBVIOUS
    <3> QED  BY <3>1
  <2> HIDE DEF All
  <2>4. h[k] # {} <=> \E r \in h[k - 1] : IsInclude(r, elms[k]) # {}
    <3>1. h[k] = Include(h[k - 1], elms[k])
      BY <1>2
    <3> HIDE <1>2
    <3> QED  BY <3>1, IncludeEmpty
  <2>5. ASSUME All(k - 1), NEW r \in h[k - 1]
        PROVE  IsInclude(r, elms[k]) # {} <=> Answered(arr, elms[k])
    <3>1. Answered(r, elms[k]) <=> Answered(arr, elms[k])
      BY <2>1, <2>5, AnsweredAsBefore DEF All
    <3> QED  BY <2>1, <3>1, IncludeAnswered
  <2>6. h[k] # {} <=> All(k)
    BY <2>1, <2>3, <2>4, <2>5
  <2> QED  BY <2>1, <2>2, <2>6
<1> HIDE DEF S
<1>5. n \in S
  <2>1. n \in Nat
    BY <1>2
  <2>2. 0..n \subseteq S
    BY <1>3, <1>4, <2>1, RangeInduction
  <2> QED  BY <2>1, <2>2
<1>6. AppendUnique(arr, elms) # {} <=> All(n)
  BY <1>2, <1>5 DEF S
<1>7. All(n) <=> \A e \in Range(elms) : Answered(arr, e)
  BY DEF Range
<1> QED  BY <1>6, <1>7

\* Remove panics if one of its searches does.
LEMMA RemovePanics ==
  ASSUME NEW V, NEW arr \in Seq(V), NEW elms \in Seq(V)
  PROVE  /\ RemoveElms(arr, elms) = {} <=> \E e \in Range(arr) : ~Answered(elms, e)
         /\ RemoveElms(arr, elms) # {} => RemoveElms(arr, elms) = {RemoveFold(arr, elms)}
<1>1. \A e : SearchFails(elms, e) <=> ~Answered(elms, e)
  BY IncludeAnswered
<1>2. (\E i \in 1..Len(arr) : SearchFails(elms, arr[i]))
        <=> \E i \in 1..Len(arr) : ~Answered(elms, arr[i])
  BY <1>1
<1>3. (\E i \in 1..Len(arr) : ~Answered(elms, arr[i])) <=> \E e \in Range(arr) : ~Answered(elms, e)
  BY DEF Range
<1>4. RemoveElms(arr, elms) = IF \E e \in Range(arr) : ~Answered(elms, e)
                                THEN {} ELSE {RemoveFold(arr, elms)}
  BY <1>2, <1>3, Zenon DEF RemoveElms, RemoveFold, Panic, SearchFails
<1> QED  BY <1>4

\* AppendUnique and Remove panic as stated, for all arrays.
THEOREM Panics ==
  ASSUME NEW V, NEW arr \in Seq(V), NEW elms \in Seq(V)
  PROVE  PanicsAtNil(arr, elms)
<1>1. CASE arr = <<>>
  <2>1. AppendUnique(arr, elms) = Unique(elms)
    BY <1>1, Zenon DEF AppendUnique, Unique
  <2>2. UniqueKeepsFirsts(elms)
    BY UniqueKept
  <2> QED  BY <1>1, <2>1, <2>2, RemovePanics DEF PanicsAtNil, UniqueKeepsFirsts, Panic
<1>2. CASE arr # <<>>
  BY <1>2, AppendPanics, RemovePanics DEF PanicsAtNil, Panic
<1> QED  BY <1>1, <1>2

\* What AppendUnique has added is all removed, and the rest as if it were not there.
LEMMA RemovedAlike ==
  ASSUME NEW V, NEW arr \in Seq(V), NEW elms \in Seq(V), NEW res \in Seq(V),
         AddedOf(arr, elms, Len(elms), res)
  PROVE  RemoveFold(res, elms) = RemoveFold(arr, elms)
<1> DEFINE m == Len(arr)
           n == Len(res)
<1>1. PICK g : RemoveTurns(g, arr, elms, V)
  BY RemoveLoop
<1>2. PICK h : RemoveTurns(h, res, elms, V)
  BY RemoveLoop
<1>3. /\ m \in Nat /\ n \in Nat /\ m <= n /\ \A i \in 1..m : res[i] = arr[i]
      /\ \A i \in 1..n : i <= m \/ Contains(elms, res[i])
  BY DEF AddedOf, Contains
<1>4. /\ g[0] = <<>> /\ g[m] = RemoveFold(arr, elms)
      /\ \A i \in 1..m : g[i] = RemoveTurn(g[i - 1], elms, arr[i])
  BY <1>1 DEF RemoveTurns
<1>5. /\ h[0] = <<>> /\ h[n] = RemoveFold(res, elms)
      /\ \A i \in 1..n : h[i] = RemoveTurn(h[i - 1], elms, res[i])
  BY <1>2 DEF RemoveTurns
<1> DEFINE S == {i \in 0..n : h[i] = IF i <= m THEN g[i] ELSE g[m]}
<1>6. 0 \in S
  BY <1>3, <1>4, <1>5
<1>7. ASSUME NEW i \in 1..n, i - 1 \in S PROVE i \in S
  <2>1. i \in 0..n /\ h[i] = RemoveTurn(h[i - 1], elms, res[i])
    BY <1>5
  <2>2. CASE i <= m
    <3>1. i \in 1..m /\ i - 1 <= m
      BY <1>3, <2>2
    <3>2. h[i - 1] = g[i - 1]
      BY <1>7, <3>1
    <3>3. g[i] = RemoveTurn(g[i - 1], elms, arr[i]) /\ res[i] = arr[i]
      BY <1>3, <1>4, <3>1
    <3> QED  BY <2>1, <2>2, <3>2, <3>3
  <2>3. CASE ~(i <= m)
    <3>1. Contains(elms, res[i])
      BY <1>3, <2>3
    <3>2. h[i - 1] = g[m]
      <4>1. i - 1 <= m => i - 1 = m
        BY <1>3, <2>3
      <4> QED  BY <1>7, <4>1
    <3> QED  BY <2>1, <2>3, <3>1, <3>2 DEF RemoveTurn
  <2> QED  BY <2>2, <2>3
<1> HIDE DEF S
<1>8. n \in S
  <2>1. 0..n \subseteq S
    <3> HIDE DEF n
    <3> QED  BY <1>3, <1>6, <1>7, RangeInduction
  <2> QED  BY <1>3, <2>1
<1>9. h[n] = g[m]
  <2>1. h[n] = IF n <= m THEN g[n] ELSE g[m]
    BY <1>8 DEF S
  <2>2. n <= m => n = m
    BY <1>3
  <2> QED  BY <2>1, <2>2
<1> QED  BY <1>4, <1>5, <1>9

\* AppendUnique adds each value once and behind the array; Remove takes out what it
\* is given, and leaves after AppendUnique what it leaves of the array alone.
THEOREM AddedAndRemoved ==
  ASSUME NEW V, NEW arr \in Seq(V), NEW elms \in Seq(V)
  PROVE  AddedOnceAndRemoved(arr, elms)
<1>0. ASSUME NEW left \in RemoveElms(arr, elms)
      PROVE  Range(left) = Range(arr) \ Range(elms)
  <2>1. left \in Seq(V) /\ \A e : Has(left, e) <=> Has(arr, e) /\ ~Contains(elms, e)
    BY Removed
  <2>2. \A e : Contains(elms, e) <=> Has(elms, e)
    BY DEF Contains, Has
  <2> QED  BY <2>1, <2>2, RangeIsHas
<1> SUFFICES ASSUME NEW res \in AppendUnique(arr, elms)
             PROVE  /\ IsPrefix(arr, res)
                    /\ \A e \in Values(elms) \ Range(arr) : Count(res, e) \subseteq {1}
                    /\ Values(res) = Values(arr) \cup Values(elms)
                    /\ \A left \in RemoveElms(res, elms) : RemoveElms(arr, elms) = {left}
  BY <1>0 DEF AddedOnceAndRemoved
<1>1. res \in Seq(V) /\ AddedOf(arr, elms, Len(elms), res)
  BY Added
<1>2. IsPrefix(arr, res)
  <2>1. SubSeq(arr, 1, Len(arr)) = SubSeq(res, 1, Len(arr))
    BY <1>1 DEF AddedOf
  <2> QED  BY <1>1, <2>1 DEF IsPrefix, AddedOf
<1>3. \A e : Has(res, e) <=> Has(arr, e) \/ Has(elms, e)
  <2> TAKE e
  <2>1. ASSUME Has(res, e) PROVE Has(arr, e) \/ Has(elms, e)
    <3>1. PICK i \in 1..Len(res) : res[i] = e
      BY <2>1 DEF Has
    <3>2. CASE i <= Len(arr)
      <4>1. i \in 1..Len(arr) /\ arr[i] = e
        BY <1>1, <3>1, <3>2 DEF AddedOf
      <4> QED  BY <4>1 DEF Has
    <3>3. CASE \E j \in 1..Len(elms) : elms[j] = res[i]
      BY <3>1, <3>3 DEF Has
    <3> QED  BY <1>1, <3>2, <3>3 DEF AddedOf
  <2>2. ASSUME Has(arr, e) PROVE Has(res, e)
    <3>1. PICK i \in 1..Len(arr) : arr[i] = e
      BY <2>2 DEF Has
    <3>2. i \in 1..Len(res) /\ res[i] = e
      BY <1>1, <3>1 DEF AddedOf
    <3> QED  BY <3>2 DEF Has
  <2>3. ASSUME Has(elms, e) PROVE Has(res, e)
    BY <1>1, <2>3 DEF AddedOf, Has
  <2> QED  BY <2>1, <2>2, <2>3
<1>4. Range(res) = Range(arr) \cup Range(elms)
  BY <1>1, <1>3, RangeIsHas
<1>5. ASSUME NEW e \in Values(elms) \ Range(arr)
      PROVE  Count(res, e) \subseteq {1}
  <2>1. Has(res, e) /\ ~Has(arr, e)
    BY <1>3, RangeIsHas DEF Values
  <2>2. PICK i \in 1..Len(res) : res[i] = e
    BY <2>1 DEF Has
  <2>3. i > Len(arr)
    BY <1>1, <2>1, <2>2 DEF AddedOf, Has
  <2>4. {j \in 1..Len(res) : res[j] = e} = {i}
    BY <1>1, <2>2, <2>3 DEF AddedOf
  <2>5. Cardinality({j \in 1..Len(res) : res[j] = e}) = 1
    BY <2>4, FS_Singleton
  <2> QED  BY <2>5 DEF Count, Panic
<1>6. ASSUME NEW left \in RemoveElms(res, elms)
      PROVE  RemoveElms(arr, elms) = {left}
  <2>1. \A e \in Range(res) : Answered(elms, e)
    BY <1>1, <1>6, RemovePanics
  <2>2. \A e \in Range(arr) : Answered(elms, e)
    BY <1>4, <2>1
  <2>3. RemoveElms(arr, elms) = {RemoveFold(arr, elms)}
    BY <2>2, RemovePanics
  <2>4. RemoveElms(res, elms) = {RemoveFold(res, elms)}
    BY <1>1, <1>6, RemovePanics
  <2>5. RemoveFold(res, elms) = RemoveFold(arr, elms)
    BY <1>1, RemovedAlike
  <2> QED  BY <1>6, <2>3, <2>4, <2>5
<1>7. Values(res) = Values(arr) \cup Values(elms)
  BY <1>4 DEF Values
<1> QED  BY <1>2, <1>5, <1>6, <1>7

\* Unique and AppendUnique keep every value once, Remove takes out what it is given,
\* and they panic only where they compare a nil pointer.
THEOREM ArraysKept == HelpersSpec => []ArraysKeepValues
<1>1. InputsInv => ArraysKeepValues
  <2> SUFFICES ASSUME InputsInv, call[1] = "array"
               PROVE  /\ UniqueKeepsFirsts(call[2][1])
                      /\ PanicsAtNil(call[2][1], call[2][2])
                      /\ AddedOnceAndRemoved(call[2][1], call[2][2])
    BY DEF ArraysKeepValues, Of
  <2>1. PICK arr, elms \in Tuples(Elements, 3) : call[2] = <<arr, elms>>
    BY DEF InputsInv
  <2>2. arr \in Seq(Elements) /\ elms \in Seq(Elements)
    BY TuplesAreSequences
  <2> QED  BY <2>1, <2>2, UniqueKept, Panics, AddedAndRemoved
<1> QED  BY <1>1, Inputs, PTL
=============================================================================
