------------------------------ MODULE FileProofs ------------------------------
(***************************************************************************)
(* The functions of file.go are correct on every file system that is a     *)
(* tree: CopyFile, CreateFolders, Zip and Unzip, SearchFiles.              *)
(***************************************************************************)
EXTENDS HelperProofs

(* CopyFile *)

\* The file systems and the paths the functions are proved for.
IsFileSystem(fs) == fs = [dirs |-> fs.dirs, files |-> fs.files]

\* The trees of MCHelpers are records of folders and files.
LEMMA TreesAreFileSystems == \A fs \in Trees : IsFileSystem(fs)
<1>1. \A d, f : IsFileSystem([dirs |-> d, files |-> f])
  BY DEF IsFileSystem
<1> QED  BY <1>1, Zenon DEF Trees

\* Its paths are sequences of names, not empty.
LEMMA PathsAreSequences == Paths \subseteq Seq(Names) \ {<<>>}
<1>1. \A n \in Names : <<n>> \in Seq(Names) \ {<<>>}
  OBVIOUS
<1>2. \A m, n \in Names : <<m, n>> \in Seq(Names) \ {<<>>}
  OBVIOUS
<1>3. \A p \in Names \X Names : \E m, n \in Names : p = <<m, n>>
  OBVIOUS
<1> QED  BY <1>1, <1>2, <1>3, SMTT(30) DEF Paths

\* A prefix is not longer.
LEMMA PrefixLengths ==
  ASSUME NEW N, NEW path \in Seq(N), NEW p \in Prefixes(path)
  PROVE  p \in Seq(N) /\ Len(p) <= Len(path)
<1>1. PICK l \in 0..Len(path) : p = SubSeq(path, 1, l)
  BY DEF Prefixes
<1> QED  BY <1>1

\* The folder of a path is shorter, so the path is not above it.
LEMMA FrontShorter ==
  ASSUME NEW N, NEW path \in Seq(N), path # <<>>
  PROVE  /\ Front(path) \in Seq(N) /\ Len(Front(path)) = Len(path) - 1
         /\ path \notin Prefixes(Front(path))
<1>1. Front(path) \in Seq(N) /\ Len(Front(path)) = Len(path) - 1
  BY SMTT(30) DEF Front
<1>2. ASSUME path \in Prefixes(Front(path)) PROVE FALSE
  BY <1>1, <1>2, PrefixLengths
<1> QED  BY <1>1, <1>2

\* os.MkdirAll adds folders only, and fails only at a file.
LEMMA Made ==
  ASSUME NEW fs, IsFileSystem(fs), NEW path
  PROVE  /\ IsFileSystem(MkdirAll(fs, path).fs)
         /\ MkdirAll(fs, path).fs.files = fs.files
         /\ IF \E p \in Prefixes(path) : p \in Files(fs)
              THEN MkdirAll(fs, path).err /\ MkdirAll(fs, path).fs = fs
              ELSE /\ ~MkdirAll(fs, path).err
                   /\ MkdirAll(fs, path).fs.dirs = fs.dirs \cup Prefixes(path)
BY DEF MkdirAll, Ok, Err, IsFileSystem

Written(files, path, content) ==
  [f \in DOMAIN files \cup {path} |-> IF f = path THEN content ELSE files[f]]

\* os.Create changes one file, and fails only at a folder.
LEMMA Created ==
  ASSUME NEW fs, IsFileSystem(fs), NEW path, NEW content
  PROVE  /\ IsFileSystem(Create(fs, path, content).fs)
         /\ Create(fs, path, content).fs.dirs = fs.dirs
         /\ Create(fs, path, content).err <=> path \in fs.dirs
         /\ Create(fs, path, content).err => Create(fs, path, content).fs = fs
         /\ ~Create(fs, path, content).err =>
              Create(fs, path, content).fs.files = Written(fs.files, path, content)
BY DEF Create, Write, Ok, Err, IsFileSystem, Written, Files

\* A call that leaves all files but the destination as they were.
LEMMA OnlyDestination ==
  ASSUME NEW fs, NEW src, NEW des, NEW r, NEW content, r = CopyFile(fs, src, des),
         src # des,
         r.fs.files = Written(fs.files, des, content),
         ~r.err => src \in Files(fs) /\ content = fs.files[src],
         src \in Files(fs) => ~r.err
  PROVE  CopyIsFaithful(fs, src, des)
BY DEF CopyIsFaithful, Files, Written

\* A call that fails before it touches the destination.
LEMMA NothingCopied ==
  ASSUME NEW fs, NEW src, NEW des, NEW r, r = CopyFile(fs, src, des),
         r.fs.files = fs.files, r.err,
         src \in Files(fs) =>
           des \in fs.dirs \/ \E p \in Prefixes(Front(des)) : p \in Files(fs)
  PROVE  CopyIsFaithful(fs, src, des)
BY DEF CopyIsFaithful, Files

\* CopyFile harms no file but the destination, on every file system.
THEOREM Copied ==
  ASSUME NEW fs, IsFileSystem(fs), NEW N, NEW src, NEW des \in Seq(N), des # <<>>
  PROVE  CopyIsFaithful(fs, src, des)
<1> DEFINE r == CopyFile(fs, src, des)
           m == MkdirAll(fs, Front(des))
           to(content) == Create(m.fs, des, content)
<1>1. /\ IsFileSystem(m.fs) /\ m.fs.files = fs.files
      /\ m.err => \E p \in Prefixes(Front(des)) : p \in Files(fs)
      /\ ~m.err => (des \in m.fs.dirs <=> des \in fs.dirs)
  BY Made, FrontShorter
<1>2. \A content :
        /\ to(content).err <=> des \in m.fs.dirs
        /\ to(content).err => to(content).fs = m.fs
        /\ ~to(content).err => to(content).fs.files = Written(fs.files, des, content)
  <2> HIDE DEF m
  <2> QED  BY <1>1, Created
<1>3. CASE src = des
  BY <1>3 DEF CopyFile, CopyIsFaithful, Ok
<1>4. CASE src # des /\ src \notin Files(fs) \cup fs.dirs
  <2>1. r = Err(fs)
    BY <1>4 DEF CopyFile
  <2>2. r.fs = fs /\ r.err
    BY <2>1 DEF Err
  <2> HIDE DEF r
  <2> QED  BY <1>4, <2>2, NothingCopied DEF r
<1>5. CASE src # des /\ src \in Files(fs)
  <2>1. r = IF m.err THEN m ELSE to(fs.files[src])
    BY <1>5 DEF CopyFile, Then
  <2> HIDE DEF r, m, to
  <2>2. CASE r.err
    <3>1. r.fs.files = fs.files
      BY <1>1, <1>2, <2>1, <2>2
    <3>2. des \in fs.dirs \/ \E p \in Prefixes(Front(des)) : p \in Files(fs)
      BY <1>1, <1>2, <2>1, <2>2
    <3> QED  BY <2>2, <3>1, <3>2, NothingCopied DEF r
  <2>3. CASE ~r.err
    <3>1. r.fs.files = Written(fs.files, des, fs.files[src])
      BY <1>2, <2>1, <2>3
    <3> QED  BY <1>5, <2>3, <3>1, OnlyDestination DEF r
  <2> QED  BY <2>2, <2>3
<1>6. CASE src # des /\ src \notin Files(fs) /\ src \in fs.dirs
  <2>1. r = Err((IF m.err THEN m ELSE to(Empty)).fs)
    BY <1>6 DEF CopyFile, Then
  <2>2. r.err /\ r.fs = (IF m.err THEN m ELSE to(Empty)).fs
    BY <2>1 DEF Err
  <2> HIDE DEF r, m, to
  <2>3. CASE m.err \/ to(Empty).err
    <3>1. r.fs.files = fs.files
      BY <1>1, <1>2, <2>2, <2>3
    <3> QED  BY <1>6, <2>2, <3>1, NothingCopied DEF r
  <2>4. CASE ~m.err /\ ~to(Empty).err
    <3>1. r.fs.files = Written(fs.files, des, Empty)
      BY <1>2, <2>2, <2>4
    <3> QED  BY <1>6, <2>2, <3>1, OnlyDestination DEF r
  <2> QED  BY <2>3, <2>4
<1> QED  BY <1>3, <1>4, <1>5, <1>6

\* CopyFile harms no file but the destination.
THEOREM CopyFaithful == HelpersSpec => []CopyKeepsFiles
<1>1. InputsInv => CopyKeepsFiles
  BY Copied, TreesAreFileSystems, PathsAreSequences
  DEF InputsInv, CopyKeepsFiles, Of
<1> QED  BY <1>1, Inputs, PTL

-----------------------------------------------------------------------------
(* CreateFolders *)

\* The file systems with paths in P and contents in C, and what calls return.
Systems(P, C) == [dirs : SUBSET P, files : UNION {[S -> C] : S \in SUBSET P}]

Results(P, C) == [fs : Systems(P, C), err : BOOLEAN]

\* The parts of a file system, and how it is put together.
LEMMA SystemParts ==
  ASSUME NEW P, NEW C
  PROVE  /\ \A fs \in Systems(P, C) :
              /\ fs = [dirs |-> fs.dirs, files |-> fs.files]
              /\ fs.dirs \in SUBSET P /\ Files(fs) \in SUBSET P
              /\ fs.files \in [Files(fs) -> C]
         /\ \A dirs, S \in SUBSET P : \A files \in [S -> C] :
              [dirs |-> dirs, files |-> files] \in Systems(P, C)
BY DEF Systems, Files

\* os.RemoveAll leaves a file system.
LEMMA RemoveStays ==
  ASSUME NEW P, NEW C, NEW fs \in Systems(P, C), NEW path
  PROVE  RemovePath(fs, path) \in Results(P, C)
<1> DEFINE D == {d \in fs.dirs : ~Under(path, d)}
           S == {f \in Files(fs) : ~Under(path, f)}
           left == [dirs |-> D, files |-> Restrict(fs.files, S)]
<1>1. D \in SUBSET P /\ S \in SUBSET P /\ Restrict(fs.files, S) \in [S -> C]
  BY SystemParts DEF Restrict
<1>2. RemovePath(fs, path) = IF \E p \in Prefixes(path) : p # path /\ p \in Files(fs)
                               THEN Err(fs) ELSE Ok(left)
  BY DEF RemovePath
<1>3. left \in Systems(P, C)
  <2> HIDE DEF D, S
  <2> QED  BY <1>1, SystemParts
<1> HIDE DEF left
<1> QED  BY <1>2, <1>3 DEF Ok, Err, Results

\* os.MkdirAll leaves one.
LEMMA MkdirStays ==
  ASSUME NEW N, NEW C, NEW fs \in Systems(Seq(N), C), NEW path \in Seq(N)
  PROVE  MkdirAll(fs, path) \in Results(Seq(N), C)
<1>1. Prefixes(path) \in SUBSET Seq(N)
  BY PrefixLengths
<1>2. [fs EXCEPT !.dirs = @ \cup Prefixes(path)] \in Systems(Seq(N), C)
  <2> DEFINE D == fs.dirs \cup Prefixes(path)
  <2>1. D \in SUBSET Seq(N) /\ fs = [dirs |-> fs.dirs, files |-> fs.files]
    BY <1>1, SystemParts
  <2>2. [fs EXCEPT !.dirs = D] = [dirs |-> D, files |-> fs.files]
    <3> HIDE DEF D
    <3> QED  BY <2>1
  <2>3. [dirs |-> D, files |-> fs.files] \in Systems(Seq(N), C)
    <3> HIDE DEF D
    <3> QED  BY <2>1, SystemParts
  <2> QED  BY <2>2, <2>3
<1> QED  BY <1>2 DEF MkdirAll, Ok, Err, Results

\* The loop of CreateFolders that removes the folders.
RemovePathsFold(fs, paths) ==
  FoldLeft(LAMBDA r, p : Then(r, LAMBDA left : RemovePath(left, p)), Ok(fs), paths)

RemovePathsTurn(r, path) == IF r.err THEN r ELSE RemovePath(r.fs, path)

RemovePathsTurns(h, fs, paths, N, C) ==
  /\ h \in [0..Len(paths) -> Results(Seq(N), C)] /\ h[0] = Ok(fs)
  /\ \A i \in 1..Len(paths) : h[i] = RemovePathsTurn(h[i - 1], paths[i])
  /\ h[Len(paths)] = RemovePathsFold(fs, paths)

\* The fold of RemoveAll is a loop.
LEMMA RemovePathsLoop ==
  ASSUME NEW N, NEW C, NEW fs \in Systems(Seq(N), C), NEW paths \in Seq(Seq(N))
  PROVE  \E h : RemovePathsTurns(h, fs, paths, N, C)
<1> DEFINE n == Len(paths)
           A == Results(Seq(N), C)
           F == [i \in 1..n |-> [a \in A |-> RemovePathsTurn(a, paths[i])]]
           Body(iter) == [s \in SUBSET (DOMAIN paths) |->
                            IF s = {} THEN Ok(fs)
                            ELSE RemovePathsTurn(iter[s \ {Max(s)}], paths[Max(s)])]
           it == CHOOSE iter : iter = Body(iter)
<1>1. n \in Nat /\ DOMAIN paths = 1..n
  OBVIOUS
<1>2. Ok(fs) \in A /\ F \in [1..n -> [A -> A]]
  <2>1. \A i \in 1..n, a \in A : a.fs \in Systems(Seq(N), C) /\ paths[i] \in Seq(N)
    BY DEF Results
  <2>2. \A i \in 1..n, a \in A : RemovePath(a.fs, paths[i]) \in A
    BY <2>1, RemoveStays
  <2>3. Ok(fs) \in A
    BY DEF Ok, Results
  <2> HIDE DEF A
  <2> QED  BY <2>2, <2>3 DEF RemovePathsTurn
<1>3. PICK g : Iterates(g, n, A, Ok(fs), F)
  <2> HIDE DEF F, A
  <2> QED  BY <1>1, <1>2, FoldExists
<1>4. \A s \in SUBSET (1..n) : s # {} => Max(s) \in 1..n /\ s \ {Max(s)} \in SUBSET (1..n)
  BY <1>1, MaxOfRange
<1>5. g = Body(g)
  BY <1>1, <1>3, <1>4 DEF Iterates
<1>6. it = Body(it)
  <2> HIDE DEF Body
  <2> QED  BY <1>5
<1>7. RemovePathsFold(fs, paths) = it[1..n]
  BY <1>1 DEF RemovePathsFold, RemovePathsTurn, Then, FoldLeft, MapThenFoldSet
<1> HIDE DEF it
<1>8. Recurs(it, n, A, Ok(fs), F)
  BY <1>1, <1>4, <1>6 DEF Recurs
<1>9. PICK h : Loops(h, n, A, Ok(fs), F, it[1..n])
  <2> HIDE DEF F, A
  <2> QED  BY <1>1, <1>2, <1>8, FoldLoop
<1>10. \A i \in 1..n : h[i] = RemovePathsTurn(h[i - 1], paths[i])
  <2> TAKE i \in 1..n
  <2>1. h[i - 1] \in A /\ h[i] = F[i][h[i - 1]]
    <3> HIDE DEF F, A
    <3> QED  BY <1>1, <1>9, LoopStep
  <2> QED  BY <2>1
<1>11. h \in [0..n -> A] /\ h[0] = Ok(fs) /\ h[n] = it[1..n]
  <2> HIDE DEF F, A
  <2> QED  BY <1>9 DEF Loops
<1>12. RemovePathsTurns(h, fs, paths, N, C)
  BY <1>7, <1>10, <1>11 DEF RemovePathsTurns
<1> QED  BY <1>12

\* The loop of CreateFolders that makes them.
MkdirFold(fs, paths) ==
  FoldLeft(LAMBDA r, p : Then(r, LAMBDA made : MkdirAll(made, p)), Ok(fs), paths)

MkdirTurn(r, path) == IF r.err THEN r ELSE MkdirAll(r.fs, path)

MkdirTurns(h, fs, paths, N, C) ==
  /\ h \in [0..Len(paths) -> Results(Seq(N), C)] /\ h[0] = Ok(fs)
  /\ \A i \in 1..Len(paths) : h[i] = MkdirTurn(h[i - 1], paths[i])
  /\ h[Len(paths)] = MkdirFold(fs, paths)

\* The fold of MkdirEach is a loop.
LEMMA MkdirLoop ==
  ASSUME NEW N, NEW C, NEW fs \in Systems(Seq(N), C), NEW paths \in Seq(Seq(N))
  PROVE  \E h : MkdirTurns(h, fs, paths, N, C)
<1> DEFINE n == Len(paths)
           A == Results(Seq(N), C)
           F == [i \in 1..n |-> [a \in A |-> MkdirTurn(a, paths[i])]]
           Body(iter) == [s \in SUBSET (DOMAIN paths) |->
                            IF s = {} THEN Ok(fs)
                            ELSE MkdirTurn(iter[s \ {Max(s)}], paths[Max(s)])]
           it == CHOOSE iter : iter = Body(iter)
<1>1. n \in Nat /\ DOMAIN paths = 1..n
  OBVIOUS
<1>2. Ok(fs) \in A /\ F \in [1..n -> [A -> A]]
  <2>1. \A i \in 1..n, a \in A : a.fs \in Systems(Seq(N), C) /\ paths[i] \in Seq(N)
    BY DEF Results
  <2>2. \A i \in 1..n, a \in A : MkdirAll(a.fs, paths[i]) \in A
    BY <2>1, MkdirStays
  <2>3. Ok(fs) \in A
    BY DEF Ok, Results
  <2> HIDE DEF A
  <2> QED  BY <2>2, <2>3 DEF MkdirTurn
<1>3. PICK g : Iterates(g, n, A, Ok(fs), F)
  <2> HIDE DEF F, A
  <2> QED  BY <1>1, <1>2, FoldExists
<1>4. \A s \in SUBSET (1..n) : s # {} => Max(s) \in 1..n /\ s \ {Max(s)} \in SUBSET (1..n)
  BY <1>1, MaxOfRange
<1>5. g = Body(g)
  BY <1>1, <1>3, <1>4 DEF Iterates
<1>6. it = Body(it)
  <2> HIDE DEF Body
  <2> QED  BY <1>5
<1>7. MkdirFold(fs, paths) = it[1..n]
  BY <1>1 DEF MkdirFold, MkdirTurn, Then, FoldLeft, MapThenFoldSet
<1> HIDE DEF it
<1>8. Recurs(it, n, A, Ok(fs), F)
  BY <1>1, <1>4, <1>6 DEF Recurs
<1>9. PICK h : Loops(h, n, A, Ok(fs), F, it[1..n])
  <2> HIDE DEF F, A
  <2> QED  BY <1>1, <1>2, <1>8, FoldLoop
<1>10. \A i \in 1..n : h[i] = MkdirTurn(h[i - 1], paths[i])
  <2> TAKE i \in 1..n
  <2>1. h[i - 1] \in A /\ h[i] = F[i][h[i - 1]]
    <3> HIDE DEF F, A
    <3> QED  BY <1>1, <1>9, LoopStep
  <2> QED  BY <2>1
<1>11. h \in [0..n -> A] /\ h[0] = Ok(fs) /\ h[n] = it[1..n]
  <2> HIDE DEF F, A
  <2> QED  BY <1>9 DEF Loops
<1>12. MkdirTurns(h, fs, paths, N, C)
  BY <1>7, <1>10, <1>11 DEF MkdirTurns
<1> QED  BY <1>12

\* After the first loop nothing is left below the folders, and all else is; it fails
\* at a file above one of them.
LEMMA PathsRemoved ==
  ASSUME NEW N, NEW C, NEW fs \in Systems(Seq(N), C), NEW paths \in Seq(Seq(N))
  PROVE  LET r == RemoveAll(fs, paths) IN
         /\ r \in Results(Seq(N), C)
         /\ Files(r.fs) \subseteq Files(fs)
         /\ \A f \in Files(fs) : Keeps(r, fs, f) \/ \E p \in Range(paths) : Under(p, f)
         /\ r.err => \E p \in Range(paths) : \E q \in Prefixes(p) : q # p /\ q \in Files(fs)
         /\ ~r.err => \A p \in Range(paths) : \A x \in r.fs.dirs \cup Files(r.fs) : ~Under(p, x)
<1> DEFINE n == Len(paths)
           Kept(k, r) ==
             /\ Files(r.fs) \subseteq Files(fs)
             /\ \A f \in Files(r.fs) : r.fs.files[f] = fs.files[f]
             /\ \A f \in Files(fs) : f \in Files(r.fs) \/ \E j \in 1..k : Under(paths[j], f)
           Fails(k, r) == \E j \in 1..k : \E q \in Prefixes(paths[j]) :
                             q # paths[j] /\ q \in Files(fs)
           Gone(k, r) == \A j \in 1..k : \A x \in r.fs.dirs \cup Files(r.fs) : ~Under(paths[j], x)
           Part(k, r) == Kept(k, r) /\ (r.err => Fails(k, r)) /\ (~r.err => Gone(k, r))
<1>1. PICK h : RemovePathsTurns(h, fs, paths, N, C)
  BY RemovePathsLoop
<1>2. /\ n \in Nat /\ h[0] = Ok(fs) /\ h[n] = RemoveAll(fs, paths)
      /\ \A k \in 0..n : h[k] \in Results(Seq(N), C)
  <2>1. RemovePathsFold(fs, paths) = RemoveAll(fs, paths)
    BY Zenon DEF RemovePathsFold, RemoveAll
  <2>2. /\ h \in [0..n -> Results(Seq(N), C)] /\ h[0] = Ok(fs)
        /\ h[n] = RemovePathsFold(fs, paths)
    BY <1>1, Zenon DEF RemovePathsTurns
  <2> QED  BY <2>1, <2>2, SMTT(30)
<1>3. \A k \in 1..n : h[k] = (IF h[k - 1].err THEN h[k - 1]
                              ELSE RemovePath(h[k - 1].fs, paths[k]))
  BY <1>1, Zenon DEF RemovePathsTurns, RemovePathsTurn
<1> DEFINE S == {k \in 0..n : Part(k, h[k])}
<1>4. 0 \in S
  <2>1. Part(0, Ok(fs))
    BY DEF Ok
  <2>2. 0 \in 0..n
    BY <1>2
  <2> HIDE DEF Part
  <2> QED  BY <1>2, <2>1, <2>2
<1>5. ASSUME NEW k \in 1..n, k - 1 \in S PROVE k \in S
  <2> DEFINE r == h[k - 1]
             m == RemovePath(r.fs, paths[k])
  <2>1. k - 1 \in 0..n /\ k \in 0..n /\ Part(k - 1, r)
    BY <1>5
  <2>2. \A j : j \in 1..k <=> j = k \/ j \in 1..(k - 1)
    OBVIOUS
  <2>3. CASE r.err
    <3>1. h[k] = r
      BY <1>3, <2>3
    <3>2. Part(k, r)
      BY <2>1, <2>2, <2>3
    <3> HIDE DEF Part
    <3> QED  BY <2>1, <3>1, <3>2
  <2>4. CASE ~r.err
    <3>1. h[k] = m
      BY <1>3, <2>4
    <3>2. CASE \E q \in Prefixes(paths[k]) : q # paths[k] /\ q \in Files(r.fs)
      <4>1. m.err /\ m.fs = r.fs
        BY <3>2 DEF RemovePath, Err
      <4> HIDE DEF m, r
      <4>2. Part(k, m)
        BY <2>1, <2>2, <3>2, <4>1
      <4> HIDE DEF Part
      <4> QED  BY <2>1, <3>1, <4>2
    <3>3. CASE ~\E q \in Prefixes(paths[k]) : q # paths[k] /\ q \in Files(r.fs)
      <4>1. /\ ~m.err /\ m.fs.dirs = {d \in r.fs.dirs : ~Under(paths[k], d)}
            /\ Files(m.fs) = {f \in Files(r.fs) : ~Under(paths[k], f)}
            /\ \A f \in Files(m.fs) : m.fs.files[f] = r.fs.files[f]
        BY <3>3 DEF RemovePath, Ok, Files, Restrict
      <4> HIDE DEF m, r
      <4>2. Part(k, m)
        BY <2>1, <2>2, <2>4, <4>1
      <4> HIDE DEF Part
      <4> QED  BY <2>1, <3>1, <4>2
    <3> QED  BY <3>2, <3>3
  <2> QED  BY <2>3, <2>4
<1> HIDE DEF S
<1>6. n \in S
  <2>1. n \in Nat
    BY <1>2
  <2>2. 0..n \subseteq S
    BY <1>4, <1>5, <2>1, RangeInduction
  <2> QED  BY <2>1, <2>2
<1>7. Part(n, RemoveAll(fs, paths)) /\ RemoveAll(fs, paths) \in Results(Seq(N), C)
  <2>1. n \in 0..n
    BY <1>2
  <2> HIDE DEF Part
  <2> QED  BY <1>2, <1>6, <2>1 DEF S
<1>8. \A p : p \in Range(paths) <=> \E j \in 1..n : p = paths[j]
  BY DEF Range
<1> HIDE DEF n
<1> QED  BY <1>7, <1>8 DEF Keeps

\* The second loop adds the folders and those above them, and nothing else; it fails
\* at a file.
LEMMA PathsMade ==
  ASSUME NEW N, NEW C, NEW fs \in Systems(Seq(N), C), NEW paths \in Seq(Seq(N))
  PROVE  LET r == MkdirEach(fs, paths) IN
         /\ r.fs.files = fs.files
         /\ ~r.err => r.fs.dirs = fs.dirs \cup UNION {Prefixes(p) : p \in Range(paths)}
         /\ r.err => \E p \in Range(paths) : \E q \in Prefixes(p) : q \in Files(fs)
<1> DEFINE n == Len(paths)
           above(k) == UNION {Prefixes(paths[j]) : j \in 1..k}
           MadeSo(k, r) == /\ r.fs.files = fs.files
                           /\ ~r.err => r.fs.dirs = fs.dirs \cup above(k)
                           /\ r.err => \E j \in 1..k : \E q \in Prefixes(paths[j]) : q \in Files(fs)
<1>1. PICK h : MkdirTurns(h, fs, paths, N, C)
  BY MkdirLoop
<1>2. /\ n \in Nat /\ h[0] = Ok(fs) /\ h[n] = MkdirEach(fs, paths)
      /\ \A k \in 0..n : h[k] \in Results(Seq(N), C)
  <2>1. MkdirFold(fs, paths) = MkdirEach(fs, paths)
    BY Zenon DEF MkdirFold, MkdirEach
  <2>2. /\ h \in [0..n -> Results(Seq(N), C)] /\ h[0] = Ok(fs)
        /\ h[n] = MkdirFold(fs, paths)
    BY <1>1, Zenon DEF MkdirTurns
  <2> QED  BY <2>1, <2>2, SMTT(30)
<1>3. \A k \in 1..n : h[k] = (IF h[k - 1].err THEN h[k - 1]
                              ELSE MkdirAll(h[k - 1].fs, paths[k]))
  BY <1>1, Zenon DEF MkdirTurns, MkdirTurn
<1> DEFINE S == {k \in 0..n : MadeSo(k, h[k])}
<1>4. 0 \in S
  <2>1. above(0) = {} /\ 0 \in 0..n
    BY <1>2
  <2> HIDE DEF above
  <2> QED  BY <1>2, <2>1 DEF Ok
<1>5. ASSUME NEW k \in 1..n, k - 1 \in S PROVE k \in S
  <2> DEFINE r == h[k - 1]
  <2>1. k - 1 \in 0..n /\ k \in 0..n /\ MadeSo(k - 1, r) /\ r \in Results(Seq(N), C)
    BY <1>2, <1>5
  <2>2. above(k) = above(k - 1) \cup Prefixes(paths[k])
    <3>1. \A j : j \in 1..k <=> j = k \/ j \in 1..(k - 1)
      OBVIOUS
    <3> QED  BY <3>1
  <2>0. \A j : j \in 1..k <=> j = k \/ j \in 1..(k - 1)
    OBVIOUS
  <2>3. CASE r.err
    <3>1. h[k] = r
      BY <1>3, <2>3
    <3> HIDE DEF r, above
    <3> QED  BY <2>0, <2>1, <2>3, <3>1
  <2>4. CASE ~r.err
    <3> DEFINE m == MkdirAll(r.fs, paths[k])
    <3>1. h[k] = m
      BY <1>3, <2>4
    <3>2. /\ m.fs.files = r.fs.files
          /\ ~m.err => m.fs.dirs = r.fs.dirs \cup Prefixes(paths[k])
          /\ m.err => \E q \in Prefixes(paths[k]) : q \in Files(r.fs)
      <4>1. IsFileSystem(r.fs)
        BY <2>1, SystemParts DEF Results, IsFileSystem
      <4> HIDE DEF r
      <4> QED  BY <4>1, Made
    <3>3. Files(r.fs) = Files(fs)
      BY <2>1 DEF Files
    <3> HIDE DEF m, above, r
    <3> QED  BY <2>0, <2>1, <2>2, <2>4, <3>1, <3>2, <3>3
  <2> QED  BY <2>3, <2>4
<1> HIDE DEF S
<1>6. n \in S
  <2>1. n \in Nat
    BY <1>2
  <2>2. 0..n \subseteq S
    BY <1>4, <1>5, <2>1, RangeInduction
  <2> QED  BY <2>1, <2>2
<1>7. MadeSo(n, MkdirEach(fs, paths))
  BY <1>2, <1>6 DEF S
<1>8. above(n) = UNION {Prefixes(p) : p \in Range(paths)}
  <2>1. \A p : p \in Range(paths) <=> \E j \in 1..n : p = paths[j]
    BY DEF Range
  <2> QED  BY <2>1
<1>9. \A p : p \in Range(paths) <=> \E j \in 1..n : p = paths[j]
  BY DEF Range
<1> HIDE DEF n, above
<1> QED  BY <1>7, <1>8, <1>9

\* The paths above q are its prefixes.
LEMMA PrefixesArePrefixes ==
  ASSUME NEW N, NEW q \in Seq(N)
  PROVE  q \in Prefixes(q) /\ \A d \in Prefixes(q) : IsPrefix(d, q)
<1>1. SubSeq(q, 1, Len(q)) = q /\ Len(q) \in 0..Len(q)
  OBVIOUS
<1>2. ASSUME NEW l \in 0..Len(q) PROVE IsPrefix(SubSeq(q, 1, l), q)
  <2> DEFINE d == SubSeq(q, 1, l)
  <2>1. Len(d) = l /\ d \in Seq(N)
    OBVIOUS
  <2>2. SubSeq(d, 1, l) = d
    OBVIOUS
  <2> HIDE DEF d
  <2> QED  BY <2>1, <2>2 DEF IsPrefix, d
<1>3. q \in Prefixes(q)
  BY <1>1 DEF Prefixes
<1>4. ASSUME NEW d \in Prefixes(q) PROVE IsPrefix(d, q)
  <2>1. PICK l \in 0..Len(q) : d = SubSeq(q, 1, l)
    BY DEF Prefixes
  <2> QED  BY <1>2, <2>1
<1> QED  BY <1>3, <1>4

RecreatedSo(r, fs, paths) ==
  /\ \A f \in Files(fs) : Keeps(r, fs, f) \/ \E p \in Range(paths) : Under(p, f)
  /\ r.err => \E p \in Range(paths) : \E q \in Prefixes(p) : q # p /\ q \in Files(fs)
  /\ ~r.err =>
       /\ Range(paths) \subseteq r.fs.dirs
       /\ \A p \in Range(paths) :
            /\ \A f \in Files(r.fs) : ~Under(p, f)
            /\ \A d \in r.fs.dirs : Under(p, d) => \E q \in Range(paths) : Under(d, q)

\* The files that CreateFolders removes, and where it fails, from its two loops.
LEMMA Recreating ==
  ASSUME NEW N, NEW C, NEW fs \in Systems(Seq(N), C), NEW paths \in Seq(Seq(N))
  PROVE  RecreatedSo(CreateFolders(fs, paths, TRUE), fs, paths)
<1> DEFINE c == RemoveAll(fs, paths)
           s == c.fs
           r == MkdirEach(s, paths)
<1>1. /\ c \in Results(Seq(N), C)
      /\ Files(s) \subseteq Files(fs)
      /\ \A f \in Files(fs) : Keeps(c, fs, f) \/ \E p \in Range(paths) : Under(p, f)
      /\ c.err => \E p \in Range(paths) : \E q \in Prefixes(p) : q # p /\ q \in Files(fs)
      /\ ~c.err => \A p \in Range(paths) : \A x \in s.dirs \cup Files(s) : ~Under(p, x)
  BY PathsRemoved
<1>2. s \in Systems(Seq(N), C)
  <2> HIDE DEF c
  <2> QED  BY <1>1 DEF Results
<1>3. /\ r.fs.files = s.files
      /\ ~r.err => r.fs.dirs = s.dirs \cup UNION {Prefixes(p) : p \in Range(paths)}
      /\ r.err => \E p \in Range(paths) : \E q \in Prefixes(p) : q \in Files(s)
  <2> HIDE DEF s
  <2> QED  BY <1>2, PathsMade
<1>4. CreateFolders(fs, paths, TRUE) = IF c.err THEN c ELSE r
  BY Zenon DEF CreateFolders, Then
<1>5. \A p \in Range(paths) : p \in Prefixes(p) /\ \A d \in Prefixes(p) : Under(d, p)
  <2>1. Range(paths) \subseteq Seq(N)
    BY DEF Range
  <2> QED  BY <2>1, PrefixesArePrefixes DEF Under
<1> HIDE DEF r, c, s
<1>6. CASE c.err
  <2>1. CreateFolders(fs, paths, TRUE) = c
    BY <1>4, <1>6
  <2> QED  BY <1>1, <1>6, <2>1 DEF RecreatedSo
<1>7. CASE ~c.err
  <2>1. Files(r.fs) = Files(s) /\ \A f : Keeps(r, fs, f) <=> Keeps(c, fs, f)
    BY <1>3 DEF Files, Keeps, s
  <2>2. r.err => \E p \in Range(paths) : \E q \in Prefixes(p) : q # p /\ q \in Files(fs)
    BY <1>1, <1>3, <1>5, <1>7
  <2>3. ASSUME ~r.err
        PROVE  /\ Range(paths) \subseteq r.fs.dirs
               /\ \A p \in Range(paths) :
                    /\ \A f \in Files(r.fs) : ~Under(p, f)
                    /\ \A d \in r.fs.dirs : Under(p, d) => \E q \in Range(paths) : Under(d, q)
    <3>1. \A d : d \in r.fs.dirs <=> d \in s.dirs \/ \E q \in Range(paths) : d \in Prefixes(q)
      BY <1>3, <2>3
    <3>2. Range(paths) \subseteq r.fs.dirs
      BY <1>5, <3>1
    <3>3. \A p \in Range(paths), d \in r.fs.dirs :
             Under(p, d) => \E q \in Range(paths) : Under(d, q)
      BY <1>1, <1>5, <1>7, <3>1
    <3>4. \A p \in Range(paths) : \A f \in Files(r.fs) : ~Under(p, f)
      BY <1>1, <1>7, <2>1
    <3> QED  BY <3>2, <3>3, <3>4
  <2>4. CreateFolders(fs, paths, TRUE) = r
    BY <1>4, <1>7
  <2>5. \A f \in Files(fs) : Keeps(r, fs, f) \/ \E p \in Range(paths) : Under(p, f)
    BY <1>1, <2>1
  <2> QED  BY <2>2, <2>3, <2>4, <2>5, Zenon DEF RecreatedSo
<1> QED  BY <1>6, <1>7

\* CreateFolders leaves the folders, empty ones if it recreates them, and loses no file
\* but those it is to remove, on every file system and for every list of folders.
THEOREM Recreated ==
  ASSUME NEW N, NEW C, NEW fs \in Systems(Seq(N), C), NEW paths \in Seq(Seq(N)),
         NEW isRecreate \in BOOLEAN
  PROVE  FoldersAreFresh(fs, paths, isRecreate)
<1>1. CASE isRecreate
  <2>1. isRecreate = TRUE
    BY <1>1
  <2>2. RecreatedSo(CreateFolders(fs, paths, isRecreate), fs, paths)
    BY <2>1, Recreating, Zenon
  <2> DEFINE r == CreateFolders(fs, paths, isRecreate)
  <2>3. RecreatedSo(r, fs, paths)
    BY <2>2
  <2> HIDE DEF r
  <2> QED  BY <1>1, <2>3 DEF FoldersAreFresh, RecreatedSo, r
<1>2. CASE ~isRecreate
  <2> DEFINE r == MkdirEach(fs, paths)
  <2>1. CreateFolders(fs, paths, isRecreate) = r
    BY <1>2, Zenon DEF CreateFolders, Then, Ok
  <2>2. /\ r.fs.files = fs.files
        /\ ~r.err => r.fs.dirs = fs.dirs \cup UNION {Prefixes(p) : p \in Range(paths)}
        /\ r.err => \E p \in Range(paths) : \E q \in Prefixes(p) : q \in Files(fs)
    BY PathsMade
  <2>3. \A p \in Range(paths) : p \in Prefixes(p)
    <3>1. Range(paths) \subseteq Seq(N)
      BY DEF Range
    <3> QED  BY <3>1, PrefixesArePrefixes
  <2> HIDE DEF r
  <2>4. \A f \in Files(fs) : Keeps(r, fs, f)
    BY <2>2 DEF Keeps, Files
  <2>5. ~r.err => Range(paths) \subseteq r.fs.dirs
    BY <2>2, <2>3
  <2> QED  BY <1>2, <2>1, <2>2, <2>4, <2>5 DEF FoldersAreFresh
<1> QED  BY <1>1, <1>2

\* The contents of the files of MCHelpers.
Contents == {Data(p) : p \in Paths}

\* The trees of MCHelpers are file systems of its paths.
LEMMA TreesAreSystems == Trees \subseteq Systems(Seq(Names), Contents)
<1> DEFINE D(kind) == {<<>>} \cup {p \in Paths : kind[p] = "dir"}
           S(kind) == {p \in Paths : kind[p] = "file"}
           F(kind) == [f \in S(kind) |-> Data(f)]
<1>1. \A fs \in Trees : \E kind : fs = [dirs |-> D(kind), files |-> F(kind)]
  BY Zenon DEF Trees
<1>2. \A kind : /\ D(kind) \in SUBSET Seq(Names) /\ S(kind) \in SUBSET Seq(Names)
                /\ F(kind) \in [S(kind) -> Contents]
  <2>1. <<>> \in Seq(Names) /\ Paths \subseteq Seq(Names)
    BY PathsAreSequences
  <2>2. \A kind : S(kind) \in SUBSET Paths
    OBVIOUS
  <2>3. \A kind : D(kind) \in SUBSET Seq(Names)
    BY <2>1, Zenon
  <2> HIDE DEF S, D
  <2>4. \A kind : F(kind) \in [S(kind) -> Contents]
    BY <2>2 DEF Contents
  <2> HIDE DEF F
  <2> QED  BY <2>1, <2>2, <2>3, <2>4
<1> HIDE DEF D, S, F
<1>3. \A kind : [dirs |-> D(kind), files |-> F(kind)] \in Systems(Seq(Names), Contents)
  BY <1>2, SystemParts
<1> QED  BY <1>1, <1>3

\* CreateFolders leaves the folders, and nothing in them if it recreates them; a call
\* that fails loses no other file.
THEOREM FoldersMade == HelpersSpec => []FoldersAreMade
<1>1. InputsInv => FoldersAreMade
  <2> SUFFICES ASSUME InputsInv, call[1] = "folders"
               PROVE  FoldersAreFresh(call[2][1], call[2][2], call[2][3])
    BY DEF FoldersAreMade, Of
  <2>1. PICK fs \in Trees, paths \in Tuples(Paths, 2), isRecreate \in BOOLEAN :
          call[2] = <<fs, paths, isRecreate>>
    BY DEF InputsInv
  <2>2. fs \in Systems(Seq(Names), Contents) /\ paths \in Seq(Seq(Names))
    <3>1. paths \in Seq(Paths)
      BY TuplesAreSequences
    <3>2. paths \in Seq(Seq(Names))
      BY <3>1, PathsAreSequences
    <3> QED  BY <3>2, TreesAreSystems
  <2> QED  BY <2>1, <2>2, Recreated
<1> QED  BY <1>1, Inputs, PTL

-----------------------------------------------------------------------------
(* Zip and Unzip *)

\* A folder has an entry for everything below it, and no file has.
IsTree(fs) ==
  /\ fs.dirs \cap Files(fs) = {}
  /\ \A p \in fs.dirs \cup Files(fs) : \A q \in Prefixes(p) : q # p => q \in fs.dirs

\* Writing a file leaves a file system.
LEMMA WriteStays ==
  ASSUME NEW P, NEW C, NEW fs \in Systems(P, C), NEW path \in P, NEW content \in C
  PROVE  Write(fs, path, content) \in Systems(P, C)
<1> DEFINE files == [f \in Files(fs) \cup {path} |-> IF f = path THEN content ELSE fs.files[f]]
<1>1. Files(fs) \cup {path} \in SUBSET P /\ files \in [Files(fs) \cup {path} -> C]
  BY SystemParts
<1>2. [fs EXCEPT !.files = files] = [dirs |-> fs.dirs, files |-> files]
  <2> HIDE DEF files
  <2> QED  BY SystemParts
<1>3. [dirs |-> fs.dirs, files |-> files] \in Systems(P, C)
  <2> HIDE DEF files
  <2> QED  BY <1>1, SystemParts
<1>4. Write(fs, path, content) = [fs EXCEPT !.files = files]
  BY DEF Write
<1> QED  BY <1>2, <1>3, <1>4

\* os.Create leaves one.
LEMMA CreateStays ==
  ASSUME NEW P, NEW C, NEW fs \in Systems(P, C), NEW path \in P, NEW content \in C
  PROVE  Create(fs, path, content) \in Results(P, C)
<1> DEFINE w == Write(fs, path, content)
<1>1. w \in Systems(P, C)
  BY WriteStays
<1>2. Create(fs, path, content) = IF path \in fs.dirs THEN Err(fs) ELSE Ok(w)
  BY DEF Create
<1> HIDE DEF w
<1> QED  BY <1>1, <1>2 DEF Ok, Err, Results

\* The folder of a path, the root's being the root.
LEMMA FrontStays ==
  ASSUME NEW N, NEW path \in Seq(N)
  PROVE  Front(path) \in Seq(N)
<1>1. CASE path # <<>>
  BY <1>1, FrontShorter
<1>2. CASE path = <<>>
  BY <1>2 DEF Front
<1> QED  BY <1>1, <1>2

\* A turn of Unzip leaves a file system.
LEMMA UnpackStays ==
  ASSUME NEW N, NEW C, NEW fs \in Systems(Seq(N), C), NEW path \in Seq(N), NEW content \in C,
         Empty \in C, NEW zipFile
  PROVE  Unpack(fs, zipFile, path, content) \in Results(Seq(N), C)
<1> DEFINE m == MkdirAll(fs, Front(path))
           a == MkdirAll(fs, path)
           c == Create(m.fs, path, content)
           e == Err(Write(m.fs, path, Empty))
           u == Unpack(fs, zipFile, path, content)
<1>1. m \in Results(Seq(N), C) /\ a \in Results(Seq(N), C)
  BY FrontStays, MkdirStays
<1>2. m.fs \in Systems(Seq(N), C)
  <2> HIDE DEF m
  <2> QED  BY <1>1 DEF Results
<1> HIDE DEF m
<1>3. c \in Results(Seq(N), C) /\ Write(m.fs, path, Empty) \in Systems(Seq(N), C)
  BY <1>2, CreateStays, WriteStays
<1>4. e \in Results(Seq(N), C)
  BY <1>3 DEF Err, Results
<1>5. u = a \/ u = m \/ u = e \/ u = c
  BY Zenon DEF Unpack, Then, m
<1> HIDE DEF a, c, e, u
<1>6. u \in Results(Seq(N), C)
  BY <1>1, <1>3, <1>4, <1>5
<1> QED  BY <1>6 DEF u

\* When an entry is unpacked, and what is there then.
LEMMA Unpacked ==
  ASSUME NEW fs, IsFileSystem(fs), NEW zipFile, NEW path, NEW content, content.kind # "folder"
  PROVE  LET r == Unpack(fs, zipFile, path, content) IN
         /\ r.err <=> \/ \E p \in Prefixes(Front(path)) : p \in Files(fs)
                      \/ path = zipFile
                      \/ path \in fs.dirs \cup Prefixes(Front(path))
         /\ ~r.err => /\ r.fs.files = Written(fs.files, path, content)
                      /\ r.fs.dirs = fs.dirs \cup Prefixes(Front(path))
<1> DEFINE m == MkdirAll(fs, Front(path))
           c == Create(m.fs, path, content)
           r == Unpack(fs, zipFile, path, content)
<1>1. /\ IsFileSystem(m.fs) /\ m.fs.files = fs.files
      /\ m.err <=> \E p \in Prefixes(Front(path)) : p \in Files(fs)
      /\ ~m.err => m.fs.dirs = fs.dirs \cup Prefixes(Front(path))
  BY Made
<1>2. r = IF m.err THEN m ELSE IF path = zipFile THEN Err(Write(m.fs, path, Empty)) ELSE c
  BY Zenon DEF Unpack, Then
<1> HIDE DEF m
<1>3. /\ c.fs.dirs = m.fs.dirs
      /\ c.err <=> path \in m.fs.dirs
      /\ ~c.err => c.fs.files = Written(m.fs.files, path, content)
  BY <1>1, Created
<1>4. Err(Write(m.fs, path, Empty)).err
  BY DEF Err
<1> HIDE DEF c, r
<1>5. CASE m.err
  BY <1>1, <1>2, <1>5 DEF r
<1>6. CASE ~m.err /\ path = zipFile
  <2>1. r.err
    BY <1>2, <1>4, <1>6
  <2> QED  BY <1>6, <2>1 DEF r
<1>7. CASE ~m.err /\ path # zipFile
  <2>1. r = c
    BY <1>2, <1>7
  <2> QED  BY <1>1, <1>3, <1>7, <2>1 DEF r
<1> QED  BY <1>5, <1>6, <1>7

\* The loop of Unzip.
UnzipFold(r0, zipFile, entries, dir, names) ==
  FoldLeft(LAMBDA r, n : Then(r, LAMBDA made : Unpack(made, zipFile, dir \o n, entries[n])),
           r0, names)

UnzipTurn(r, zipFile, entries, dir, n) ==
  IF r.err THEN r ELSE Unpack(r.fs, zipFile, dir \o n, entries[n])

UnzipTurns(h, r0, zipFile, entries, dir, names, N, C) ==
  /\ h \in [0..Len(names) -> Results(Seq(N), C)] /\ h[0] = r0
  /\ \A i \in 1..Len(names) : h[i] = UnzipTurn(h[i - 1], zipFile, entries, dir, names[i])
  /\ h[Len(names)] = UnzipFold(r0, zipFile, entries, dir, names)

\* The fold of Unzip is a loop.
LEMMA UnzipLoop ==
  ASSUME NEW N, NEW C, NEW r0 \in Results(Seq(N), C), NEW dir \in Seq(N), NEW entries,
         NEW names \in Seq(Seq(N)), \A i \in 1..Len(names) : entries[names[i]] \in C,
         Empty \in C, NEW zipFile
  PROVE  \E h : UnzipTurns(h, r0, zipFile, entries, dir, names, N, C)
<1> DEFINE n == Len(names)
           A == Results(Seq(N), C)
           F == [i \in 1..n |-> [a \in A |-> UnzipTurn(a, zipFile, entries, dir, names[i])]]
           Body(iter) == [s \in SUBSET (DOMAIN names) |->
                            IF s = {} THEN r0
                            ELSE UnzipTurn(iter[s \ {Max(s)}], zipFile, entries, dir, names[Max(s)])]
           it == CHOOSE iter : iter = Body(iter)
<1>1. n \in Nat /\ DOMAIN names = 1..n
  OBVIOUS
<1>2. r0 \in A /\ F \in [1..n -> [A -> A]]
  <2>1. \A i \in 1..n, a \in A : /\ a.fs \in Systems(Seq(N), C)
                               /\ dir \o names[i] \in Seq(N) /\ entries[names[i]] \in C
    BY DEF Results
  <2>2. \A i \in 1..n, a \in A : Unpack(a.fs, zipFile, dir \o names[i], entries[names[i]]) \in A
    BY <2>1, UnpackStays
  <2>3. r0 \in A
    OBVIOUS
  <2> HIDE DEF A
  <2> QED  BY <2>2, <2>3 DEF UnzipTurn
<1>3. PICK g : Iterates(g, n, A, r0, F)
  <2> HIDE DEF F, A
  <2> QED  BY <1>1, <1>2, FoldExists
<1>4. \A s \in SUBSET (1..n) : s # {} => Max(s) \in 1..n /\ s \ {Max(s)} \in SUBSET (1..n)
  BY <1>1, MaxOfRange
<1>5. g = Body(g)
  BY <1>1, <1>3, <1>4 DEF Iterates
<1>6. it = Body(it)
  <2> HIDE DEF Body
  <2> QED  BY <1>5
<1>7. UnzipFold(r0, zipFile, entries, dir, names) = it[1..n]
  BY <1>1 DEF UnzipFold, UnzipTurn, Then, FoldLeft, MapThenFoldSet
<1> HIDE DEF it
<1>8. Recurs(it, n, A, r0, F)
  BY <1>1, <1>4, <1>6 DEF Recurs
<1>9. PICK h : Loops(h, n, A, r0, F, it[1..n])
  <2> HIDE DEF F, A
  <2> QED  BY <1>1, <1>2, <1>8, FoldLoop
<1>10. \A i \in 1..n : h[i] = UnzipTurn(h[i - 1], zipFile, entries, dir, names[i])
  <2> TAKE i \in 1..n
  <2>1. h[i - 1] \in A /\ h[i] = F[i][h[i - 1]]
    <3> HIDE DEF F, A
    <3> QED  BY <1>1, <1>9, LoopStep
  <2> QED  BY <2>1
<1>11. h \in [0..n -> A] /\ h[0] = r0 /\ h[n] = it[1..n]
  <2> HIDE DEF F, A
  <2> QED  BY <1>9 DEF Loops
<1>12. UnzipTurns(h, r0, zipFile, entries, dir, names, N, C)
  BY <1>7, <1>10, <1>11 DEF UnzipTurns
<1> QED  BY <1>12

\* What is above the folder of g is what is above g and is not g.
LEMMA PrefixOfFront ==
  ASSUME NEW N, NEW g \in Seq(N), g # <<>>, NEW p
  PROVE  p \in Prefixes(Front(g)) <=> p \in Prefixes(g) /\ p # g
<1>1. Front(g) \in Seq(N) /\ Len(Front(g)) = Len(g) - 1
  BY FrontShorter
<1>2. \A l \in 0..(Len(g) - 1) : SubSeq(Front(g), 1, l) = SubSeq(g, 1, l)
  BY DEF Front
<1>3. \A l \in 0..Len(g) : Len(SubSeq(g, 1, l)) = l
  OBVIOUS
<1>4. ASSUME p \in Prefixes(Front(g)) PROVE p \in Prefixes(g) /\ p # g
  <2>1. PICK l \in 0..Len(Front(g)) : p = SubSeq(Front(g), 1, l)
    BY <1>4 DEF Prefixes
  <2>2. l \in 0..Len(g) /\ l # Len(g) /\ p = SubSeq(g, 1, l) /\ Len(p) = l
    BY <1>1, <1>2, <1>3, <2>1
  <2> QED  BY <2>2 DEF Prefixes
<1>5. ASSUME p \in Prefixes(g), p # g PROVE p \in Prefixes(Front(g))
  <2>1. PICK l \in 0..Len(g) : p = SubSeq(g, 1, l)
    BY <1>5 DEF Prefixes
  <2>2. SubSeq(g, 1, Len(g)) = g
    OBVIOUS
  <2>3. l \in 0..Len(Front(g)) /\ p = SubSeq(Front(g), 1, l)
    BY <1>1, <1>2, <1>5, <2>1, <2>2
  <2> QED  BY <2>3 DEF Prefixes
<1> QED  BY <1>4, <1>5

\* SetToSeq lists each element of a finite set once.
LEMMA ListIsExact ==
  ASSUME NEW S, IsFiniteSet(S)
  PROVE  /\ SetToSeq(S) \in Seq(S) /\ Range(SetToSeq(S)) = S
         /\ \A i, j \in 1..Len(SetToSeq(S)) : i # j => SetToSeq(S)[i] # SetToSeq(S)[j]
<1> DEFINE D == 1..Cardinality(S)
<1>1. \E f \in [D -> S] : IsInjective(f)
  <2>1. ExistsBijection(D, S)
    BY FS_CardinalityType
  <2> QED  BY <2>1 DEF ExistsBijection, Bijection, Injection
<1>2. SetToSeq(S) \in [D -> S] /\ IsInjective(SetToSeq(S))
  BY <1>1, Zenon DEF SetToSeq
<1>3. SetToSeq(S) \in SetToSeqs(S)
  BY <1>2 DEF SetToSeqs, IsInjective
<1> QED  BY <1>3, Scans

\* A path below dir is dir and the rest of it.
LEMMA PathIsDirAndRest ==
  ASSUME NEW N, NEW dir \in Seq(N), NEW f \in Seq(N), Under(dir, f)
  PROVE  Rest(dir, f) \in Seq(N) /\ dir \o Rest(dir, f) = f
<1> DEFINE rest == SubSeq(f, Len(dir) + 1, Len(f))
<1>1. Len(dir) <= Len(f) /\ Len(dir) \in Nat /\ Len(f) \in Nat
  BY DEF Under, IsPrefix
<1>2. rest \in Seq(N) /\ Len(rest) = Len(f) - Len(dir)
      /\ \A i \in 1..Len(rest) : rest[i] = f[Len(dir) + i]
  BY <1>1
<1>3. \A i \in 1..Len(dir) : dir[i] = f[i]
  <2> TAKE i \in 1..Len(dir)
  <2>1. SubSeq(dir, 1, Len(dir))[i] = dir[i] /\ SubSeq(f, 1, Len(dir))[i] = f[i]
    BY <1>1
  <2>2. SubSeq(dir, 1, Len(dir)) = SubSeq(f, 1, Len(dir))
    BY DEF Under, IsPrefix
  <2> QED  BY <2>1, <2>2
<1> HIDE DEF rest
<1>4. dir \o rest \in Seq(N) /\ Len(dir \o rest) = Len(f)
  BY <1>1, <1>2
<1>5. \A i \in 1..Len(f) : (dir \o rest)[i] = f[i]
  <2> TAKE i \in 1..Len(f)
  <2>1. CASE i \in 1..Len(dir)
    BY <1>2, <1>3, <2>1, ConcatProperties
  <2>2. CASE i \notin 1..Len(dir)
    <3>1. i - Len(dir) \in 1..Len(rest)
      BY <1>1, <1>2, <2>2
    <3>2. (dir \o rest)[i] = rest[i - Len(dir)]
      BY <1>1, <1>2, <1>4, <2>2, ConcatProperties
    <3>3. rest[i - Len(dir)] = f[i]
      BY <1>1, <1>2, <3>1
    <3> QED  BY <3>2, <3>3
  <2> QED  BY <2>1, <2>2
<1>6. dir \o rest = f
  <2> DEFINE w == dir \o rest
  <2>1. w \in Seq(N) /\ Len(w) = Len(f) /\ \A i \in 1..Len(f) : w[i] = f[i]
    BY <1>4, <1>5
  <2> HIDE DEF w
  <2>2. w = f
    BY <2>1
  <2> QED  BY <2>2 DEF w
<1> QED  BY <1>2, <1>6 DEF rest, Rest

\* A path below dir is below it, and the rest of it is what was appended.
LEMMA AppendedBelow ==
  ASSUME NEW N, NEW dir \in Seq(N), NEW a \in Seq(N)
  PROVE  /\ dir \o a \in Seq(N) /\ Len(dir \o a) = Len(dir) + Len(a)
         /\ Under(dir, dir \o a) /\ Rest(dir, dir \o a) = a
<1> DEFINE w == dir \o a
<1>1. /\ w \in Seq(N) /\ Len(w) = Len(dir) + Len(a)
      /\ \A i \in 1..Len(dir) : w[i] = dir[i]
      /\ \A i \in 1..Len(a) : w[Len(dir) + i] = a[i]
  <2>1. \A i \in 1..Len(a) : /\ Len(dir) + i \in 1..(Len(dir) + Len(a))
                             /\ Len(dir) + i > Len(dir) /\ (Len(dir) + i) - Len(dir) = i
    OBVIOUS
  <2>2. \A i \in 1..Len(dir) : i \in 1..(Len(dir) + Len(a)) /\ i <= Len(dir)
    OBVIOUS
  <2> QED  BY <2>1, <2>2, ConcatProperties
<1> HIDE DEF w
<1>2. SubSeq(w, 1, Len(dir)) = SubSeq(dir, 1, Len(dir))
  BY <1>1
<1>3. SubSeq(w, Len(dir) + 1, Len(w)) = a
  <2> DEFINE s == SubSeq(w, Len(dir) + 1, Len(w))
  <2>1. s \in Seq(N) /\ Len(s) = Len(a) /\ \A i \in 1..Len(a) : s[i] = w[Len(dir) + i]
    BY <1>1
  <2> HIDE DEF s
  <2>2. s = a
    BY <1>1, <2>1
  <2> QED  BY <2>2 DEF s
<1>4. Len(dir) <= Len(w)
  BY <1>1
<1>5. Under(dir, w)
  BY <1>2, <1>4 DEF Under, IsPrefix
<1>6. Rest(dir, w) = a
  BY <1>3 DEF Rest
<1> QED  BY <1>1, <1>5, <1>6 DEF w

RestAbove(q, dir, a, N) == \E b \in Prefixes(a) : b \in Seq(N) /\ q = dir \o b

\* What is above a path below dir is above dir, or below it and above the rest.
LEMMA PrefixBelow ==
  ASSUME NEW N, NEW dir \in Seq(N), NEW a \in Seq(N), NEW w, w = dir \o a,
         NEW q \in Prefixes(w)
  PROVE  q \in Prefixes(dir) \/ RestAbove(q, dir, a, N)
<1>1. /\ w \in Seq(N) /\ Len(w) = Len(dir) + Len(a)
      /\ \A i \in 1..Len(dir) : w[i] = dir[i]
      /\ \A i \in 1..Len(a) : w[Len(dir) + i] = a[i]
  <2>1. \A i \in 1..Len(a) : /\ Len(dir) + i \in 1..(Len(dir) + Len(a))
                             /\ Len(dir) + i > Len(dir) /\ (Len(dir) + i) - Len(dir) = i
    OBVIOUS
  <2>2. \A i \in 1..Len(dir) : i \in 1..(Len(dir) + Len(a)) /\ i <= Len(dir)
    OBVIOUS
  <2> QED  BY <2>1, <2>2, ConcatProperties
<1>2. ASSUME NEW l \in 0..Len(dir) PROVE SubSeq(w, 1, l) = SubSeq(dir, 1, l)
  BY <1>1
<1>3. ASSUME NEW l \in 0..Len(a) PROVE SubSeq(w, 1, Len(dir) + l) = dir \o SubSeq(a, 1, l)
  <2> DEFINE b == SubSeq(a, 1, l)
             s == SubSeq(w, 1, Len(dir) + l)
             t == dir \o b
  <2>1. b \in Seq(N) /\ Len(b) = l /\ \A i \in 1..l : b[i] = a[i]
    OBVIOUS
  <2>2. s \in Seq(N) /\ Len(s) = Len(dir) + l /\ \A i \in 1..(Len(dir) + l) : s[i] = w[i]
    BY <1>1
  <2> HIDE DEF b
  <2>3. /\ t \in Seq(N) /\ Len(t) = Len(dir) + l
        /\ \A i \in 1..(Len(dir) + l) :
             t[i] = IF i <= Len(dir) THEN dir[i] ELSE b[i - Len(dir)]
    BY <2>1, ConcatProperties
  <2>4. \A i \in 1..(Len(dir) + l) : s[i] = t[i]
    <3> TAKE i \in 1..(Len(dir) + l)
    <3> HIDE DEF s, t
    <3>1. CASE i <= Len(dir)
      <4>1. i \in 1..Len(dir)
        BY <3>1
      <4> QED  BY <1>1, <2>2, <2>3, <3>1, <4>1
    <3>2. CASE ~(i <= Len(dir))
      <4>1. i - Len(dir) \in 1..l /\ i - Len(dir) \in 1..Len(a) /\ Len(dir) + (i - Len(dir)) = i
        BY <3>2
      <4>2. w[i] = a[i - Len(dir)]
        BY <1>1, <4>1
      <4> QED  BY <2>1, <2>2, <2>3, <3>2, <4>1, <4>2
    <3> QED  BY <3>1, <3>2
  <2> HIDE DEF s, t
  <2>5. s = t
    BY <2>2, <2>3, <2>4
  <2> QED  BY <2>5 DEF s, t, b
<1>4. PICK l \in 0..Len(w) : q = SubSeq(w, 1, l)
  BY DEF Prefixes
<1>5. CASE l <= Len(dir)
  <2>1. l \in 0..Len(dir)
    BY <1>5
  <2> QED  BY <1>2, <1>4, <2>1 DEF Prefixes
<1>6. CASE ~(l <= Len(dir))
  <2>1. PICK k \in 0..Len(a) : l = Len(dir) + k
    <3>1. l - Len(dir) \in 0..Len(a) /\ l = Len(dir) + (l - Len(dir))
      BY <1>1, <1>6
    <3> QED  BY <3>1
  <2> DEFINE b == SubSeq(a, 1, k)
  <2>2. q = dir \o b
    BY <1>3, <1>4, <2>1
  <2>3. b \in Prefixes(a) /\ b \in Seq(N)
    BY <2>1 DEF Prefixes
  <2> HIDE DEF b
  <2> QED  BY <2>2, <2>3 DEF RestAbove
<1> QED  BY <1>5, <1>6

\* Two paths below dir are equal only if they are the same there.
LEMMA SameRest ==
  ASSUME NEW N, NEW dir \in Seq(N), NEW a \in Seq(N), NEW b \in Seq(N), dir \o a = dir \o b
  PROVE  a = b
<1>1. Rest(dir, dir \o a) = a /\ Rest(dir, dir \o b) = b
  BY AppendedBelow
<1> QED  BY <1>1

\* The entries of an archive that the loop of Unzip can unpack.
AreEntries(entries, N, C) ==
  /\ IsFiniteSet(DOMAIN entries) /\ DOMAIN entries \in SUBSET Seq(N)
  /\ \A n \in DOMAIN entries : entries[n] \in C /\ entries[n].kind # "folder"

\* There is nothing at dir, and no file above it.
NothingAt(fs, dir) ==
  /\ \A p \in fs.dirs \cup Files(fs) : ~Under(dir, p)
  /\ \A p \in Prefixes(dir) : p \notin Files(fs)

\* No entry is the root, and none is above another one.
AreApart(entries) ==
  /\ <<>> \notin DOMAIN entries
  /\ \A a, b \in DOMAIN entries : a \in Prefixes(b) => a = b

\* The files and folders of s are those of fs and what has been unpacked.
Grown(s, fs, dir, done) ==
  /\ \A f \in Files(s) : f \in Files(fs) \/ \E a \in done : f = dir \o a
  /\ \A d \in s.dirs : \/ d \in fs.dirs \/ d \in Prefixes(dir)
                       \/ \E a \in done : d \in Prefixes(Front(dir \o a))

\* An entry is unpacked when those in a set done have been.
LEMMA OneUnpacked ==
  ASSUME NEW N, NEW C, NEW fs \in Systems(Seq(N), C), NEW zipFile \in Files(fs),
         NEW entries, AreEntries(entries, N, C), NEW dir \in Seq(N),
         NothingAt(fs, dir), AreApart(entries),
         NEW s \in Systems(Seq(N), C), NEW done \in SUBSET DOMAIN entries,
         NEW n \in DOMAIN entries, Grown(s, fs, dir, done)
  PROVE  LET r == Unpack(s, zipFile, dir \o n, entries[n]) IN
         ~r.err /\ Grown(r.fs, fs, dir, done \cup {n})
<1> DEFINE r == Unpack(s, zipFile, dir \o n, entries[n])
           path == dir \o n
<1>1. \A a \in DOMAIN entries :
        /\ a \in Seq(N) /\ a # <<>> /\ dir \o a \in Seq(N) /\ dir \o a # <<>>
        /\ Under(dir, dir \o a) /\ dir \o a \notin Prefixes(dir)
  <2> TAKE a \in DOMAIN entries
  <2>1. a \in Seq(N) /\ a # <<>>
    BY DEF AreEntries, AreApart
  <2>2. dir \o a \in Seq(N) /\ Len(dir \o a) = Len(dir) + Len(a) /\ Under(dir, dir \o a)
    BY <2>1, AppendedBelow
  <2>3. Len(a) > 0
    BY <2>1
  <2>4. dir \o a # <<>>
    BY <2>2, <2>3
  <2>5. dir \o a \notin Prefixes(dir)
    <3> SUFFICES ASSUME dir \o a \in Prefixes(dir) PROVE FALSE
      OBVIOUS
    <3>1. Len(dir \o a) <= Len(dir)
      BY PrefixLengths
    <3> QED  BY <2>2, <2>3, <3>1
  <2> QED  BY <2>1, <2>2, <2>4, <2>5
<1>2. \A a, b \in DOMAIN entries : dir \o a \notin Prefixes(Front(dir \o b))
  <2> SUFFICES ASSUME NEW a \in DOMAIN entries, NEW b \in DOMAIN entries,
                      dir \o a \in Prefixes(Front(dir \o b))
               PROVE  FALSE
    OBVIOUS
  <2>1. dir \o a \in Prefixes(dir \o b) /\ dir \o a # dir \o b
    BY <1>1, PrefixOfFront
  <2>2. b \in Seq(N) /\ dir \o a \notin Prefixes(dir)
    BY <1>1
  <2>4. PICK c \in Prefixes(b) : c \in Seq(N) /\ dir \o a = dir \o c
    <3>1. dir \o a \in Prefixes(dir \o b)
      BY <2>1
    <3>2. RestAbove(dir \o a, dir, b, N)
      BY <2>2, <3>1, PrefixBelow
    <3> QED  BY <3>2 DEF RestAbove
  <2>3. a = c
    BY <1>1, <2>4, SameRest
  <2> QED  BY <2>1, <2>3, <2>4 DEF AreApart
<1>3. \A p \in Prefixes(Front(path)) : p \notin Files(s)
  <2> SUFFICES ASSUME NEW p \in Prefixes(Front(path)), p \in Files(s) PROVE FALSE
    OBVIOUS
  <2>1. p \in Files(fs) \/ \E a \in done : p = dir \o a
    BY DEF Grown
  <2>2. p \in Prefixes(path)
    BY <1>1, PrefixOfFront
  <2>3. p \in Prefixes(dir) \/ Under(dir, p)
    <3>1. n \in Seq(N)
      BY <1>1
    <3>2. p \in Prefixes(dir) \/ RestAbove(p, dir, n, N)
      BY <2>2, <3>1, PrefixBelow
    <3>3. \A b \in Seq(N) : Under(dir, dir \o b)
      BY AppendedBelow
    <3> QED  BY <3>2, <3>3 DEF RestAbove
  <2>4. p \notin Files(fs)
    BY <2>3 DEF NothingAt
  <2>5. PICK a \in done : p = dir \o a
    BY <2>1, <2>4
  <2> QED  BY <1>2, <2>5
<1>4. path # zipFile
  BY <1>1 DEF NothingAt
<1>5. path \notin s.dirs \cup Prefixes(Front(path))
  <2>1. path \notin Prefixes(Front(path))
    BY <1>1, PrefixOfFront
  <2>2. path \notin fs.dirs
    BY <1>1 DEF NothingAt
  <2>3. \A a \in done : path \notin Prefixes(Front(dir \o a))
    BY <1>2
  <2>4. path \notin Prefixes(dir)
    BY <1>1
  <2> HIDE DEF path
  <2>5. path \notin s.dirs
    BY <2>2, <2>3, <2>4 DEF Grown
  <2> QED  BY <2>1, <2>5
<1>6. IsFileSystem(s) /\ entries[n].kind # "folder"
  BY SystemParts DEF IsFileSystem, AreEntries
<1>7. /\ ~r.err
      /\ r.fs.files = Written(s.files, path, entries[n])
      /\ r.fs.dirs = s.dirs \cup Prefixes(Front(path))
  <2> HIDE DEF path, r
  <2>1. /\ r.err <=> \/ \E p \in Prefixes(Front(path)) : p \in Files(s)
                     \/ path = zipFile
                     \/ path \in s.dirs \cup Prefixes(Front(path))
        /\ ~r.err => /\ r.fs.files = Written(s.files, path, entries[n])
                     /\ r.fs.dirs = s.dirs \cup Prefixes(Front(path))
    BY <1>6, Unpacked DEF path, r
  <2> QED  BY <1>3, <1>4, <1>5, <2>1
<1>8. \A f \in Files(r.fs) : f = path \/ f \in Files(s)
  <2> HIDE DEF r
  <2> QED  BY <1>7 DEF Files, Written
<1> HIDE DEF r
<1>9. Grown(r.fs, fs, dir, done \cup {n})
  <2>1. \A f \in Files(r.fs) : f \in Files(fs) \/ \E a \in done \cup {n} : f = dir \o a
    BY <1>8 DEF Grown
  <2>2. \A d \in r.fs.dirs : \/ d \in fs.dirs \/ d \in Prefixes(dir)
                             \/ \E a \in done \cup {n} : d \in Prefixes(Front(dir \o a))
    BY <1>7 DEF Grown
  <2> QED  BY <2>1, <2>2 DEF Grown
<1> QED  BY <1>7, <1>9 DEF r

\* Unzip puts every entry at its place and leaves the other files alone, if it
\* succeeds; and it does if there is nothing where it unpacks.
LEMMA Unzipped ==
  ASSUME NEW N, NEW C, NEW fs \in Systems(Seq(N), C), NEW zipFile \in Files(fs), NEW entries,
         fs.files[zipFile] = Archive(entries), AreEntries(entries, N, C), Empty \in C,
         NEW dir \in Seq(N)
  PROVE  LET u == Unzip(fs, zipFile, dir) IN
         /\ ~u.err =>
              /\ \A n \in DOMAIN entries : /\ dir \o n \in Files(u.fs)
                                           /\ u.fs.files[dir \o n] = entries[n]
              /\ \A f \in Files(fs) : Keeps(u, fs, f) \/ \E n \in DOMAIN entries : f = dir \o n
         /\ NothingAt(fs, dir) /\ AreApart(entries) => ~u.err
<1> DEFINE names == SetToSeq(DOMAIN entries)
           n == Len(names)
           r0 == MkdirAll(fs, dir)
           u == Unzip(fs, zipFile, dir)
<1>1. u = UnzipFold(r0, zipFile, entries, dir, names)
  <2>1. fs.files[zipFile].kind = "zip" /\ fs.files[zipFile].entries = entries
    BY DEF Archive
  <2> DEFINE e == fs.files[zipFile].entries
  <2>2. u = UnzipFold(r0, zipFile, e, dir, SetToSeq(DOMAIN e))
    BY <2>1, Zenon DEF Unzip, UnzipFold
  <2>3. e = entries
    BY <2>1
  <2> HIDE DEF e, u, r0
  <2> QED  BY <2>2, <2>3
<1>2. names \in Seq(DOMAIN entries) /\ Range(names) = DOMAIN entries
  BY ListIsExact DEF AreEntries
<1> HIDE DEF names
<1>3. n \in Nat /\ \A i \in 1..n : names[i] \in DOMAIN entries
  BY <1>2
<1>4. /\ names \in Seq(Seq(N)) /\ \A i \in 1..n : entries[names[i]] \in C
      /\ \A a \in DOMAIN entries : a \in Seq(N)
  BY <1>2, <1>3 DEF AreEntries
<1>5. /\ r0 \in Results(Seq(N), C) /\ IsFileSystem(fs)
      /\ r0.fs.files = fs.files
      /\ r0.err <=> \E p \in Prefixes(dir) : p \in Files(fs)
      /\ ~r0.err => r0.fs.dirs = fs.dirs \cup Prefixes(dir)
  <2>1. IsFileSystem(fs)
    BY SystemParts DEF IsFileSystem
  <2> QED  BY <2>1, MkdirStays, Made
<1> HIDE DEF r0
<1>6. PICK h : UnzipTurns(h, r0, zipFile, entries, dir, names, N, C)
  BY <1>4, <1>5, UnzipLoop
<1>7. /\ h \in [0..n -> Results(Seq(N), C)] /\ h[0] = r0 /\ h[n] = u
      /\ \A k \in 1..n : h[k] = (IF h[k - 1].err THEN h[k - 1]
                                 ELSE Unpack(h[k - 1].fs, zipFile, dir \o names[k], entries[names[k]]))
  BY <1>1, <1>6, Zenon DEF UnzipTurns, UnzipTurn
<1> DEFINE done(k) == {names[j] : j \in 1..k}
           Puts(k, r) ==
             /\ \A a \in done(k) : dir \o a \in Files(r.fs) /\ r.fs.files[dir \o a] = entries[a]
             /\ \A f \in Files(fs) : Keeps(r, fs, f) \/ \E a \in done(k) : f = dir \o a
           Adds(k, r) == ~r.err /\ Grown(r.fs, fs, dir, done(k))
           Part(k, r) == /\ ~r.err => Puts(k, r)
                         /\ NothingAt(fs, dir) /\ AreApart(entries) => Adds(k, r)
           S == {k \in 0..n : Part(k, h[k])}
<1>8. 0 \in S
  <2>1. 0 \in 0..n /\ done(0) = {}
    BY <1>3
  <2>2. \A f \in Files(fs) : Keeps(r0, fs, f)
    BY <1>5 DEF Keeps, Files
  <2>3. Files(r0.fs) = Files(fs)
    BY <1>5 DEF Files
  <2> HIDE DEF done
  <2>4. Puts(0, r0)
    BY <2>1, <2>2
  <2>5. NothingAt(fs, dir) => Adds(0, r0)
    BY <1>5, <2>1, <2>3 DEF NothingAt, Grown
  <2> HIDE DEF Puts, Adds
  <2> QED  BY <1>7, <2>1, <2>4, <2>5
<1>9. ASSUME NEW k \in 1..n, k - 1 \in S PROVE k \in S
  <2> DEFINE r == h[k - 1]
             s == r.fs
             a == names[k]
             v == Unpack(s, zipFile, dir \o a, entries[a])
  <2>1. k - 1 \in 0..n /\ k \in 0..n /\ Part(k - 1, r)
    <3> HIDE DEF Part
    <3> QED  BY <1>3, <1>9
  <2>2. r \in Results(Seq(N), C)
    BY <1>7, <2>1
  <2>3. s \in Systems(Seq(N), C)
    BY <2>2 DEF Results
  <2>4. h[k] = IF r.err THEN r ELSE v
    BY <1>7
  <2>5. a \in DOMAIN entries
    BY <1>3
  <2>6. done(k) = done(k - 1) \cup {a} /\ done(k - 1) \in SUBSET DOMAIN entries
    <3>1. \A j : j \in 1..k <=> j = k \/ j \in 1..(k - 1)
      OBVIOUS
    <3>2. \A j \in 1..(k - 1) : j \in 1..n
      BY <1>3
    <3>3. done(k) = done(k - 1) \cup {a}
      BY <3>1
    <3> QED  BY <1>3, <3>2, <3>3
  <2> DEFINE before == done(k - 1)
  <2>7. \A q : /\ Puts(k, q) <=>
                    /\ \A b \in before \cup {a} : dir \o b \in Files(q.fs)
                                                  /\ q.fs.files[dir \o b] = entries[b]
                    /\ \A f \in Files(fs) :
                         Keeps(q, fs, f) \/ \E b \in before \cup {a} : f = dir \o b
               /\ Adds(k, q) <=> ~q.err /\ Grown(q.fs, fs, dir, before \cup {a})
    <3>1. done(k) = before \cup {a}
      BY <2>6
    <3> HIDE DEF done, before, a
    <3> QED  BY <3>1, Zenon
  <2>8. CASE r.err
    <3>1. h[k] = r
      BY <2>4, <2>8
    <3>2. ~(NothingAt(fs, dir) /\ AreApart(entries))
      BY <2>1, <2>8
    <3> HIDE DEF Puts, Adds, r
    <3>3. Part(k, r)
      BY <2>8, <3>2
    <3> HIDE DEF Part
    <3> QED  BY <2>1, <3>1, <3>3
  <2>9. CASE ~r.err
    <3>1. h[k] = v
      BY <2>4, <2>9
    <3>2. /\ \A b \in before : dir \o b \in Files(s) /\ s.files[dir \o b] = entries[b]
          /\ \A f \in Files(fs) : Keeps(r, fs, f) \/ \E b \in before : f = dir \o b
      BY <2>1, <2>9
    <3>3. ASSUME ~v.err PROVE Puts(k, v)
      <4>1. v.fs.files = Written(s.files, dir \o a, entries[a])
        <5>1. IsFileSystem(s) /\ entries[a].kind # "folder"
          BY <2>3, <2>5, SystemParts DEF IsFileSystem, AreEntries
        <5> HIDE DEF s, a
        <5> QED  BY <3>3, <5>1, Unpacked
      <4>2. \A b \in before : dir \o b = dir \o a => b = a
        <5>1. before \subseteq DOMAIN entries
          BY <2>6
        <5> HIDE DEF before, a
        <5> QED  BY <1>4, <2>5, <5>1, SameRest
      <4> HIDE DEF before, a, v, Puts, Adds, r
      <4>3. \A f : /\ f \in Files(v.fs) <=> f = dir \o a \/ f \in Files(s)
                   /\ f \in Files(v.fs) =>
                        v.fs.files[f] = IF f = dir \o a THEN entries[a] ELSE s.files[f]
        BY <4>1 DEF Files, Written
      <4>4. \A b \in before \cup {a} : dir \o b \in Files(v.fs) /\ v.fs.files[dir \o b] = entries[b]
        BY <3>2, <4>2, <4>3
      <4>5. \A f \in Files(fs) : Keeps(v, fs, f) \/ \E b \in before \cup {a} : f = dir \o b
        BY <3>2, <4>3 DEF Keeps
      <4> QED  BY <2>7, <4>4, <4>5
    <3>4. ASSUME NothingAt(fs, dir), AreApart(entries) PROVE Adds(k, v)
      <4>1. Grown(s, fs, dir, before)
        BY <2>1, <3>4
      <4>2. before \in SUBSET DOMAIN entries
        BY <2>6
      <4> HIDE DEF before, a, s, Puts, Adds, done
      <4>3. LET q == Unpack(s, zipFile, dir \o a, entries[a]) IN
            ~q.err /\ Grown(q.fs, fs, dir, before \cup {a})
        BY <2>3, <2>5, <3>4, <4>1, <4>2, OneUnpacked
      <4> QED  BY <2>7, <4>3 DEF v
    <3> HIDE DEF Puts, Adds, v
    <3>5. Part(k, v)
      BY <3>3, <3>4
    <3> HIDE DEF Part
    <3> QED  BY <2>1, <3>1, <3>5
  <2> QED  BY <2>8, <2>9
<1> HIDE DEF S
<1>10. n \in S
  <2>1. n \in Nat
    BY <1>3
  <2> HIDE DEF n
  <2>2. 0..n \subseteq S
    BY <1>8, <1>9, <2>1, RangeInduction
  <2> QED  BY <2>1, <2>2
<1>11. Part(n, u)
  <2> HIDE DEF Part, u
  <2> QED  BY <1>7, <1>10 DEF S
<1>12. done(n) = DOMAIN entries
  <2>1. \A a \in DOMAIN entries : \E j \in 1..n : a = names[j]
    BY <1>2 DEF Range
  <2> QED  BY <1>3, <2>1
<1> HIDE DEF done, n, u
<1>13. /\ ~u.err =>
            /\ \A a \in DOMAIN entries : dir \o a \in Files(u.fs) /\ u.fs.files[dir \o a] = entries[a]
            /\ \A f \in Files(fs) : Keeps(u, fs, f) \/ \E a \in DOMAIN entries : f = dir \o a
       /\ NothingAt(fs, dir) /\ AreApart(entries) => ~u.err
  BY <1>11, <1>12
<1> QED  BY <1>13 DEF u

\* A path above another one is above it below dir, too.
LEMMA PrefixAppended ==
  ASSUME NEW N, NEW dir \in Seq(N), NEW a \in Seq(N), NEW b \in Prefixes(a)
  PROVE  dir \o b \in Prefixes(dir \o a)
<1> DEFINE w == dir \o a
           v == dir \o b
<1>1. PICK l \in 0..Len(a) : b = SubSeq(a, 1, l)
  BY DEF Prefixes
<1>2. b \in Seq(N) /\ Len(b) = l /\ \A i \in 1..l : b[i] = a[i]
  BY <1>1
<1>3. /\ w \in Seq(N) /\ Len(w) = Len(dir) + Len(a)
      /\ \A i \in 1..Len(w) : w[i] = IF i <= Len(dir) THEN dir[i] ELSE a[i - Len(dir)]
  BY ConcatProperties
<1>4. /\ v \in Seq(N) /\ Len(v) = Len(dir) + l
      /\ \A i \in 1..Len(v) : v[i] = IF i <= Len(dir) THEN dir[i] ELSE b[i - Len(dir)]
  <2>1. b \in Seq(N)
    BY <1>2
  <2>2. /\ v \in Seq(N) /\ Len(v) = Len(dir) + Len(b)
        /\ \A i \in 1..Len(v) : v[i] = IF i <= Len(dir) THEN dir[i] ELSE b[i - Len(dir)]
    BY <2>1, ConcatProperties
  <2> HIDE DEF v
  <2> QED  BY <1>2, <2>2
<1> DEFINE s == SubSeq(w, 1, Len(dir) + l)
<1> HIDE DEF w, v
<1>5. /\ s \in Seq(N) /\ Len(s) = Len(dir) + l
      /\ \A i \in 1..(Len(dir) + l) : s[i] = w[i]
  BY <1>3
<1>6. \A i \in 1..(Len(dir) + l) : s[i] = v[i]
  <2> TAKE i \in 1..(Len(dir) + l)
  <2> HIDE DEF s
  <2>1. i \in 1..Len(w) /\ i \in 1..Len(v)
    BY <1>3, <1>4
  <2>2. ~(i <= Len(dir)) => i - Len(dir) \in 1..l
    OBVIOUS
  <2> QED  BY <1>2, <1>3, <1>4, <1>5, <2>1, <2>2
<1> HIDE DEF s
<1>7. s = v
  BY <1>4, <1>5, <1>6
<1>8. Len(dir) + l \in 0..Len(w)
  BY <1>3
<1> QED  BY <1>7, <1>8 DEF Prefixes, s, v, w

\* What Zip packs: the files of the folder, with the rests of their paths.
LEMMA Packed ==
  ASSUME NEW N, NEW C, NEW fs \in Systems(Seq(N), C), NEW dir \in Seq(N),
         IsFiniteSet(Files(fs)), \A c \in C : c.kind # "folder"
  PROVE  LET entries == EntriesToZip(fs, dir) IN
         /\ AreEntries(entries, N, C)
         /\ \A f \in Files(fs) : Under(dir, f) => /\ Rest(dir, f) \in DOMAIN entries
                                                  /\ entries[Rest(dir, f)] = fs.files[f]
         /\ \A n \in DOMAIN entries : dir \o n \in Files(fs) /\ Under(dir, dir \o n)
<1> DEFINE walked == {f \in Files(fs) : Under(dir, f)}
           names == {Rest(dir, f) : f \in walked}
           entries == EntriesToZip(fs, dir)
<1>1. entries = [n \in names |-> fs.files[dir \o n]]
  BY Zenon DEF EntriesToZip
<1>2. \A f \in walked : f \in Seq(N) /\ Rest(dir, f) \in Seq(N) /\ dir \o Rest(dir, f) = f
  <2> TAKE f \in walked
  <2>1. f \in Seq(N) /\ Under(dir, f)
    BY SystemParts
  <2> HIDE DEF walked
  <2> QED  BY <2>1, PathIsDirAndRest
<1>3. IsFiniteSet(names)
  <2> DEFINE g == [f \in walked |-> Rest(dir, f)]
  <2>1. IsFiniteSet(walked)
    BY FS_Subset
  <2>2. g \in Surjection(walked, names)
    BY DEF Surjection
  <2> HIDE DEF g, walked, names
  <2> QED  BY <2>1, <2>2, FS_Surjection
<1>4. \A n \in names : \E f \in walked : n = Rest(dir, f)
  OBVIOUS
<1>5. \A f \in walked : Rest(dir, f) \in names
  OBVIOUS
<1>6. \A f : f \in walked <=> f \in Files(fs) /\ Under(dir, f)
  OBVIOUS
<1>7. DOMAIN entries = names /\ \A n \in names : entries[n] = fs.files[dir \o n]
  <2> HIDE DEF names, entries
  <2> QED  BY <1>1
<1>8. \A f \in Files(fs) : fs.files[f] \in C
  <2>1. fs.files \in [Files(fs) -> C]
    BY SystemParts
  <2> QED  BY <2>1
<1> HIDE DEF walked, names, entries
<1>9. \A n \in names : n \in Seq(N) /\ dir \o n \in walked
  BY <1>2, <1>4
<1>10. AreEntries(entries, N, C)
  <2>1. \A n \in names : entries[n] \in C /\ entries[n].kind # "folder"
    BY <1>6, <1>7, <1>8, <1>9
  <2> QED  BY <1>3, <1>7, <1>9, <2>1 DEF AreEntries
<1>11. \A f \in Files(fs) : Under(dir, f) => /\ Rest(dir, f) \in DOMAIN entries
                                             /\ entries[Rest(dir, f)] = fs.files[f]
  BY <1>2, <1>5, <1>6, <1>7
<1>12. \A n \in DOMAIN entries : dir \o n \in Files(fs) /\ Under(dir, dir \o n)
  BY <1>6, <1>7, <1>9
<1> QED  BY <1>10, <1>11, <1>12 DEF entries

\* Zip makes the archive first.
MadeArchive(fs, to) ==
  Then(MkdirAll(fs, Front(to)), LAMBDA made : Create(made, to, Empty))

\* It has no place below a file or at a folder.
LEMMA ArchiveMade ==
  ASSUME NEW N, NEW C, NEW fs \in Systems(Seq(N), C), NEW to \in Seq(N), to # <<>>
  PROVE  LET c == MadeArchive(fs, to) IN
         /\ IsFileSystem(c.fs)
         /\ c.err <=> to \in fs.dirs \/ \E p \in Prefixes(Front(to)) : p \in Files(fs)
         /\ c.err => c.fs.files = fs.files
         /\ ~c.err => /\ c.fs.files = Written(fs.files, to, Empty)
                      /\ c.fs.dirs = fs.dirs \cup Prefixes(Front(to))
<1> DEFINE m == MkdirAll(fs, Front(to))
           k == Create(m.fs, to, Empty)
           c == MadeArchive(fs, to)
<1>1. IsFileSystem(fs)
  BY SystemParts DEF IsFileSystem
<1>2. /\ IsFileSystem(m.fs) /\ m.fs.files = fs.files
      /\ m.err <=> \E p \in Prefixes(Front(to)) : p \in Files(fs)
      /\ ~m.err => m.fs.dirs = fs.dirs \cup Prefixes(Front(to))
  BY <1>1, Made
<1>3. c = IF m.err THEN m ELSE k
  BY Zenon DEF MadeArchive, Then
<1> HIDE DEF m
<1>4. /\ IsFileSystem(k.fs) /\ k.fs.dirs = m.fs.dirs
      /\ k.err <=> to \in m.fs.dirs
      /\ k.err => k.fs = m.fs
      /\ ~k.err => k.fs.files = Written(m.fs.files, to, Empty)
  BY <1>2, Created
<1>5. to \notin Prefixes(Front(to))
  BY FrontShorter
<1> HIDE DEF k, c
<1>6. CASE m.err
  <2>1. c = m
    BY <1>3, <1>6
  <2> QED  BY <1>2, <1>6, <2>1 DEF c
<1>7. CASE ~m.err
  <2>1. c = k
    BY <1>3, <1>7
  <2> QED  BY <1>2, <1>4, <1>5, <1>7, <2>1 DEF c
<1> QED  BY <1>6, <1>7

\* What Zip leaves when it succeeds, with m what it walks.
ZippedFrom(m, z, fs, dir, to) ==
  /\ to \notin fs.dirs /\ \A p \in Prefixes(Front(to)) : p \notin Files(fs)
  /\ IsFileSystem(m)
  /\ m.files = Written(fs.files, to, Empty)
  /\ m.dirs = fs.dirs \cup Prefixes(Front(to))
  /\ z.fs = Write(m, to, Archive(EntriesToZip(m, dir)))

\* Zip touches the archive only, and zips a folder unless the archive has no place
\* or copies itself.
LEMMA Zipped ==
  ASSUME NEW N, NEW C, NEW fs \in Systems(Seq(N), C), NEW to \in Seq(N), to # <<>>,
         NEW dir, NEW flushed
  PROVE  LET z == ZipDir(fs, dir, to, flushed) IN
         /\ \A f \in Files(fs) \ {to} : Keeps(z, fs, f)
         /\ ~z.err => \E m : ZippedFrom(m, z, fs, dir, to)
         /\ z.err /\ dir \in fs.dirs => \/ to \in fs.dirs
                                        \/ \E p \in Prefixes(Front(to)) : p \in Files(fs)
                                        \/ flushed /\ Under(dir, to)
<1> DEFINE c == MadeArchive(fs, to)
           z == ZipDir(fs, dir, to, flushed)
           None == Write(c.fs, to, Archive(<<>>))
           Half == Write(c.fs, to, Unfinished)
           Full == Write(c.fs, to, Archive(EntriesToZip(c.fs, dir)))
<1>1. /\ IsFileSystem(c.fs)
      /\ c.err <=> to \in fs.dirs \/ \E p \in Prefixes(Front(to)) : p \in Files(fs)
      /\ c.err => c.fs.files = fs.files
      /\ ~c.err => /\ c.fs.files = Written(fs.files, to, Empty)
                   /\ c.fs.dirs = fs.dirs \cup Prefixes(Front(to))
  BY ArchiveMade
<1>2. z = IF c.err THEN c
          ELSE IF dir \notin c.fs.dirs \cup Files(c.fs) THEN Err(None)
          ELSE IF CopiesItself(c.fs, dir, to, flushed) THEN Err(Half)
          ELSE Ok(Full)
  BY Zenon DEF ZipDir, Then, MadeArchive
<1> HIDE DEF c
<1>3. \A content : \A f \in Files(fs) \ {to} :
        /\ ~c.err => /\ f \in Files(Write(c.fs, to, content))
                     /\ Write(c.fs, to, content).files[f] = fs.files[f]
  <2> TAKE content
  <2> TAKE f \in Files(fs) \ {to}
  <2> SUFFICES ASSUME ~c.err
               PROVE  /\ f \in Files(Write(c.fs, to, content))
                      /\ Write(c.fs, to, content).files[f] = fs.files[f]
    OBVIOUS
  <2>1. f \in Files(c.fs) /\ c.fs.files[f] = fs.files[f]
    BY <1>1 DEF Files, Written
  <2>2. Write(c.fs, to, content).files =
          [g \in Files(c.fs) \cup {to} |-> IF g = to THEN content ELSE c.fs.files[g]]
    BY <1>1 DEF Write, IsFileSystem
  <2> QED  BY <2>1, <2>2 DEF Files
<1>4. /\ \A s : Err(s).err /\ Err(s).fs = s
      /\ \A s : ~Ok(s).err /\ Ok(s).fs = s
  BY DEF Err, Ok
<1>5. CopiesItself(c.fs, dir, to, flushed) => flushed /\ Under(dir, to)
  BY DEF CopiesItself
<1> HIDE DEF None, Half, Full, z
<1>6. CASE c.err
  <2>1. z = c
    BY <1>2, <1>6
  <2>2. \A f \in Files(fs) \ {to} : Keeps(z, fs, f)
    BY <1>1, <1>6, <2>1 DEF Keeps, Files
  <2> QED  BY <1>1, <1>6, <2>1, <2>2 DEF z
<1>7. CASE ~c.err /\ dir \notin c.fs.dirs \cup Files(c.fs)
  <2>1. z.err /\ z.fs = None
    BY <1>2, <1>4, <1>7
  <2>2. \A f \in Files(fs) \ {to} : Keeps(z, fs, f)
    BY <1>3, <1>7, <2>1 DEF Keeps, None
  <2>3. dir \notin fs.dirs
    BY <1>1, <1>7
  <2> QED  BY <2>1, <2>2, <2>3 DEF z
<1>8. CASE /\ ~c.err /\ dir \in c.fs.dirs \cup Files(c.fs)
           /\ CopiesItself(c.fs, dir, to, flushed)
  <2>1. z.err /\ z.fs = Half
    BY <1>2, <1>4, <1>8
  <2>2. \A f \in Files(fs) \ {to} : Keeps(z, fs, f)
    BY <1>3, <1>8, <2>1 DEF Keeps, Half
  <2> QED  BY <1>5, <1>8, <2>1, <2>2 DEF z
<1>9. CASE /\ ~c.err /\ dir \in c.fs.dirs \cup Files(c.fs)
           /\ ~CopiesItself(c.fs, dir, to, flushed)
  <2>1. ~z.err /\ z.fs = Full
    BY <1>2, <1>4, <1>9
  <2>2. \A f \in Files(fs) \ {to} : Keeps(z, fs, f)
    BY <1>3, <1>9, <2>1 DEF Keeps, Full
  <2>3. ZippedFrom(c.fs, z, fs, dir, to)
    BY <1>1, <1>9, <2>1 DEF ZippedFrom, Full
  <2> QED  BY <2>1, <2>2, <2>3 DEF z
<1> QED  BY <1>6, <1>7, <1>8, <1>9

\* No file of a tree is above another one or at a folder, with the archive neither.
LEMMA FilesApart ==
  ASSUME NEW N, NEW C, NEW fs \in Systems(Seq(N), C), IsTree(fs), NEW to \in Seq(N), to # <<>>,
         to \notin fs.dirs, \A p \in Prefixes(Front(to)) : p \notin Files(fs)
  PROVE  /\ \A f, g \in Files(fs) \cup {to} : f \in Prefixes(g) => f = g
         /\ \A f \in Files(fs) \cup {to} : f \notin fs.dirs \cup Prefixes(Front(to))
<1>1. to \notin Prefixes(Front(to))
  BY FrontShorter
<1>2. \A f \in Files(fs) : f \notin fs.dirs
  BY DEF IsTree
<1>3. \A f \in Prefixes(to) : f # to => f \in Prefixes(Front(to))
  BY PrefixOfFront
<1>4. \A g \in Files(fs) : \A f \in Prefixes(g) : f # g => f \in fs.dirs
  BY DEF IsTree
<1> QED  BY <1>1, <1>2, <1>3, <1>4

\* Zip and Unzip keep every file of every finite tree, wherever the folder, the archive
\* and the target are.
THEOREM ZipKept ==
  ASSUME NEW N, NEW C, NEW fs \in Systems(Seq(N), C), IsTree(fs), IsFiniteSet(Files(fs)),
         \A c \in C : c.kind # "folder",
         NEW dir \in Seq(N), NEW to \in Seq(N), to # <<>>, NEW target \in Seq(N), NEW flushed
  PROVE  ZipKeepsFiles(fs, dir, to, target, flushed)
<1> DEFINE z == ZipDir(fs, dir, to, flushed)
           u == Unzip(z.fs, to, target)
           walked == {f \in Files(z.fs) : Under(dir, f)}
           Moved(f) == target \o Rest(dir, f)
           C1 == C \cup {Empty}
<1>1. /\ \A f \in Files(fs) \ {to} : Keeps(z, fs, f)
      /\ ~z.err => \E m : ZippedFrom(m, z, fs, dir, to)
      /\ z.err /\ dir \in fs.dirs => \/ to \in fs.dirs
                                     \/ \E p \in Prefixes(Front(to)) : p \in Files(fs)
                                     \/ flushed /\ Under(dir, to)
  BY Zipped
<1> HIDE DEF z
<1>2. dir \in fs.dirs /\ to \notin fs.dirs /\ Front(to) \in fs.dirs =>
        ~z.err \/ (flushed /\ Under(dir, to))
  <2>1. Front(to) \in fs.dirs => \A p \in Prefixes(Front(to)) : p \in fs.dirs
    BY DEF IsTree
  <2>2. \A p \in fs.dirs : p \notin Files(fs)
    BY DEF IsTree
  <2> QED  BY <1>1, <2>1, <2>2
<1>3. ASSUME ~z.err
      PROVE  /\ ~u.err =>
                  /\ \A f \in walked \ {to} :
                       Moved(f) \in Files(u.fs) /\ u.fs.files[Moved(f)] = fs.files[f]
                  /\ \A f \in Files(z.fs) \ {Moved(g) : g \in walked} : Keeps(u, z.fs, f)
             /\ dir \in z.fs.dirs /\ NothingAt(z.fs, target) => ~u.err
  <2>1. PICK m : ZippedFrom(m, z, fs, dir, to)
    BY <1>1, <1>3
  <2> DEFINE entries == EntriesToZip(m, dir)
             C2 == C1 \cup {Archive(entries)}
  <2>2. /\ m \in Systems(Seq(N), C1)
        /\ Files(m) = Files(fs) \cup {to}
        /\ \A f \in Files(fs) \ {to} : m.files[f] = fs.files[f]
    <3>1. m = [dirs |-> m.dirs, files |-> m.files] /\ m.files = Written(fs.files, to, Empty)
      BY <2>1 DEF ZippedFrom, IsFileSystem
    <3>2. m.dirs \in SUBSET Seq(N)
      <4>1. Front(to) \in Seq(N)
        BY FrontStays
      <4>2. Prefixes(Front(to)) \subseteq Seq(N)
        BY <4>1, PrefixLengths
      <4>3. fs.dirs \subseteq Seq(N)
        BY SystemParts
      <4> QED  BY <2>1, <4>2, <4>3 DEF ZippedFrom
    <3>3. fs.files \in [Files(fs) -> C] /\ Files(fs) \in SUBSET Seq(N)
      BY SystemParts
    <3>4. /\ m.files \in [Files(fs) \cup {to} -> C1]
          /\ \A f \in Files(fs) \ {to} : m.files[f] = fs.files[f]
      BY <3>1, <3>3 DEF Written, Files
    <3>5. Files(fs) \cup {to} \in SUBSET Seq(N)
      BY <3>3
    <3>6. m \in Systems(Seq(N), C1)
      <4> DEFINE F == Files(fs) \cup {to}
      <4> HIDE DEF F, C1
      <4>1. [dirs |-> m.dirs, files |-> m.files] \in Systems(Seq(N), C1)
        BY <3>2, <3>4, <3>5, SystemParts DEF F
      <4> QED  BY <3>1, <4>1
    <3>7. Files(m) = Files(fs) \cup {to}
      BY <3>4 DEF Files
    <3> QED  BY <3>4, <3>6, <3>7
  <2>3. /\ AreEntries(entries, N, C1)
        /\ \A f \in Files(m) : Under(dir, f) => /\ Rest(dir, f) \in DOMAIN entries
                                                /\ entries[Rest(dir, f)] = m.files[f]
        /\ \A n \in DOMAIN entries : dir \o n \in Files(m) /\ Under(dir, dir \o n)
    <3>1. IsFiniteSet(Files(m))
      BY <2>2, FS_AddElement
    <3>2. \A c \in C1 : c.kind # "folder"
      BY DEF Empty, Data
    <3> HIDE DEF C1
    <3> QED  BY <2>2, <3>1, <3>2, Packed
  <2> HIDE DEF entries
  <2>4. z.fs = Write(m, to, Archive(entries))
    BY <2>1 DEF ZippedFrom, entries
  <2>5. /\ z.fs \in Systems(Seq(N), C2)
        /\ Files(z.fs) = Files(m) /\ z.fs.dirs = m.dirs
        /\ z.fs.files[to] = Archive(entries)
    <3>1. m \in Systems(Seq(N), C2)
      <4>1. m.dirs \in SUBSET Seq(N) /\ Files(m) \in SUBSET Seq(N) /\ m.files \in [Files(m) -> C1]
            /\ m = [dirs |-> m.dirs, files |-> m.files]
        <5> HIDE DEF C1
        <5> QED  BY <2>2, SystemParts
      <4>2. m.files \in [Files(m) -> C2]
        BY <4>1
      <4>3. [dirs |-> m.dirs, files |-> m.files] \in Systems(Seq(N), C2)
        <5> HIDE DEF C2
        <5> QED  BY <4>1, <4>2, SystemParts
      <4> QED  BY <4>1, <4>3
    <3>2. z.fs \in Systems(Seq(N), C2)
      <4>1. Archive(entries) \in C2
        OBVIOUS
      <4> HIDE DEF C2
      <4> QED  BY <2>4, <3>1, <4>1, WriteStays
    <3>3. IsFileSystem(m) /\ to \in Files(m)
      BY <2>1, <2>2 DEF ZippedFrom
    <3>4. /\ z.fs.dirs = m.dirs
          /\ z.fs.files = [f \in Files(m) \cup {to} |-> IF f = to THEN Archive(entries)
                                                        ELSE m.files[f]]
      BY <2>4, <3>3 DEF Write, IsFileSystem
    <3> QED  BY <3>2, <3>3, <3>4 DEF Files
  <2>6. AreEntries(entries, N, C2) /\ Empty \in C2
    BY <2>3 DEF AreEntries
  <2> HIDE DEF C1, C2, u
  <2>7. /\ ~u.err =>
             /\ \A n \in DOMAIN entries : /\ target \o n \in Files(u.fs)
                                          /\ u.fs.files[target \o n] = entries[n]
             /\ \A f \in Files(z.fs) : Keeps(u, z.fs, f) \/ \E n \in DOMAIN entries : f = target \o n
        /\ NothingAt(z.fs, target) /\ AreApart(entries) => ~u.err
    <3>1. to \in Files(z.fs)
      BY <2>2, <2>5
    <3> QED  BY <2>5, <2>6, <3>1, Unzipped DEF u
  <2>8. ASSUME ~u.err
        PROVE  /\ \A f \in walked \ {to} :
                    Moved(f) \in Files(u.fs) /\ u.fs.files[Moved(f)] = fs.files[f]
               /\ \A f \in Files(z.fs) \ {Moved(g) : g \in walked} : Keeps(u, z.fs, f)
    <3>1. ASSUME NEW f \in walked \ {to}
          PROVE  Moved(f) \in Files(u.fs) /\ u.fs.files[Moved(f)] = fs.files[f]
      <4>1. f \in Files(m) /\ Under(dir, f) /\ f \in Files(fs) \ {to}
        BY <2>2, <2>5
      <4>2. Rest(dir, f) \in DOMAIN entries /\ entries[Rest(dir, f)] = fs.files[f]
        BY <2>2, <2>3, <4>1
      <4> QED  BY <2>7, <2>8, <4>2
    <3>2. ASSUME NEW f \in Files(z.fs) \ {Moved(g) : g \in walked} PROVE Keeps(u, z.fs, f)
      <4>1. ASSUME NEW n \in DOMAIN entries, f = target \o n PROVE FALSE
        <5>1. dir \o n \in walked
          BY <2>3, <2>5
        <5>2. Rest(dir, dir \o n) = n
          <6>1. n \in Seq(N)
            BY <2>3 DEF AreEntries
          <6> QED  BY <6>1, AppendedBelow
        <5>3. Moved(dir \o n) = f
          BY <4>1, <5>2
        <5> QED  BY <5>1, <5>3
      <4> QED  BY <2>7, <2>8, <4>1
    <3> QED  BY <3>1, <3>2
  <2>9. ASSUME dir \in z.fs.dirs, NothingAt(z.fs, target) PROVE ~u.err
    <3>1. /\ \A f, g \in Files(m) : f \in Prefixes(g) => f = g
          /\ \A f \in Files(m) : f \notin m.dirs
      <4>1. to \notin fs.dirs /\ \A p \in Prefixes(Front(to)) : p \notin Files(fs)
        BY <2>1 DEF ZippedFrom
      <4>2. /\ \A f, g \in Files(fs) \cup {to} : f \in Prefixes(g) => f = g
            /\ \A f \in Files(fs) \cup {to} : f \notin fs.dirs \cup Prefixes(Front(to))
        BY <4>1, FilesApart
      <4>3. m.dirs = fs.dirs \cup Prefixes(Front(to))
        BY <2>1 DEF ZippedFrom
      <4> QED  BY <2>2, <4>2, <4>3
    <3>2. \A n \in DOMAIN entries : n \in Seq(N) /\ dir \o n \in Files(m)
      BY <2>3 DEF AreEntries
    <3>3. <<>> \notin DOMAIN entries
      <4>1. dir \o <<>> = dir
        OBVIOUS
      <4> QED  BY <2>5, <2>9, <3>1, <3>2, <4>1
    <3>4. ASSUME NEW a \in DOMAIN entries, NEW b \in DOMAIN entries, a \in Prefixes(b) PROVE a = b
      <4>1. a \in Seq(N) /\ b \in Seq(N) /\ dir \o a \in Files(m) /\ dir \o b \in Files(m)
        BY <3>2
      <4>2. dir \o a \in Prefixes(dir \o b)
        BY <3>4, <4>1, PrefixAppended
      <4>3. dir \o a = dir \o b
        BY <3>1, <4>1, <4>2
      <4> QED  BY <4>1, <4>3, SameRest
    <3>5. AreApart(entries)
      BY <3>3, <3>4 DEF AreApart
    <3> QED  BY <2>7, <2>9, <3>5
  <2> QED  BY <2>8, <2>9 DEF u
<1> HIDE DEF u, walked, Moved
<1>4. (/\ \A p \in z.fs.dirs \cup Files(z.fs) : ~Under(target, p)
       /\ \A p \in Prefixes(target) : p \notin Files(z.fs)) => NothingAt(z.fs, target)
  BY DEF NothingAt
<1> QED  BY <1>1, <1>2, <1>3, <1>4 DEF ZipKeepsFiles, z, u, walked, Moved

\* MCHelpers has finitely many paths.
LEMMA PathsAreFinite == IsFiniteSet(Paths)
<1>1. Paths = ((({<<1>>} \cup {<<2>>}) \cup {<<1, 1>>}) \cup {<<1, 2>>})
                 \cup ({<<2, 1>>} \cup {<<2, 2>>})
  <2>1. {<<n>> : n \in Names} = {<<1>>} \cup {<<2>>}
    BY DEF Names
  <2>2. Names \X Names = (({<<1, 1>>} \cup {<<1, 2>>}) \cup {<<2, 1>>}) \cup {<<2, 2>>}
    BY DEF Names
  <2> QED  BY <2>1, <2>2 DEF Paths
<1>2. \A x : IsFiniteSet({x})
  BY FS_Singleton
<1> QED  BY <1>1, <1>2, FS_Union

\* The prefixes of its paths.
LEMMA PathPrefixes ==
  ASSUME NEW V, NEW p \in Seq(V), NEW q \in Prefixes(p)
  PROVE  /\ Len(p) = 0 => q = p
         /\ Len(p) = 1 => q = <<>> \/ q = p
         /\ Len(p) = 2 => q = <<>> \/ q = p \/ q = <<p[1]>>
<1>1. PICK l \in 0..Len(p) : q = SubSeq(p, 1, l)
  BY DEF Prefixes
<1>2. q \in Seq(V) /\ Len(q) = l /\ \A i \in 1..l : q[i] = p[i]
  BY <1>1
<1>3. l = 0 => q = <<>>
  BY <1>2
<1>4. l = Len(p) => q = p
  BY <1>2
<1>5. l = 1 => q = <<p[1]>>
  <2> SUFFICES ASSUME l = 1 PROVE q = <<p[1]>>
    OBVIOUS
  <2>1. Len(q) = 1 /\ q[1] = p[1]
    BY <1>2
  <2> QED  BY <1>2, <2>1
<1>6. /\ Len(p) = 0 => l = Len(p)
      /\ Len(p) = 1 => l = 0 \/ l = Len(p)
      /\ Len(p) = 2 => l = 0 \/ l = Len(p) \/ l = 1
  BY <1>1
<1> QED  BY <1>3, <1>4, <1>5, <1>6

\* Its trees are trees.
LEMMA TreesAreTrees ==
  \A fs \in Trees : /\ IsTree(fs) /\ IsFiniteSet(Files(fs))
                    /\ <<>> \in fs.dirs /\ fs.dirs \subseteq {<<>>} \cup Paths
<1> TAKE fs \in Trees
<1> DEFINE D(kind) == {<<>>} \cup {p \in Paths : kind[p] = "dir"}
           S(kind) == {p \in Paths : kind[p] = "file"}
<1>1. PICK kind \in [Paths -> {"none", "file", "dir"}] :
        /\ \A p \in Names \X Names : kind[p] # "none" => kind[Front(p)] = "dir"
        /\ fs = [dirs |-> D(kind), files |-> [f \in S(kind) |-> Data(f)]]
  BY Zenon DEF Trees
<1>2. fs.dirs = D(kind) /\ Files(fs) = S(kind)
  BY <1>1 DEF Files
<1>3. IsFiniteSet(Files(fs))
  BY <1>2, PathsAreFinite, FS_Subset
<1>4. D(kind) \cap S(kind) = {}
  <2>1. <<>> \notin Paths
    BY PathsAreSequences
  <2> QED  BY <2>1
<1>5. ASSUME NEW p \in D(kind) \cup S(kind), NEW q, q \in Prefixes(p), q # p
      PROVE  q \in D(kind)
  <2>1. CASE p = <<>>
    <3>1. p \in Seq(Names) /\ Len(p) = 0
      BY <2>1
    <3>2. q = p
      BY <1>5, <3>1, PathPrefixes
    <3> QED  BY <1>5, <3>2
  <2>2. CASE \E m \in Names : p = <<m>>
    <3>1. PICK m \in Names : p = <<m>>
      BY <2>2
    <3>2. p \in Seq(Names) /\ Len(p) = 1
      BY <3>1
    <3>3. q = <<>> \/ q = p
      BY <1>5, <3>2, PathPrefixes
    <3> QED  BY <1>5, <3>3
  <2>3. CASE p \in Names \X Names
    <3>1. PICK m, n \in Names : p = <<m, n>>
      BY <2>3
    <3>2. kind[p] # "none" /\ Front(p) = <<m>>
      <4>1. p # <<>>
        BY <3>1
      <4>2. Front(p) = <<m>>
        <5>1. SubSeq(p, 1, 1) \in Seq(Names) /\ Len(SubSeq(p, 1, 1)) = 1 /\ SubSeq(p, 1, 1)[1] = m
          BY <3>1
        <5>2. Len(p) - 1 = 1
          BY <3>1
        <5>3. SubSeq(p, 1, 1) = <<m>>
          <6> DEFINE w == SubSeq(p, 1, 1)
          <6> HIDE DEF w
          <6>1. w \in Seq(Names) /\ Len(w) = 1 /\ w[1] = m
            BY <5>1 DEF w
          <6>2. w = <<m>>
            BY <6>1
          <6> QED  BY <6>2 DEF w
        <5> QED  BY <5>2, <5>3 DEF Front
      <4>3. kind[p] # "none"
        BY <4>1
      <4> QED  BY <4>2, <4>3
    <3>3. kind[<<m>>] = "dir" /\ <<m>> \in Paths
      BY <1>1, <2>3, <3>2 DEF Paths
    <3>4. q = <<>> \/ q = <<m>>
      <4>1. p \in Seq(Names) /\ Len(p) = 2 /\ p[1] = m
        BY <3>1
      <4> QED  BY <1>5, <4>1, PathPrefixes
    <3> QED  BY <3>3, <3>4
  <2> QED  BY <2>1, <2>2, <2>3 DEF Paths
<1>6. <<>> \in D(kind) /\ D(kind) \subseteq {<<>>} \cup Paths
  OBVIOUS
<1> HIDE DEF D, S
<1> QED  BY <1>2, <1>3, <1>4, <1>5, <1>6 DEF IsTree

\* Unzip restores the files that Zip packed, and neither touches another file.
THEOREM ZipRestored == HelpersSpec => []ZipRoundTrip
<1>1. InputsInv => ZipRoundTrip
  <2> SUFFICES ASSUME InputsInv, call[1] = "zip"
               PROVE  ZipKeepsFiles(call[2][1], call[2][2], call[2][3], call[2][4], call[2][5])
    BY DEF ZipRoundTrip, Of
  <2>1. PICK fs \in Trees, dir \in {<<>>} \cup Paths, to \in Paths, target \in Targets,
             flushed \in BOOLEAN : call[2] = <<fs, dir, to, target, flushed>>
    BY DEF InputsInv
  <2>2. fs \in Systems(Seq(Names), Contents) /\ IsTree(fs) /\ IsFiniteSet(Files(fs))
    BY TreesAreSystems, TreesAreTrees
  <2>3. \A c \in Contents : c.kind # "folder"
    BY DEF Contents, Data
  <2>4. ZipKeepsFiles(fs, dir, to, target, flushed)
    <3> DEFINE Used == Names \cup {3}
    <3>1. /\ dir \in Seq(Used) /\ to \in Seq(Used) /\ to # <<>> /\ target \in Seq(Used)
          /\ Seq(Names) \subseteq Seq(Used)
      <4>1. \A p \in Seq(Names) : p \in Seq(Used)
        OBVIOUS
      <4>2. target \in Seq(Used)
        <5>1. 2 \in Used /\ 3 \in Used
          BY DEF Names
        <5>2. \A x \in Used : <<x>> \in Seq(Used)
          OBVIOUS
        <5> HIDE DEF Used
        <5> QED  BY <5>1, <5>2 DEF Targets
      <4>3. dir \in Seq(Names) /\ to \in Seq(Names) /\ to # <<>>
        <5>1. <<>> \in Seq(Names)
          OBVIOUS
        <5> QED  BY <5>1, PathsAreSequences
      <4> HIDE DEF Used
      <4> QED  BY <4>1, <4>2, <4>3
    <3>2. fs \in Systems(Seq(Used), Contents)
      <4> HIDE DEF Used
      <4> QED  BY <2>2, <3>1 DEF Systems
    <3> HIDE DEF Used
    <3> QED  BY <2>2, <2>3, <3>1, <3>2, ZipKept
  <2> QED  BY <2>1, <2>4
<1> QED  BY <1>1, Inputs, PTL

-----------------------------------------------------------------------------
(* SearchFiles *)

\* The paths that an entry of a folder can have.
NonRoots(N) == Seq(N) \ {<<>>}

\* How SearchFiles answers with a file: with its path if X, or with its name.
Answer(p, X) == IF X THEN p ELSE <<Last(p)>>

\* A turn of the loop over the entries of a folder, when inner[q] is what a folder q holds.
SearchTurn(results, inner, fs, p, M, R, X) ==
  IF p \in fs.dirs
    THEN IF R THEN results \o inner[p] ELSE results
    ELSE IF Last(p) \in M THEN Append(results, Answer(p, X)) ELSE results

\* The loop of SearchFiles over the entries of a folder.
SearchFold(inner, fs, ps, M, R, X) ==
  FoldLeft(LAMBDA results, p :
             IF p \in fs.dirs
               THEN IF R THEN results \o inner[p] ELSE results
               ELSE IF Last(p) \in M
                 THEN Append(results, IF X THEN p ELSE <<Last(p)>>)
                 ELSE results,
           <<>>, ps)

SearchTurns(h, inner, fs, ps, M, R, X, N) ==
  /\ h \in [0..Len(ps) -> Seq(Seq(N))] /\ h[0] = <<>>
  /\ \A i \in 1..Len(ps) : h[i] = SearchTurn(h[i - 1], inner, fs, ps[i], M, R, X)
  /\ h[Len(ps)] = SearchFold(inner, fs, ps, M, R, X)

\* The fold of SearchFiles is a loop.
LEMMA SearchLoop ==
  ASSUME NEW N, NEW fs, NEW inner, NEW M, NEW R, NEW X, NEW ps \in Seq(NonRoots(N)),
         \A i \in 1..Len(ps) : ps[i] \in fs.dirs => inner[ps[i]] \in Seq(Seq(N))
  PROVE  \E h : SearchTurns(h, inner, fs, ps, M, R, X, N)
<1> DEFINE n == Len(ps)
           A == Seq(Seq(N))
           F == [i \in 1..n |-> [a \in A |-> SearchTurn(a, inner, fs, ps[i], M, R, X)]]
           Body(iter) == [s \in SUBSET (DOMAIN ps) |->
                            IF s = {} THEN <<>>
                            ELSE SearchTurn(iter[s \ {Max(s)}], inner, fs, ps[Max(s)], M, R, X)]
           it == CHOOSE iter : iter = Body(iter)
<1>1. n \in Nat /\ DOMAIN ps = 1..n
  OBVIOUS
<1>2. <<>> \in A /\ F \in [1..n -> [A -> A]]
  <2>1. <<>> \in A
    OBVIOUS
  <2>2. \A i \in 1..n, a \in A : SearchTurn(a, inner, fs, ps[i], M, R, X) \in A
    <3> TAKE i \in 1..n, a \in A
    <3>1. ps[i] \in Seq(N) \ {<<>>}
      BY DEF NonRoots
    <3>2. Append(a, Answer(ps[i], X)) \in A
      <4>1. Last(ps[i]) \in N
        BY <3>1 DEF Last
      <4>2. Answer(ps[i], X) \in Seq(N)
        BY <3>1, <4>1 DEF Answer
      <4> HIDE DEF n
      <4> QED  BY <4>2
    <3>3. ps[i] \in fs.dirs => a \o inner[ps[i]] \in A
      OBVIOUS
    <3> HIDE DEF A
    <3> QED  BY <3>2, <3>3 DEF SearchTurn
  <2> HIDE DEF A
  <2> QED  BY <2>1, <2>2
<1>3. PICK g : Iterates(g, n, A, <<>>, F)
  <2> HIDE DEF F, A
  <2> QED  BY <1>1, <1>2, FoldExists
<1>4. \A s \in SUBSET (1..n) : s # {} => Max(s) \in 1..n /\ s \ {Max(s)} \in SUBSET (1..n)
  BY <1>1, MaxOfRange
<1>5. g = Body(g)
  BY <1>1, <1>3, <1>4 DEF Iterates
<1>6. it = Body(it)
  <2> HIDE DEF Body
  <2> QED  BY <1>5
<1>7. SearchFold(inner, fs, ps, M, R, X) = it[1..n]
  BY <1>1 DEF SearchFold, SearchTurn, Answer, FoldLeft, MapThenFoldSet
<1> HIDE DEF it
<1>8. Recurs(it, n, A, <<>>, F)
  BY <1>1, <1>4, <1>6 DEF Recurs
<1>9. PICK h : Loops(h, n, A, <<>>, F, it[1..n])
  <2> HIDE DEF F, A
  <2> QED  BY <1>1, <1>2, <1>8, FoldLoop
<1>10. \A i \in 1..n : h[i] = SearchTurn(h[i - 1], inner, fs, ps[i], M, R, X)
  <2> TAKE i \in 1..n
  <2>1. h[i - 1] \in A /\ h[i] = F[i][h[i - 1]]
    <3> HIDE DEF F, A
    <3> QED  BY <1>1, <1>9, LoopStep
  <2> QED  BY <2>1
<1>11. h \in [0..n -> A] /\ h[0] = <<>> /\ h[n] = it[1..n]
  <2> HIDE DEF F, A
  <2> QED  BY <1>9 DEF Loops
<1>12. SearchTurns(h, inner, fs, ps, M, R, X, N)
  BY <1>7, <1>10, <1>11 DEF SearchTurns
<1> QED  BY <1>12

\* A folder's files depend only on what the folders in it hold.
LEMMA SearchIsLocal ==
  ASSUME NEW N, NEW fs, NEW g, NEW k, NEW M, NEW R, NEW X, NEW ps \in Seq(NonRoots(N)),
         \A i \in 1..Len(ps) :
           ps[i] \in fs.dirs => g[ps[i]] \in Seq(Seq(N)) /\ k[ps[i]] = g[ps[i]]
  PROVE  SearchFold(g, fs, ps, M, R, X) = SearchFold(k, fs, ps, M, R, X)
<1>1. PICK a : SearchTurns(a, g, fs, ps, M, R, X, N)
  BY SearchLoop
<1>2. PICK b : SearchTurns(b, k, fs, ps, M, R, X, N)
  <2>1. \A i \in 1..Len(ps) : ps[i] \in fs.dirs => k[ps[i]] \in Seq(Seq(N))
    OBVIOUS
  <2> QED  BY <2>1, SearchLoop
<1> DEFINE S == {i \in 0..Len(ps) : a[i] = b[i]}
<1>3. 0 \in S
  BY <1>1, <1>2 DEF SearchTurns
<1>4. ASSUME NEW i \in 1..Len(ps), i - 1 \in S PROVE i \in S
  <2>1. \A r : SearchTurn(r, g, fs, ps[i], M, R, X) = SearchTurn(r, k, fs, ps[i], M, R, X)
    BY DEF SearchTurn
  <2>2. a[i] = SearchTurn(a[i - 1], g, fs, ps[i], M, R, X)
    BY <1>1 DEF SearchTurns
  <2>3. b[i] = SearchTurn(b[i - 1], k, fs, ps[i], M, R, X)
    BY <1>2 DEF SearchTurns
  <2> QED  BY <1>4, <2>1, <2>2, <2>3
<1> HIDE DEF S
<1>5. Len(ps) \in S
  <2>1. Len(ps) \in Nat
    OBVIOUS
  <2>2. 0..Len(ps) \subseteq S
    BY <1>3, <1>4, <2>1, RangeInduction
  <2> QED  BY <2>1, <2>2
<1> QED  BY <1>1, <1>2, <1>5 DEF S, SearchTurns

\* SearchFiles, as the recursive function that it calls for its folder.
Search(fs, M, R, X) ==
  CHOOSE found : found = [d \in fs.dirs |-> SearchFold(found, fs, EntriesOf(fs, d), M, R, X)]

\* SearchFiles is the search of its folder.
LEMMA SearchIsRecursive ==
  ASSUME NEW fs, NEW dir \in fs.dirs, NEW pattern, pattern.valid, NEW R, NEW X
  PROVE  SearchFiles(fs, dir, pattern, R, X) =
           [files |-> Search(fs, pattern.matches, R, X)[dir], err |-> FALSE]
BY Zenon DEF SearchFiles, Search, SearchFold

NoRepeats(s) == \A i, j \in 1..Len(s) : i # j => s[i] # s[j]

\* os.ReadDir gives each entry of a folder once.
LEMMA EntriesAreExact ==
  ASSUME NEW N, NEW C, NEW fs \in Systems(Seq(N), C),
         IsFiniteSet(fs.dirs), IsFiniteSet(Files(fs)), NEW dir \in Seq(N)
  PROVE  LET ps == EntriesOf(fs, dir) IN
         /\ ps \in Seq(NonRoots(N)) /\ ps \in Seq(Seq(N)) /\ NoRepeats(ps)
         /\ \A p : Has(ps, p) <=> /\ p \in fs.dirs \cup Files(fs)
                                  /\ Len(p) = Len(dir) + 1 /\ Under(dir, p)
<1> DEFINE E == {p \in fs.dirs \cup Files(fs) : Len(p) = Len(dir) + 1 /\ Under(dir, p)}
           ps == SetToSeq(E)
<1>1. EntriesOf(fs, dir) = ps
  BY DEF EntriesOf
<1>2. E \in SUBSET (fs.dirs \cup Files(fs)) /\ E \in SUBSET (Seq(N) \ {<<>>})
  <2>1. \A p \in fs.dirs \cup Files(fs) : p \in Seq(N)
    BY SystemParts
  <2>2. Len(dir) \in Nat
    OBVIOUS
  <2>3. \A p \in Seq(N) : Len(p) = Len(dir) + 1 => p # <<>>
    BY <2>2
  <2> QED  BY <2>1, <2>3
<1>3. IsFiniteSet(E)
  BY <1>2, FS_Union, FS_Subset
<1>4. \A p : p \in E <=> p \in fs.dirs \cup Files(fs) /\ Len(p) = Len(dir) + 1 /\ Under(dir, p)
  OBVIOUS
<1> HIDE DEF E
<1>5. ps \in Seq(E) /\ Range(ps) = E /\ NoRepeats(ps)
  BY <1>3, ListIsExact DEF NoRepeats
<1> HIDE DEF ps
<1>6. \A p : Has(ps, p) <=> p \in E
  BY <1>5, RangeIsHas
<1>7. ps \in Seq(NonRoots(N)) /\ ps \in Seq(Seq(N))
  BY <1>2, <1>5 DEF NonRoots
<1> QED  BY <1>1, <1>4, <1>5, <1>6, <1>7

\* The fold gives a list of paths if the folders inside have one.
LEMMA SearchType ==
  ASSUME NEW N, NEW fs, NEW inner, NEW M, NEW R, NEW X, NEW ps \in Seq(NonRoots(N)),
         \A i \in 1..Len(ps) : ps[i] \in fs.dirs => inner[ps[i]] \in Seq(Seq(N))
  PROVE  SearchFold(inner, fs, ps, M, R, X) \in Seq(Seq(N))
<1>1. PICK h : SearchTurns(h, inner, fs, ps, M, R, X, N)
  BY SearchLoop
<1>2. Len(ps) \in 0..Len(ps)
  OBVIOUS
<1> QED  BY <1>1, <1>2 DEF SearchTurns

\* The search comes to an end: a folder is deeper than the one it is in.
LEMMA SearchEnds ==
  ASSUME NEW N, NEW C, NEW fs \in Systems(Seq(N), C),
         IsFiniteSet(fs.dirs), IsFiniteSet(Files(fs)),
         NEW depth \in Nat, \A d \in fs.dirs : Len(d) <= depth, NEW M, NEW R, NEW X
  PROVE  LET found == Search(fs, M, R, X) IN
         /\ found \in [fs.dirs -> Seq(Seq(N))]
         /\ \A d \in fs.dirs : found[d] = SearchFold(found, fs, EntriesOf(fs, d), M, R, X)
<1> DEFINE Deep(k) == {d \in fs.dirs : Len(d) + k > depth}
           Holds(g, k) == \A d \in Deep(k) : g[d] = SearchFold(g, fs, EntriesOf(fs, d), M, R, X)
           S == {k \in 0..(depth + 1) : \E g \in [Deep(k) -> Seq(Seq(N))] : Holds(g, k)}
<1>1. \A d \in fs.dirs : d \in Seq(N) /\ Len(d) \in Nat
  BY SystemParts
<1>2. \A d \in fs.dirs :
        /\ EntriesOf(fs, d) \in Seq(NonRoots(N))
        /\ \A i \in 1..Len(EntriesOf(fs, d)) : Len(EntriesOf(fs, d)[i]) = Len(d) + 1
  <2> TAKE d \in fs.dirs
  <2> DEFINE ps == EntriesOf(fs, d)
  <2>1. ps \in Seq(NonRoots(N)) /\ \A p : Has(ps, p) => Len(p) = Len(d) + 1
    BY <1>1, EntriesAreExact
  <2> HIDE DEF ps
  <2>2. \A i \in 1..Len(ps) : Has(ps, ps[i])
    BY DEF Has
  <2> QED  BY <2>1, <2>2 DEF ps
<1>3. 0 \in S
  <2> DEFINE g == [d \in Deep(0) |-> <<>>]
  <2>1. Deep(0) = {}
    BY <1>1
  <2>2. g \in [Deep(0) -> Seq(Seq(N))] /\ Holds(g, 0)
    <3> HIDE DEF Deep
    <3> QED  BY <2>1
  <2>3. 0 \in 0..(depth + 1)
    OBVIOUS
  <2> HIDE DEF g, Holds, Deep
  <2> QED  BY <2>2, <2>3
<1>4. ASSUME NEW k \in 1..(depth + 1), k - 1 \in S PROVE k \in S
  <2>1. PICK g \in [Deep(k - 1) -> Seq(Seq(N))] : Holds(g, k - 1)
    BY <1>4
  <2> DEFINE f == [d \in Deep(k) |-> SearchFold(g, fs, EntriesOf(fs, d), M, R, X)]
  <2>2. ASSUME NEW d \in Deep(k)
        PROVE  /\ d \in fs.dirs
               /\ \A i \in 1..Len(EntriesOf(fs, d)) :
                    EntriesOf(fs, d)[i] \in fs.dirs => EntriesOf(fs, d)[i] \in Deep(k - 1)
    <3>1. d \in fs.dirs /\ Len(d) + k > depth /\ Len(d) \in Nat
      BY <1>1
    <3>2. \A i \in 1..Len(EntriesOf(fs, d)) : Len(EntriesOf(fs, d)[i]) + (k - 1) > depth
      <4>1. \A i \in 1..Len(EntriesOf(fs, d)) : Len(EntriesOf(fs, d)[i]) = Len(d) + 1
        BY <1>2, <3>1
      <4>2. (Len(d) + 1) + (k - 1) > depth
        BY <3>1
      <4> QED  BY <4>1, <4>2
    <3> QED  BY <3>1, <3>2
  <2>3. Deep(k - 1) \in SUBSET Deep(k)
    <3>1. \A d \in fs.dirs : Len(d) + (k - 1) > depth => Len(d) + k > depth
      BY <1>1
    <3> QED  BY <3>1
  <2>4. \A d \in Deep(k) : SearchFold(g, fs, EntriesOf(fs, d), M, R, X) \in Seq(Seq(N))
    <3> TAKE d \in Deep(k)
    <3> DEFINE ps == EntriesOf(fs, d)
    <3>1. ps \in Seq(NonRoots(N)) /\ \A i \in 1..Len(ps) : ps[i] \in fs.dirs => g[ps[i]] \in Seq(Seq(N))
      <4> HIDE DEF Deep
      <4> QED  BY <1>2, <2>2
    <3> HIDE DEF ps
    <3> QED  BY <3>1, SearchType DEF ps
  <2> HIDE DEF Deep
  <2>5. f \in [Deep(k) -> Seq(Seq(N))]
    BY <2>4
  <2>6. \A d \in Deep(k - 1) : f[d] = g[d]
    BY <2>1, <2>3
  <2>7. Holds(f, k)
    <3> SUFFICES ASSUME NEW d \in Deep(k)
                 PROVE  f[d] = SearchFold(f, fs, EntriesOf(fs, d), M, R, X)
      OBVIOUS
    <3> DEFINE ps == EntriesOf(fs, d)
    <3>1. ps \in Seq(NonRoots(N)) /\ \A i \in 1..Len(ps) :
            ps[i] \in fs.dirs => g[ps[i]] \in Seq(Seq(N)) /\ f[ps[i]] = g[ps[i]]
      <4> HIDE DEF f
      <4> QED  BY <1>2, <2>2, <2>6
    <3>2. f[d] = SearchFold(g, fs, ps, M, R, X)
      OBVIOUS
    <3> HIDE DEF ps, f
    <3>3. SearchFold(g, fs, ps, M, R, X) = SearchFold(f, fs, ps, M, R, X)
      BY <3>1, SearchIsLocal
    <3> QED  BY <3>2, <3>3 DEF ps
  <2> HIDE DEF f, Holds
  <2> QED  BY <2>5, <2>7
<1> HIDE DEF S
<1>5. depth + 1 \in S
  <2>1. depth + 1 \in Nat
    OBVIOUS
  <2>2. 0..(depth + 1) \subseteq S
    <3> DEFINE n == depth + 1
    <3> HIDE DEF n
    <3> QED  BY <1>3, <1>4, <2>1, RangeInduction DEF n
  <2> QED  BY <2>1, <2>2
<1>6. Deep(depth + 1) = fs.dirs
  BY <1>1
<1>7. PICK g \in [fs.dirs -> Seq(Seq(N))] :
        \A d \in fs.dirs : g[d] = SearchFold(g, fs, EntriesOf(fs, d), M, R, X)
  <2>1. PICK g \in [Deep(depth + 1) -> Seq(Seq(N))] : Holds(g, depth + 1)
    BY <1>5 DEF S
  <2> HIDE DEF Deep
  <2> QED  BY <1>6, <2>1
<1> DEFINE Body(h) == [d \in fs.dirs |-> SearchFold(h, fs, EntriesOf(fs, d), M, R, X)]
           found == Search(fs, M, R, X)
<1>8. found = Body(found)
  <2>1. g = Body(g)
    BY <1>7
  <2>2. found = CHOOSE it : it = Body(it)
    BY DEF Search
  <2> HIDE DEF Body, found
  <2> QED  BY <2>1, <2>2
<1> HIDE DEF found
<1>9. \A d \in fs.dirs : found[d] = SearchFold(found, fs, EntriesOf(fs, d), M, R, X)
  BY <1>8
<1> DEFINE T == {k \in 0..(depth + 1) : \A d \in Deep(k) : found[d] \in Seq(Seq(N))}
<1>10. 0 \in T
  BY <1>1
<1>11. ASSUME NEW k \in 1..(depth + 1), k - 1 \in T PROVE k \in T
  <2> SUFFICES ASSUME NEW d \in Deep(k) PROVE found[d] \in Seq(Seq(N))
    OBVIOUS
  <2> DEFINE ps == EntriesOf(fs, d)
  <2>1. d \in fs.dirs /\ Len(d) + k > depth /\ Len(d) \in Nat
    BY <1>1
  <2>2. \A i \in 1..Len(ps) : ps[i] \in fs.dirs => ps[i] \in Deep(k - 1)
    <3> TAKE i \in 1..Len(ps)
    <3>1. Len(ps[i]) = Len(d) + 1
      BY <1>2, <2>1
    <3>2. (Len(d) + 1) + (k - 1) > depth
      BY <2>1
    <3> QED  BY <3>1, <3>2
  <2>3. /\ ps \in Seq(NonRoots(N))
        /\ \A i \in 1..Len(ps) : ps[i] \in fs.dirs => found[ps[i]] \in Seq(Seq(N))
    <3> HIDE DEF Deep
    <3> QED  BY <1>2, <1>11, <2>1, <2>2
  <2>4. found[d] = SearchFold(found, fs, ps, M, R, X)
    BY <1>9, <2>1
  <2> HIDE DEF ps
  <2> QED  BY <2>3, <2>4, SearchType
<1> HIDE DEF T
<1>12. depth + 1 \in T
  <2>1. depth + 1 \in Nat
    OBVIOUS
  <2>2. 0..(depth + 1) \subseteq T
    <3> DEFINE n == depth + 1
    <3> HIDE DEF n
    <3> QED  BY <1>10, <1>11, <2>1, RangeInduction DEF n
  <2> QED  BY <2>1, <2>2
<1>13. \A d \in fs.dirs : found[d] \in Seq(Seq(N))
  BY <1>6, <1>12 DEF T
<1>14. found \in [fs.dirs -> Seq(Seq(N))]
  BY <1>8, <1>13
<1> QED  BY <1>9, <1>14 DEF found

\* What an array has when an element is appended, and when it repeats none.
LEMMA AppendHas ==
  ASSUME NEW V, NEW s \in Seq(V), NEW e \in V
  PROVE  /\ \A f : Has(Append(s, e), f) <=> Has(s, f) \/ f = e
         /\ NoRepeats(s) /\ ~Has(s, e) => NoRepeats(Append(s, e))
<1> DEFINE t == Append(s, e)
<1>1. /\ Len(t) = Len(s) + 1 /\ t[Len(t)] = e
      /\ \A i \in 1..Len(s) : t[i] = s[i]
      /\ \A i \in 1..Len(t) : i = Len(t) \/ i \in 1..Len(s)
      /\ Len(t) \in 1..Len(t) /\ \A i \in 1..Len(s) : i \in 1..Len(t)
  OBVIOUS
<1> HIDE DEF t
<1>2. \A f : Has(t, f) <=> Has(s, f) \/ f = e
  BY <1>1 DEF Has
<1>3. NoRepeats(s) /\ ~Has(s, e) => NoRepeats(t)
  BY <1>1 DEF Has, NoRepeats
<1> QED  BY <1>2, <1>3 DEF t

\* What two arrays in a row have, and when they repeat nothing.
LEMMA ConcatHas ==
  ASSUME NEW V, NEW s \in Seq(V), NEW u \in Seq(V)
  PROVE  /\ \A f : Has(s \o u, f) <=> Has(s, f) \/ Has(u, f)
         /\ NoRepeats(s) /\ NoRepeats(u) /\ (\A f : ~(Has(s, f) /\ Has(u, f))) =>
              NoRepeats(s \o u)
<1> DEFINE t == s \o u
<1>1. /\ t \in Seq(V) /\ Len(t) = Len(s) + Len(u)
      /\ Len(s) \in Nat /\ Len(u) \in Nat
      /\ \A i \in 1..Len(t) : t[i] = IF i <= Len(s) THEN s[i] ELSE u[i - Len(s)]
  BY ConcatProperties
<1> HIDE DEF t
<1>2. \A i \in 1..Len(s) : i \in 1..Len(t) /\ t[i] = s[i]
  BY <1>1
<1>3. \A i \in 1..Len(u) : Len(s) + i \in 1..Len(t) /\ t[Len(s) + i] = u[i]
  BY <1>1, SMTT(30)
<1>4. \A i \in 1..Len(t) : \/ i \in 1..Len(s) /\ t[i] = s[i]
                           \/ i - Len(s) \in 1..Len(u) /\ t[i] = u[i - Len(s)]
  BY <1>1
<1>5. \A f : Has(t, f) <=> Has(s, f) \/ Has(u, f)
  BY <1>2, <1>3, <1>4 DEF Has
<1>6. ASSUME NoRepeats(s), NoRepeats(u), \A f : ~(Has(s, f) /\ Has(u, f))
      PROVE  NoRepeats(t)
  <2> SUFFICES ASSUME NEW i \in 1..Len(t), NEW j \in 1..Len(t), i # j, t[i] = t[j]
               PROVE  FALSE
    BY DEF NoRepeats
  <2>1. CASE i \in 1..Len(s) /\ t[i] = s[i] /\ j \in 1..Len(s) /\ t[j] = s[j]
    BY <1>6, <2>1 DEF NoRepeats
  <2>2. CASE /\ i \in 1..Len(s) /\ t[i] = s[i]
             /\ j - Len(s) \in 1..Len(u) /\ t[j] = u[j - Len(s)]
    <3>1. Has(s, t[i]) /\ Has(u, t[i])
      BY <2>2 DEF Has
    <3> QED  BY <1>6, <3>1
  <2>3. CASE /\ j \in 1..Len(s) /\ t[j] = s[j]
             /\ i - Len(s) \in 1..Len(u) /\ t[i] = u[i - Len(s)]
    <3>1. Has(s, t[i]) /\ Has(u, t[i])
      BY <2>3 DEF Has
    <3> QED  BY <1>6, <3>1
  <2>4. CASE /\ i - Len(s) \in 1..Len(u) /\ t[i] = u[i - Len(s)]
             /\ j - Len(s) \in 1..Len(u) /\ t[j] = u[j - Len(s)]
    <3>1. i - Len(s) = j - Len(s)
      BY <1>6, <2>4 DEF NoRepeats
    <3>2. i = j
      BY <1>1, <3>1
    <3> QED  BY <3>2
  <2> QED  BY <1>4, <2>1, <2>2, <2>3, <2>4
<1> QED  BY <1>5, <1>6 DEF t

\* A path of a given length below which f is, is unique.
LEMMA UnderUnique ==
  ASSUME NEW N, NEW p \in Seq(N), NEW q \in Seq(N), NEW f \in Seq(N),
         Under(p, f), Under(q, f), Len(p) = Len(q)
  PROVE  p = q
<1>1. SubSeq(p, 1, Len(p)) = p /\ SubSeq(q, 1, Len(q)) = q
  OBVIOUS
<1> QED  BY <1>1 DEF Under, IsPrefix

\* Being below a folder, name by name.
LEMMA UnderElements ==
  ASSUME NEW N, NEW p \in Seq(N), NEW q \in Seq(N)
  PROVE  Under(p, q) <=> Len(p) <= Len(q) /\ \A i \in 1..Len(p) : p[i] = q[i]
<1>1. ASSUME Under(p, q) PROVE \A i \in 1..Len(p) : p[i] = q[i]
  <2> TAKE i \in 1..Len(p)
  <2>1. SubSeq(p, 1, Len(p))[i] = p[i] /\ SubSeq(q, 1, Len(p))[i] = q[i]
    BY <1>1 DEF Under, IsPrefix
  <2> QED  BY <1>1, <2>1 DEF Under, IsPrefix
<1>2. ASSUME Len(p) <= Len(q), \A i \in 1..Len(p) : p[i] = q[i] PROVE Under(p, q)
  <2>1. SubSeq(p, 1, Len(p)) = SubSeq(q, 1, Len(p))
    BY <1>2
  <2> QED  BY <1>2, <2>1 DEF Under, IsPrefix
<1>3. Under(p, q) => Len(p) <= Len(q)
  BY DEF Under, IsPrefix
<1> QED  BY <1>1, <1>2, <1>3

\* What is below a folder inside is below the folder.
LEMMA UnderTransitive ==
  ASSUME NEW N, NEW p \in Seq(N), NEW q \in Seq(N), NEW f \in Seq(N), Under(p, q), Under(q, f)
  PROVE  Under(p, f)
<1>1. /\ Len(p) <= Len(q) /\ Len(q) <= Len(f)
      /\ \A i \in 1..Len(p) : p[i] = q[i]
      /\ \A i \in 1..Len(q) : q[i] = f[i]
  BY UnderElements
<1>2. \A i \in 1..Len(p) : i \in 1..Len(q)
  BY <1>1
<1>3. Len(p) <= Len(f) /\ \A i \in 1..Len(p) : p[i] = f[i]
  BY <1>1, <1>2
<1> QED  BY <1>3, UnderElements

\* The entry of dir that f is, or is below.
LEMMA EntryAbove ==
  ASSUME NEW N, NEW dir \in Seq(N), NEW f \in Seq(N), Under(dir, f), f # dir
  PROVE  \E p \in Prefixes(f) : /\ p \in Seq(N) /\ Len(p) = Len(dir) + 1
                                /\ Under(dir, p) /\ Under(p, f)
                                /\ Len(f) = Len(dir) + 1 => p = f
<1> DEFINE p == SubSeq(f, 1, Len(dir) + 1)
<1>1. Len(dir) <= Len(f) /\ \A i \in 1..Len(dir) : dir[i] = f[i]
  BY UnderElements
<1>2. Len(dir) # Len(f)
  <2> SUFFICES ASSUME Len(dir) = Len(f) PROVE FALSE
    OBVIOUS
  <2>1. dir = f
    BY <1>1
  <2> QED  BY <2>1
<1>3. Len(dir) \in Nat /\ Len(f) \in Nat /\ Len(dir) + 1 \in 0..Len(f)
  BY <1>1, <1>2
<1>4. p \in Seq(N) /\ Len(p) = Len(dir) + 1 /\ \A i \in 1..(Len(dir) + 1) : p[i] = f[i]
  BY <1>3
<1>5. p \in Prefixes(f)
  BY <1>3 DEF Prefixes
<1> HIDE DEF p
<1>6. Under(p, f)
  BY <1>3, <1>4, UnderElements
<1>7. Under(dir, p)
  <2>1. \A i \in 1..Len(dir) : i \in 1..(Len(dir) + 1)
    BY <1>3
  <2>2. Len(dir) <= Len(p) /\ \A i \in 1..Len(dir) : dir[i] = p[i]
    BY <1>1, <1>3, <1>4, <2>1
  <2> QED  BY <1>4, <2>2, UnderElements
<1>8. Len(f) = Len(dir) + 1 => p = f
  BY <1>4
<1> QED  BY <1>4, <1>5, <1>6, <1>7, <1>8

\* The files that a search of folder d is for, and those that come with its entry p.
Wanted(fs, M, R, d, f) ==
  f \in Files(fs) /\ Under(d, f) /\ Last(f) \in M /\ (R \/ Len(f) = Len(d) + 1)

Gives(fs, M, R, p, f) ==
  IF p \in fs.dirs THEN R /\ Wanted(fs, M, R, p, f) ELSE f = p /\ Last(p) \in M

Exact(fs, M, R, d, s) ==
  NoRepeats(s) /\ \A f : Has(s, f) <=> Wanted(fs, M, R, d, f)

\* A wanted file is an entry of the folder or comes with exactly one.
LEMMA EntriesGive ==
  ASSUME NEW N, NEW C, NEW fs \in Systems(Seq(N), C), IsTree(fs),
         IsFiniteSet(fs.dirs), IsFiniteSet(Files(fs)),
         NEW M, NEW R \in BOOLEAN, NEW d \in fs.dirs, NEW f
  PROVE  Wanted(fs, M, R, d, f) <=>
           \E p : Has(EntriesOf(fs, d), p) /\ Gives(fs, M, R, p, f)
<1>1. \A p : Has(EntriesOf(fs, d), p) <=>
               p \in fs.dirs \cup Files(fs) /\ Len(p) = Len(d) + 1 /\ Under(d, p)
  <2>1. d \in Seq(N)
    BY SystemParts
  <2> QED  BY <2>1, EntriesAreExact
<1>2. /\ \A p \in fs.dirs \cup Files(fs) : p \in Seq(N)
      /\ \A p \in Files(fs) : p \notin fs.dirs
  BY SystemParts DEF IsTree
<1>3. ASSUME NEW p, Has(EntriesOf(fs, d), p), Gives(fs, M, R, p, f)
      PROVE  Wanted(fs, M, R, d, f)
  <2>1. p \in fs.dirs \cup Files(fs) /\ Len(p) = Len(d) + 1 /\ Under(d, p)
    BY <1>1, <1>3
  <2>2. CASE p \in fs.dirs
    <3>1. R /\ f \in Files(fs) /\ Under(p, f) /\ Last(f) \in M
      BY <1>3, <2>2 DEF Gives, Wanted
    <3>2. Under(d, f)
      BY <1>2, <2>1, <3>1, UnderTransitive
    <3> QED  BY <3>1, <3>2 DEF Wanted
  <2>3. CASE p \notin fs.dirs
    <3>1. f = p /\ Last(p) \in M
      BY <1>3, <2>3 DEF Gives
    <3> QED  BY <2>1, <2>3, <3>1 DEF Wanted
  <2> QED  BY <2>2, <2>3
<1>4. ASSUME Wanted(fs, M, R, d, f)
      PROVE  \E p : Has(EntriesOf(fs, d), p) /\ Gives(fs, M, R, p, f)
  <2>1. f \in Files(fs) /\ Under(d, f) /\ Last(f) \in M /\ (R \/ Len(f) = Len(d) + 1)
    BY <1>4 DEF Wanted
  <2>2. PICK p \in Prefixes(f) : /\ p \in Seq(N) /\ Len(p) = Len(d) + 1
                                 /\ Under(d, p) /\ Under(p, f)
                                 /\ Len(f) = Len(d) + 1 => p = f
    BY <1>2, <2>1, EntryAbove
  <2>3. p = f \/ p \in fs.dirs
    BY <2>1 DEF IsTree
  <2>4. Has(EntriesOf(fs, d), p)
    BY <1>1, <2>1, <2>2, <2>3
  <2>5. Gives(fs, M, R, p, f)
    BY <1>2, <2>1, <2>2, <2>3 DEF Gives, Wanted
  <2> QED  BY <2>4, <2>5
<1> QED  BY <1>3, <1>4

\* What comes with an entry is below it.
LEMMA GivenIsBelow ==
  ASSUME NEW N, NEW C, NEW fs \in Systems(Seq(N), C), NEW M, NEW R,
         NEW p \in fs.dirs \cup Files(fs), NEW f, Gives(fs, M, R, p, f)
  PROVE  f \in Seq(N) /\ p \in Seq(N) /\ Under(p, f)
<1>1. p \in Seq(N) /\ \A g \in Files(fs) : g \in Seq(N)
  BY SystemParts
<1>2. Under(p, p)
  BY <1>1, UnderElements
<1> QED  BY <1>1, <1>2 DEF Gives, Wanted

\* If the folders inside are searched exactly, the folder is.
LEMMA FolderSearched ==
  ASSUME NEW N, NEW C, NEW fs \in Systems(Seq(N), C), IsTree(fs),
         IsFiniteSet(fs.dirs), IsFiniteSet(Files(fs)),
         NEW M, NEW R \in BOOLEAN, NEW d \in fs.dirs,
         NEW found, \A p \in fs.dirs : found[p] \in Seq(Seq(N)),
         \A p \in fs.dirs : Len(p) = Len(d) + 1 => Exact(fs, M, R, p, found[p])
  PROVE  Exact(fs, M, R, d, SearchFold(found, fs, EntriesOf(fs, d), M, R, TRUE))
<1> DEFINE ps == EntriesOf(fs, d)
           n == Len(ps)
           Part(k, s) ==
             /\ NoRepeats(s)
             /\ \A f : Has(s, f) <=> \E j \in 1..k : Gives(fs, M, R, ps[j], f)
<1>1. /\ ps \in Seq(NonRoots(N)) /\ ps \in Seq(Seq(N)) /\ NoRepeats(ps)
      /\ \A p : Has(ps, p) <=> p \in fs.dirs \cup Files(fs) /\ Len(p) = Len(d) + 1 /\ Under(d, p)
  <2>1. d \in Seq(N)
    BY SystemParts
  <2> QED  BY <2>1, EntriesAreExact
<1> HIDE DEF ps
<1>2. n \in Nat /\ \A i \in 1..n : /\ ps[i] \in fs.dirs \cup Files(fs)
                                   /\ Len(ps[i]) = Len(d) + 1 /\ ps[i] \in Seq(N)
  <2>1. \A i \in 1..n : Has(ps, ps[i])
    BY DEF Has
  <2> QED  BY <1>1, <2>1
<1>3. PICK h : SearchTurns(h, found, fs, ps, M, R, TRUE, N)
  BY <1>1, SearchLoop
<1>4. /\ h \in [0..n -> Seq(Seq(N))] /\ h[0] = <<>>
      /\ h[n] = SearchFold(found, fs, ps, M, R, TRUE)
      /\ \A i \in 1..n : h[i] = SearchTurn(h[i - 1], found, fs, ps[i], M, R, TRUE)
  BY <1>3 DEF SearchTurns
<1> DEFINE S == {k \in 0..n : Part(k, h[k])}
<1>5. 0 \in S
  <2>1. Part(0, <<>>)
    BY DEF NoRepeats, Has
  <2>2. 0 \in 0..n
    BY <1>2
  <2> HIDE DEF Part
  <2> QED  BY <1>4, <2>1, <2>2
<1>6. ASSUME NEW k \in 1..n, k - 1 \in S PROVE k \in S
  <2> DEFINE s == h[k - 1]
             p == ps[k]
  <2>1. /\ k - 1 \in 0..n /\ k \in 0..n /\ s \in Seq(Seq(N)) /\ Part(k - 1, s)
        /\ h[k] = SearchTurn(s, found, fs, p, M, R, TRUE)
    <3>1. k - 1 \in 0..n /\ k \in 0..n /\ Part(k - 1, s)
      <4> HIDE DEF Part
      <4> QED  BY <1>2, <1>6
    <3> QED  BY <1>4, <3>1
  <2>2. p \in fs.dirs \cup Files(fs) /\ Len(p) = Len(d) + 1 /\ p \in Seq(N)
    BY <1>2
  <2>3. \A f : (\E j \in 1..k : Gives(fs, M, R, ps[j], f)) <=>
                  \/ \E j \in 1..(k - 1) : Gives(fs, M, R, ps[j], f)
                  \/ Gives(fs, M, R, p, f)
    <3>1. \A j : j \in 1..k <=> j = k \/ j \in 1..(k - 1)
      OBVIOUS
    <3> QED  BY <3>1
  <2>4. ASSUME NEW f, Gives(fs, M, R, p, f) PROVE ~Has(s, f)
    <3> SUFFICES ASSUME Has(s, f) PROVE FALSE
      OBVIOUS
    <3>1. PICK j \in 1..(k - 1) : Gives(fs, M, R, ps[j], f)
      BY <2>1
    <3>2. j \in 1..n /\ j # k
      BY <1>2
    <3>3. ps[j] \in fs.dirs \cup Files(fs) /\ Len(ps[j]) = Len(d) + 1
      BY <1>2, <3>2
    <3>4. Under(ps[j], f) /\ Under(p, f) /\ f \in Seq(N) /\ ps[j] \in Seq(N)
      BY <2>2, <2>4, <3>1, <3>3, GivenIsBelow
    <3>5. ps[j] = p
      BY <2>2, <3>3, <3>4, UnderUnique
    <3> QED  BY <1>1, <3>2, <3>5 DEF NoRepeats
  <2>5. Part(k, h[k])
    <3>1. CASE p \in fs.dirs /\ R
      <4> DEFINE u == found[p]
      <4>1. u \in Seq(Seq(N)) /\ NoRepeats(u)
            /\ \A f : Has(u, f) <=> Gives(fs, M, R, p, f)
        BY <2>2, <3>1 DEF Exact, Gives
      <4>2. h[k] = s \o u
        BY <2>1, <3>1 DEF SearchTurn
      <4> HIDE DEF u, s, p
      <4>3. NoRepeats(s \o u) /\ \A f : Has(s \o u, f) <=> Has(s, f) \/ Has(u, f)
        BY <2>1, <2>4, <4>1, ConcatHas
      <4> QED  BY <2>1, <2>3, <4>1, <4>2, <4>3
    <3>2. CASE p \in fs.dirs /\ ~R
      <4>1. h[k] = s
        BY <2>1, <3>2 DEF SearchTurn
      <4>2. \A f : ~Gives(fs, M, R, p, f)
        BY <3>2 DEF Gives
      <4> HIDE DEF s, p
      <4> QED  BY <2>1, <2>3, <4>1, <4>2
    <3>3. CASE p \notin fs.dirs /\ Last(p) \in M
      <4>1. h[k] = Append(s, p)
        BY <2>1, <3>3 DEF SearchTurn, Answer
      <4>2. \A f : f = p <=> Gives(fs, M, R, p, f)
        BY <3>3 DEF Gives
      <4> HIDE DEF s, p
      <4>3. NoRepeats(Append(s, p)) /\ \A f : Has(Append(s, p), f) <=> Has(s, f) \/ f = p
        BY <2>1, <2>2, <2>4, <4>2, AppendHas
      <4> QED  BY <2>1, <2>3, <4>1, <4>2, <4>3
    <3>4. CASE p \notin fs.dirs /\ Last(p) \notin M
      <4>1. h[k] = s
        BY <2>1, <3>4 DEF SearchTurn
      <4>2. \A f : ~Gives(fs, M, R, p, f)
        BY <3>4 DEF Gives
      <4> HIDE DEF s, p
      <4> QED  BY <2>1, <2>3, <4>1, <4>2
    <3> QED  BY <3>1, <3>2, <3>3, <3>4
  <2> HIDE DEF Part
  <2> QED  BY <2>1, <2>5
<1> HIDE DEF S
<1>7. n \in S
  <2>1. 0..n \subseteq S
    <3> HIDE DEF n
    <3> QED  BY <1>2, <1>5, <1>6, RangeInduction
  <2> QED  BY <1>2, <2>1
<1> DEFINE t == SearchFold(found, fs, ps, M, R, TRUE)
<1>8. Part(n, t)
  BY <1>4, <1>7 DEF S
<1>9. \A f : (\E j \in 1..n : Gives(fs, M, R, ps[j], f)) <=>
                \E p : Has(ps, p) /\ Gives(fs, M, R, p, f)
  BY DEF Has
<1>10. \A f : Wanted(fs, M, R, d, f) <=> \E p : Has(ps, p) /\ Gives(fs, M, R, p, f)
  BY EntriesGive DEF ps
<1> HIDE DEF t, n
<1>11. Exact(fs, M, R, d, t)
  BY <1>8, <1>9, <1>10 DEF Exact
<1> QED  BY <1>11 DEF t, ps

\* The names of files, for their paths.
NamesOf(s) == [i \in DOMAIN s |-> <<Last(s[i])>>]

\* The names of longer lists of files.
LEMMA NamesGrow ==
  ASSUME NEW V, NEW s \in Seq(V)
  PROVE  /\ \A p \in V : NamesOf(Append(s, p)) = Append(NamesOf(s), <<Last(p)>>)
         /\ \A u \in Seq(V) : NamesOf(s \o u) = NamesOf(s) \o NamesOf(u)
<1> DEFINE W == {<<Last(p)>> : p \in V}
<1>1. \A u \in Seq(V) : /\ NamesOf(u) \in Seq(W) /\ Len(NamesOf(u)) = Len(u)
                        /\ \A i \in 1..Len(u) : NamesOf(u)[i] = <<Last(u[i])>>
  <2> TAKE u \in Seq(V)
  <2>1. DOMAIN u = 1..Len(u) /\ Len(u) \in Nat /\ \A i \in 1..Len(u) : u[i] \in V
    OBVIOUS
  <2>2. \A i \in 1..Len(u) : <<Last(u[i])>> \in W
    BY <2>1
  <2>3. NamesOf(u) = [i \in 1..Len(u) |-> <<Last(u[i])>>]
    BY <2>1 DEF NamesOf
  <2> HIDE DEF W
  <2> QED  BY <2>1, <2>2, <2>3
<1>2. ASSUME NEW p \in V PROVE NamesOf(Append(s, p)) = Append(NamesOf(s), <<Last(p)>>)
  <2> DEFINE t == Append(s, p)
             a == NamesOf(t)
             b == Append(NamesOf(s), <<Last(p)>>)
  <2>1. /\ t \in Seq(V) /\ Len(t) = Len(s) + 1 /\ t[Len(s) + 1] = p
        /\ \A i \in 1..Len(s) : t[i] = s[i]
    OBVIOUS
  <2>2. <<Last(p)>> \in W /\ NamesOf(s) \in Seq(W) /\ Len(NamesOf(s)) = Len(s)
    BY <1>1
  <2> HIDE DEF t, W
  <2>3. /\ a \in Seq(W) /\ Len(a) = Len(s) + 1
        /\ \A i \in 1..(Len(s) + 1) : a[i] = <<Last(t[i])>>
    BY <1>1, <2>1
  <2> HIDE DEF a
  <2>4. /\ b \in Seq(W) /\ Len(b) = Len(s) + 1 /\ b[Len(s) + 1] = <<Last(p)>>
        /\ \A i \in 1..Len(s) : b[i] = NamesOf(s)[i]
    BY <2>2
  <2>5. \A i \in 1..(Len(s) + 1) : i = Len(s) + 1 \/ i \in 1..Len(s)
    OBVIOUS
  <2> HIDE DEF b
  <2>6. \A i \in 1..(Len(s) + 1) : a[i] = b[i]
    BY <1>1, <2>1, <2>3, <2>4, <2>5
  <2>7. a = b
    BY <2>3, <2>4, <2>6
  <2> QED  BY <2>7 DEF a, b, t
<1>3. ASSUME NEW u \in Seq(V) PROVE NamesOf(s \o u) = NamesOf(s) \o NamesOf(u)
  <2> DEFINE t == s \o u
             a == NamesOf(t)
             x == NamesOf(s)
             y == NamesOf(u)
             b == x \o y
  <2>1. /\ t \in Seq(V) /\ Len(t) = Len(s) + Len(u)
        /\ \A i \in 1..Len(t) : t[i] = IF i <= Len(s) THEN s[i] ELSE u[i - Len(s)]
    BY ConcatProperties
  <2>2. /\ x \in Seq(W) /\ Len(x) = Len(s) /\ \A i \in 1..Len(s) : x[i] = <<Last(s[i])>>
        /\ y \in Seq(W) /\ Len(y) = Len(u) /\ \A i \in 1..Len(u) : y[i] = <<Last(u[i])>>
    BY <1>1
  <2> HIDE DEF t, W, x, y
  <2>3. /\ a \in Seq(W) /\ Len(a) = Len(t) /\ \A i \in 1..Len(t) : a[i] = <<Last(t[i])>>
    BY <1>1, <2>1
  <2>4. /\ b \in Seq(W) /\ Len(b) = Len(x) + Len(y)
        /\ \A i \in 1..Len(b) : b[i] = IF i <= Len(x) THEN x[i] ELSE y[i - Len(x)]
    <3>1. x \in Seq(W) /\ y \in Seq(W)
      BY <2>2
    <3>2. /\ x \o y \in Seq(W) /\ Len(x \o y) = Len(x) + Len(y)
          /\ \A i \in 1..Len(x) + Len(y) :
               (x \o y)[i] = IF i <= Len(x) THEN x[i] ELSE y[i - Len(x)]
      <4> HIDE <2>2
      <4> QED  BY <3>1, ConcatProperties
    <3> QED  BY <3>2
  <2> HIDE DEF a, b
  <2>5. \A i \in 1..Len(t) : \/ i <= Len(s) /\ i \in 1..Len(s)
                             \/ ~(i <= Len(s)) /\ i - Len(s) \in 1..Len(u)
    BY <2>1
  <2>6. Len(b) = Len(t)
    BY <2>1, <2>2, <2>4
  <2>7. ASSUME NEW i \in 1..Len(t) PROVE a[i] = b[i]
    <3>1. a[i] = <<Last(t[i])>> /\ t[i] = IF i <= Len(s) THEN s[i] ELSE u[i - Len(s)]
      BY <2>1, <2>3
    <3>2. b[i] = IF i <= Len(s) THEN x[i] ELSE y[i - Len(s)]
      BY <2>2, <2>4, <2>6
    <3>3. CASE i <= Len(s)
      <4>1. i \in 1..Len(s)
        BY <2>5, <3>3
      <4> QED  BY <2>2, <3>1, <3>2, <3>3, <4>1
    <3>4. CASE ~(i <= Len(s))
      <4>1. i - Len(s) \in 1..Len(u)
        BY <2>5, <3>4
      <4> QED  BY <2>2, <3>1, <3>2, <3>4, <4>1
    <3> QED  BY <3>3, <3>4
  <2>8. a = b
    <3>1. a \in Seq(W) /\ b \in Seq(W) /\ Len(a) = Len(b)
      BY <2>3, <2>4, <2>6
    <3>2. DOMAIN a = 1..Len(a) /\ DOMAIN b = 1..Len(b)
      BY <3>1
    <3>3. \A i \in DOMAIN a : a[i] = b[i]
      BY <2>3, <2>7, <3>2
    <3>4. a = [i \in DOMAIN a |-> a[i]] /\ b = [i \in DOMAIN b |-> b[i]]
      BY <3>1
    <3> QED  BY <3>1, <3>2, <3>3, <3>4
  <2> QED  BY <2>8 DEF a, b, t, x, y
<1> QED  BY <1>2, <1>3

\* The folders of ps are searched in found for paths and in bare for their names.
NamedInside(bare, found, fs, ps, N) ==
  \A i \in 1..Len(ps) : ps[i] \in fs.dirs =>
    /\ found[ps[i]] \in Seq(Seq(N)) /\ bare[ps[i]] \in Seq(Seq(N))
    /\ bare[ps[i]] = NamesOf(found[ps[i]])

\* A search of the entries ps finds in bare the names of what it finds in found.
SearchedForNames(bare, found, fs, ps, M, R) ==
  SearchFold(bare, fs, ps, M, R, FALSE) = NamesOf(SearchFold(found, fs, ps, M, R, TRUE))

\* If the folders inside are searched for the names of what they hold, the folder is.
LEMMA FolderNamed ==
  ASSUME NEW N, NEW fs, NEW M, NEW R, NEW ps \in Seq(NonRoots(N)), NEW found, NEW bare,
         NamedInside(bare, found, fs, ps, N)
  PROVE  SearchedForNames(bare, found, fs, ps, M, R)
<1>1. PICK a : SearchTurns(a, bare, fs, ps, M, R, FALSE, N)
  <2>1. \A i \in 1..Len(ps) : ps[i] \in fs.dirs => bare[ps[i]] \in Seq(Seq(N))
    BY DEF NamedInside
  <2> QED  BY <2>1, SearchLoop
<1>2. PICK b : SearchTurns(b, found, fs, ps, M, R, TRUE, N)
  <2>1. \A i \in 1..Len(ps) : ps[i] \in fs.dirs => found[ps[i]] \in Seq(Seq(N))
    BY DEF NamedInside
  <2> QED  BY <2>1, SearchLoop
<1> DEFINE S == {i \in 0..Len(ps) : a[i] = NamesOf(b[i])}
<1>3. 0 \in S
  <2>1. NamesOf(<<>>) = <<>>
    BY DEF NamesOf
  <2>2. a[0] = <<>> /\ b[0] = <<>> /\ 0 \in 0..Len(ps)
    BY <1>1, <1>2 DEF SearchTurns
  <2> QED  BY <2>1, <2>2
<1>4. ASSUME NEW i \in 1..Len(ps), i - 1 \in S PROVE i \in S
  <2> DEFINE p == ps[i]
             s == b[i - 1]
  <2>1. /\ i \in 0..Len(ps) /\ s \in Seq(Seq(N)) /\ a[i - 1] = NamesOf(s)
        /\ p \in Seq(N)
    <3>1. i - 1 \in 0..Len(ps) /\ i \in 0..Len(ps)
      BY <1>4
    <3>2. b \in [0..Len(ps) -> Seq(Seq(N))]
      BY <1>2 DEF SearchTurns
    <3>3. \A j \in 1..Len(ps) : ps[j] \in Seq(N)
      BY DEF NonRoots
    <3> QED  BY <1>4, <3>1, <3>2, <3>3
  <2>2. a[i] = SearchTurn(NamesOf(s), bare, fs, p, M, R, FALSE)
    BY <1>1, <2>1 DEF SearchTurns
  <2>3. b[i] = SearchTurn(s, found, fs, p, M, R, TRUE)
    BY <1>2 DEF SearchTurns
  <2>4. p \in fs.dirs => found[p] \in Seq(Seq(N)) /\ bare[p] = NamesOf(found[p])
    BY DEF NamedInside
  <2> HIDE DEF p, s
  <2>5. /\ NamesOf(Append(s, p)) = Append(NamesOf(s), <<Last(p)>>)
        /\ p \in fs.dirs => NamesOf(s \o found[p]) = NamesOf(s) \o NamesOf(found[p])
    BY <2>1, <2>4, NamesGrow
  <2>6. SearchTurn(NamesOf(s), bare, fs, p, M, R, FALSE) =
          NamesOf(SearchTurn(s, found, fs, p, M, R, TRUE))
    BY <2>4, <2>5, Zenon DEF SearchTurn, Answer
  <2> QED  BY <2>1, <2>2, <2>3, <2>6
<1> HIDE DEF S
<1>5. Len(ps) \in S
  <2>1. Len(ps) \in Nat
    OBVIOUS
  <2>2. 0..Len(ps) \subseteq S
    BY <1>3, <1>4, <2>1, RangeInduction
  <2> QED  BY <2>1, <2>2
<1> QED  BY <1>1, <1>2, <1>5 DEF S, SearchTurns, SearchedForNames

\* What a search finds, with the paths and without, for every folder of every finite
\* tree.
FoundBothWays(fs, M, R, dir, N) ==
  /\ Exact(fs, M, R, dir, Search(fs, M, R, TRUE)[dir])
  /\ Search(fs, M, R, TRUE)[dir] \in Seq(Seq(N))
  /\ Search(fs, M, R, FALSE)[dir] = NamesOf(Search(fs, M, R, TRUE)[dir])

LEMMA SearchedBothWays ==
  ASSUME NEW N, NEW C, NEW fs \in Systems(Seq(N), C), IsTree(fs),
         IsFiniteSet(fs.dirs), IsFiniteSet(Files(fs)),
         NEW depth \in Nat, \A d \in fs.dirs : Len(d) <= depth,
         NEW M, NEW R \in BOOLEAN, NEW dir \in fs.dirs
  PROVE  FoundBothWays(fs, M, R, dir, N)
<1> DEFINE found == Search(fs, M, R, TRUE)
           bare == Search(fs, M, R, FALSE)
           Deep(k) == {d \in fs.dirs : Len(d) + k > depth}
           Good(d) == Exact(fs, M, R, d, found[d]) /\ bare[d] = NamesOf(found[d])
           S == {k \in 0..(depth + 1) : \A d \in Deep(k) : Good(d)}
<1>1. \A d \in fs.dirs : Len(d) \in Nat /\ d \in Seq(N)
  BY SystemParts
<1>2. /\ \A d \in fs.dirs : found[d] \in Seq(Seq(N)) /\ bare[d] \in Seq(Seq(N))
      /\ \A d \in fs.dirs : found[d] = SearchFold(found, fs, EntriesOf(fs, d), M, R, TRUE)
      /\ \A d \in fs.dirs : bare[d] = SearchFold(bare, fs, EntriesOf(fs, d), M, R, FALSE)
  <2>0. \A X : LET g == Search(fs, M, R, X) IN
          /\ g \in [fs.dirs -> Seq(Seq(N))]
          /\ \A d \in fs.dirs : g[d] = SearchFold(g, fs, EntriesOf(fs, d), M, R, X)
    <3> TAKE X
    <3> HIDE DEF found, bare, Deep, Good, S
    <3> QED  BY SearchEnds
  <2>1. /\ found \in [fs.dirs -> Seq(Seq(N))]
        /\ \A d \in fs.dirs : found[d] = SearchFold(found, fs, EntriesOf(fs, d), M, R, TRUE)
    BY <2>0, Zenon
  <2>2. /\ bare \in [fs.dirs -> Seq(Seq(N))]
        /\ \A d \in fs.dirs : bare[d] = SearchFold(bare, fs, EntriesOf(fs, d), M, R, FALSE)
    BY <2>0, Zenon
  <2> HIDE DEF found, bare
  <2> QED  BY <2>1, <2>2
<1> HIDE DEF found, bare
<1>3. 0 \in S
  BY <1>1
<1>4. ASSUME NEW k \in 1..(depth + 1), k - 1 \in S PROVE k \in S
  <2> SUFFICES ASSUME NEW d \in Deep(k) PROVE Good(d)
    OBVIOUS
  <2>1. d \in fs.dirs /\ Len(d) + k > depth /\ Len(d) \in Nat /\ d \in Seq(N)
    BY <1>1
  <2>2. (Len(d) + 1) + (k - 1) > depth
    BY <2>1
  <2>3. \A p \in fs.dirs : Len(p) = Len(d) + 1 => p \in Deep(k - 1)
    BY <2>2
  <2>4. \A p \in fs.dirs : Len(p) = Len(d) + 1 => Good(p)
    <3> HIDE DEF Deep, Good
    <3> QED  BY <1>4, <2>3
  <2>5. Exact(fs, M, R, d, SearchFold(found, fs, EntriesOf(fs, d), M, R, TRUE))
    BY <1>2, <2>1, <2>4, FolderSearched
  <2> DEFINE ps == EntriesOf(fs, d)
  <2>6. ps \in Seq(NonRoots(N)) /\ \A p : Has(ps, p) => Len(p) = Len(d) + 1
    BY <2>1, EntriesAreExact
  <2>7. bare[d] = SearchFold(bare, fs, ps, M, R, FALSE)
        /\ found[d] = SearchFold(found, fs, ps, M, R, TRUE)
    BY <1>2, <2>1
  <2> HIDE DEF ps
  <2>8. NamedInside(bare, found, fs, ps, N)
    <3>1. \A i \in 1..Len(ps) : Has(ps, ps[i])
      BY DEF Has
    <3> QED  BY <1>2, <2>4, <2>6, <3>1 DEF NamedInside
  <2>9. SearchedForNames(bare, found, fs, ps, M, R)
    <3> HIDE DEF Good, Deep
    <3> QED  BY <2>6, <2>8, FolderNamed
  <2> QED  BY <1>2, <2>1, <2>5, <2>7, <2>9 DEF SearchedForNames
<1> HIDE DEF S
<1>5. depth + 1 \in S
  <2>1. depth + 1 \in Nat
    OBVIOUS
  <2>2. 0..(depth + 1) \subseteq S
    <3> DEFINE n == depth + 1
    <3> HIDE DEF n
    <3> QED  BY <1>3, <1>4, <2>1, RangeInduction DEF n
  <2> QED  BY <2>1, <2>2
<1>6. Good(dir) /\ found[dir] \in Seq(Seq(N))
  BY <1>1, <1>2, <1>5 DEF S
<1> QED  BY <1>6 DEF found, bare, FoundBothWays

\* SearchFiles finds each file of a matching name once and no other, and names the same
\* files with and without their paths, for every folder of every finite tree.
THEOREM Searched ==
  ASSUME NEW N, NEW C, NEW fs \in Systems(Seq(N), C), IsTree(fs),
         IsFiniteSet(fs.dirs), IsFiniteSet(Files(fs)),
         NEW depth \in Nat, \A d \in fs.dirs : Len(d) <= depth,
         NEW dir, NEW pattern, NEW R \in BOOLEAN, NEW X \in BOOLEAN
  PROVE  SearchFindsAll(fs, dir, pattern, R, X)
<1> SUFFICES ASSUME pattern.valid, dir \in fs.dirs
             PROVE  SearchFindsAll(fs, dir, pattern, R, X)
  BY DEF SearchFindsAll
<1> DEFINE M == pattern.matches
           t == Search(fs, M, R, TRUE)[dir]
           r == SearchFiles(fs, dir, pattern, R, X)
<1>1. FoundBothWays(fs, M, R, dir, N) /\ t = Search(fs, M, R, TRUE)[dir]
  <2> HIDE DEF M
  <2> QED  BY SearchedBothWays
<1>2. /\ Exact(fs, M, R, dir, t) /\ t \in Seq(Seq(N))
      /\ Search(fs, M, R, FALSE)[dir] = NamesOf(t)
  BY <1>1 DEF FoundBothWays
<1>3. SearchFiles(fs, dir, pattern, R, TRUE).files = t
  <2>0. \A Y : SearchFiles(fs, dir, pattern, R, Y) =
                [files |-> Search(fs, pattern.matches, R, Y)[dir], err |-> FALSE]
    BY SearchIsRecursive
  <2>1. SearchFiles(fs, dir, pattern, R, TRUE) = [files |-> t, err |-> FALSE]
    BY <2>0, Zenon
  <2>2. \A w : w = [files |-> t, err |-> FALSE] => w.files = t
    <3> HIDE DEF t
    <3> QED  OBVIOUS
  <2> QED  BY <2>1, <2>2, Zenon
<1>4. ~r.err /\ r.files = Search(fs, M, R, X)[dir]
  <2>1. r = [files |-> Search(fs, M, R, X)[dir], err |-> FALSE]
    BY SearchIsRecursive
  <2> HIDE DEF r
  <2> QED  BY <2>1
<1> HIDE DEF M, t, r
<1>5. NoRepeats(t) /\ t \in Seq(Seq(N)) /\ \A f : Has(t, f) <=> Wanted(fs, M, R, dir, f)
  BY <1>2 DEF Exact
<1>6. IsInjective(t)
  <2>1. DOMAIN t = 1..Len(t)
    BY <1>5
  <2> QED  BY <1>5, <2>1 DEF IsInjective, NoRepeats
<1>7. Range(t) = {f \in Files(fs) : /\ Under(dir, f) /\ Last(f) \in M
                                    /\ R \/ Len(f) = Len(dir) + 1}
  <2>1. \A f : f \in Range(t) <=> Has(t, f)
    BY <1>5, RangeIsHas
  <2> QED  BY <1>5, <2>1 DEF Wanted
<1>8. r.files = IF X THEN t ELSE [i \in DOMAIN t |-> <<Last(t[i])>>]
  <2>1. CASE X
    <3>1. X = TRUE
      BY <2>1
    <3> QED  BY <1>4, <3>1 DEF t
  <2>2. CASE ~X
    <3>1. X = FALSE
      BY <2>2
    <3> QED  BY <1>2, <1>4, <3>1 DEF NamesOf
  <2> QED  BY <2>1, <2>2
<1> QED  BY <1>3, <1>4, <1>6, <1>7, <1>8 DEF SearchFindsAll, M, r

\* The paths of MCHelpers have one or two names.
LEMMA PathsAreShort == \A d \in {<<>>} \cup Paths : Len(d) <= 2
<1>1. \A m : Len(<<m>>) = 1
  OBVIOUS
<1>2. \A d \in Names \X Names : Len(d) = 2
  OBVIOUS
<1>3. \A d \in {<<m>> : m \in Names} : Len(d) = 1
  BY <1>1
<1>4. \A d \in Paths : Len(d) = 1 \/ Len(d) = 2
  BY <1>2, <1>3, Zenon DEF Paths
<1>5. Len(<<>>) = 0
  OBVIOUS
<1> QED  BY <1>4, <1>5

\* SearchFiles finds every file of a matching name once, with the paths and without.
THEOREM SearchExact == HelpersSpec => []SearchIsExact
<1>1. InputsInv => SearchIsExact
  <2> SUFFICES ASSUME InputsInv, call[1] = "search"
               PROVE  SearchFindsAll(call[2][1], call[2][2], call[2][3], call[2][4], call[2][5])
    BY DEF SearchIsExact, Of
  <2>1. PICK fs \in Trees, dir \in {<<>>} \cup Paths, pattern \in Patterns, recurse \in BOOLEAN,
             includeDirPath \in BOOLEAN :
               call[2] = <<fs, dir, pattern, recurse, includeDirPath>>
    BY DEF InputsInv
  <2>2. /\ fs \in Systems(Seq(Names), Contents) /\ IsTree(fs) /\ IsFiniteSet(Files(fs))
        /\ fs.dirs \subseteq {<<>>} \cup Paths
    BY TreesAreSystems, TreesAreTrees
  <2>3. IsFiniteSet(fs.dirs)
    <3>1. IsFiniteSet({<<>>} \cup Paths)
      BY PathsAreFinite, FS_Singleton, FS_Union
    <3> QED  BY <2>2, <3>1, FS_Subset
  <2>4. \A d \in fs.dirs : Len(d) <= 2
    <3> QED  BY <2>2, PathsAreShort
  <2>5. SearchFindsAll(fs, dir, pattern, recurse, includeDirPath)
    BY <2>2, <2>3, <2>4, Searched
  <2> QED  BY <2>1, <2>5
<1> QED  BY <1>1, Inputs, PTL
=============================================================================
