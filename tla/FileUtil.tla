------------------------------ MODULE FileUtil ------------------------------
(***************************************************************************)
(* internal/service/util/file.go on a file system: a path is a sequence of *)
(* names, <<>> the root; files maps the paths of files to their contents.  *)
(* A call returns the file system it leaves, and whether it returns an     *)
(* error; os calls fail where the file system makes them, not for want of  *)
(* rights, and for want of space only where the program uses it all up.    *)
(***************************************************************************)
EXTENDS Naturals, Sequences, FiniteSets, SequencesExt, Functions

Files(fs) == DOMAIN fs.files

Under(dir, path) == IsPrefix(dir, path)

\* filepath.Rel
Rest(dir, path) == SubSeq(path, Len(dir) + 1, Len(path))

\* Contents of files, and of the entries of archives.
Data(bytes)      == [kind |-> "data", bytes |-> bytes]
Archive(entries) == [kind |-> "zip", entries |-> entries]
FolderEntry      == [kind |-> "folder"]

Empty == Data(<<>>)

Ok(fs)   == [fs |-> fs, err |-> FALSE]
Err(fs)  == [fs |-> fs, err |-> TRUE]

\* The rest of a function that returns on an error.
Then(r, op(_)) == IF r.err THEN r ELSE op(r.fs)

(* os.MkdirAll, os.RemoveAll, os.Create *)

MkdirAll(fs, path) ==
  IF \E p \in Prefixes(path) : p \in Files(fs) THEN Err(fs)
  ELSE Ok([fs EXCEPT !.dirs = @ \cup Prefixes(path)])

\* A path that is not there is no error, one below a file is.
RemovePath(fs, path) ==
  IF \E p \in Prefixes(path) : p # path /\ p \in Files(fs) THEN Err(fs)
  ELSE Ok([dirs  |-> {d \in fs.dirs : ~Under(path, d)},
           files |-> Restrict(fs.files, {f \in Files(fs) : ~Under(path, f)})])

Write(fs, path, content) ==
  [fs EXCEPT !.files =
     [f \in Files(fs) \cup {path} |-> IF f = path THEN content ELSE fs.files[f]]]

Create(fs, path, content) ==
  IF path \in fs.dirs THEN Err(fs) ELSE Ok(Write(fs, path, content))

-----------------------------------------------------------------------------
\* Mutant of CopyFile: the folder of the copy is not created.
CopyFileOnly(fs, src, des) ==
  IF src = des THEN Ok(fs)
  ELSE IF src \notin Files(fs) \/ Front(des) \notin fs.dirs THEN Err(fs)
  ELSE Create(fs, des, fs.files[src])

\* CopyFile: a folder can be opened; io.Copy fails on it when the destination
\* has been created, or cut to nothing.
CopyFile(fs, src, des) ==
  IF src = des THEN Ok(fs)
  ELSE IF src \in Files(fs)
    THEN Then(MkdirAll(fs, Front(des)), LAMBDA made : Create(made, des, fs.files[src]))
  ELSE IF src \in fs.dirs
    THEN Err(Then(MkdirAll(fs, Front(des)), LAMBDA made : Create(made, des, Empty)).fs)
  ELSE Err(fs)

RemoveAll(fs, paths) ==
  FoldLeft(LAMBDA r, p : Then(r, LAMBDA left : RemovePath(left, p)), Ok(fs), paths)

MkdirEach(fs, paths) ==
  FoldLeft(LAMBDA r, p : Then(r, LAMBDA made : MkdirAll(made, p)), Ok(fs), paths)

\* Mutant of CreateFolders: each folder is removed when it is its turn.
RecreateOneByOne(fs, paths, isRecreate) ==
  FoldLeft(LAMBDA r, p :
             Then(Then(r, LAMBDA made : IF isRecreate THEN RemovePath(made, p) ELSE Ok(made)),
                  LAMBDA left : MkdirAll(left, p)),
           Ok(fs), paths)

CreateFolders(fs, paths, isRecreate) ==
  Then(IF isRecreate THEN RemoveAll(fs, paths) ELSE Ok(fs),
       LAMBDA left : MkdirEach(left, paths))

\* What the walk of Zip adds: an entry for each file, and none for a folder. The
\* entry of a plain file that is zipped itself has the name ".", which is <<>>.
EntriesToZip(fs, dir) ==
  [name \in {Rest(dir, f) : f \in {g \in Files(fs) : Under(dir, g)}} |-> fs.files[dir \o name]]

\* An archive that is in the folder is an entry of itself. It is empty when the walk
\* gets there, unless flushed: more has been written than the writer buffers. Then
\* the copy reads what it writes, and ends when the disk is full.
CopiesItself(fs, dir, to, flushed) ==
  flushed /\ Under(dir, to) /\ \E f \in Files(fs) \ {to} : Under(dir, f)

Unfinished == [kind |-> "unfinished"]

\* Zip, as ZipDir: the archive is created before the walk and stays when the walk fails.
ZipDir(fs, dir, to, flushed) ==
  Then(Then(MkdirAll(fs, Front(to)), LAMBDA made : Create(made, to, Empty)),
       LAMBDA made :
         IF dir \notin made.dirs \cup Files(made) THEN Err(Write(made, to, Archive(<<>>)))
         ELSE IF CopiesItself(made, dir, to, flushed) THEN Err(Write(made, to, Unfinished))
         ELSE Ok(Write(made, to, Archive(EntriesToZip(made, dir)))))

\* An entry of Unzip. An archive that is written over while it is read has lost the
\* checksum behind the entry.
Unpack(fs, zipFile, path, content) ==
  IF content.kind = "folder" THEN MkdirAll(fs, path)
  ELSE Then(MkdirAll(fs, Front(path)),
            LAMBDA made : IF path = zipFile THEN Err(Write(made, path, Empty))
                          ELSE Create(made, path, content))

\* Mutant of Unzip: all files go into the folder itself.
UnzipFlat(fs, zipFile, dir) ==
  IF zipFile \notin Files(fs) \/ fs.files[zipFile].kind # "zip" THEN Err(fs)
  ELSE LET entries == fs.files[zipFile].entries IN
       FoldLeft(LAMBDA r, n :
                  Then(r, LAMBDA made :
                            Unpack(made, zipFile, IF n = <<>> THEN dir ELSE Append(dir, Last(n)),
                                   entries[n])),
                MkdirAll(fs, dir), SetToSeq(DOMAIN entries))

\* Unzip
Unzip(fs, zipFile, dir) ==
  IF zipFile \notin Files(fs) \/ fs.files[zipFile].kind # "zip" THEN Err(fs)
  ELSE LET entries == fs.files[zipFile].entries IN
       FoldLeft(LAMBDA r, n :
                  Then(r, LAMBDA made : Unpack(made, zipFile, dir \o n, entries[n])),
                MkdirAll(fs, dir), SetToSeq(DOMAIN entries))

\* os.ReadDir: the entries of a folder, in one order.
EntriesOf(fs, dir) ==
  SetToSeq({p \in fs.dirs \cup Files(fs) : Len(p) = Len(dir) + 1 /\ Under(dir, p)})

\* Mutant of SearchFiles: what a folder inside holds replaces what was found.
SearchForgetting(fs, dir, pattern, recurse, includeDirPath) ==
  LET found[d \in fs.dirs] ==
        FoldLeft(LAMBDA results, p :
          IF p \in fs.dirs
            THEN IF recurse THEN found[p] ELSE results
            ELSE IF Last(p) \in pattern.matches
              THEN Append(results, IF includeDirPath THEN p ELSE <<Last(p)>>)
              ELSE results,
          <<>>, EntriesOf(fs, d))
  IN  IF pattern.valid /\ dir \in fs.dirs THEN [files |-> found[dir], err |-> FALSE]
      ELSE [files |-> <<>>, err |-> TRUE]

\* SearchFiles, with a pattern that regexp.Compile rejects or the names it matches;
\* a search of a folder inside fails for neither reason. A bare name is a path of
\* one name.
SearchFiles(fs, dir, pattern, recurse, includeDirPath) ==
  LET found[d \in fs.dirs] ==
        FoldLeft(LAMBDA results, p :
          IF p \in fs.dirs
            THEN IF recurse THEN results \o found[p] ELSE results
            ELSE IF Last(p) \in pattern.matches
              THEN Append(results, IF includeDirPath THEN p ELSE <<Last(p)>>)
              ELSE results,
          <<>>, EntriesOf(fs, d))
  IN  IF pattern.valid /\ dir \in fs.dirs THEN [files |-> found[dir], err |-> FALSE]
      ELSE [files |-> <<>>, err |-> TRUE]

-----------------------------------------------------------------------------
(* Properties *)

Keeps(r, fs, f) == f \in Files(r.fs) /\ r.fs.files[f] = fs.files[f]

\* A copy that succeeds is what the source was, and a copy that fails has not
\* touched the source or any other file: the destination alone may be lost.
CopyIsFaithful(fs, src, des) ==
  LET r == CopyFile(fs, src, des) IN
  /\ \A f \in Files(fs) \ {des} : f \in Files(r.fs) /\ r.fs.files[f] = fs.files[f]
  /\ ~r.err /\ src # des => des \in Files(r.fs) /\ r.fs.files[des] = fs.files[src]
  /\ src \in Files(fs) /\ r.err =>
       des \in fs.dirs \/ \E p \in Prefixes(Front(des)) : p \in Files(fs)

\* The folders are there if no error is returned, and if they are recreated nothing
\* is in them but one another, even if one of them is inside another, in any order.
\* An error comes from a file above one of them, or one at its place that is not
\* removed; and whether the call fails or not, no file is lost but those below
\* folders that are recreated.
FoldersAreFresh(fs, paths, isRecreate) ==
  LET r == CreateFolders(fs, paths, isRecreate) IN
  /\ \A f \in Files(fs) : Keeps(r, fs, f) \/ (isRecreate /\ \E p \in Range(paths) : Under(p, f))
  /\ r.err => \E p \in Range(paths) : \E q \in Prefixes(p) :
                q \in Files(fs) /\ (isRecreate => q # p)
  /\ ~r.err =>
       /\ Range(paths) \subseteq r.fs.dirs
       /\ \A p \in Range(paths) : isRecreate =>
            /\ \A f \in Files(r.fs) : ~Under(p, f)
            /\ \A d \in r.fs.dirs : Under(p, d) => \E q \in Range(paths) : Under(d, q)

\* Zip changes no file but the archive, and zips a folder unless the archive has no
\* place or copies itself. Unzip, if it succeeds, puts every file of the folder at
\* its place below target and leaves other files alone; it succeeds if nothing is
\* at target and no file above it.
ZipKeepsFiles(fs, dir, to, target, flushed) ==
  LET z      == ZipDir(fs, dir, to, flushed)
      u      == Unzip(z.fs, to, target)
      walked == {f \in Files(z.fs) : Under(dir, f)}
      Moved(f) == target \o Rest(dir, f)
  IN
  /\ \A f \in Files(fs) \ {to} : Keeps(z, fs, f)
  /\ dir \in fs.dirs /\ to \notin fs.dirs /\ Front(to) \in fs.dirs =>
       ~z.err \/ (flushed /\ Under(dir, to))
  /\ ~z.err /\ ~u.err =>
       /\ \A f \in walked \ {to} :
            Moved(f) \in Files(u.fs) /\ u.fs.files[Moved(f)] = fs.files[f]
       /\ \A f \in Files(z.fs) \ {Moved(g) : g \in walked} : Keeps(u, z.fs, f)
  /\ /\ ~z.err /\ dir \in z.fs.dirs
     /\ \A p \in z.fs.dirs \cup Files(z.fs) : ~Under(target, p)
     /\ \A p \in Prefixes(target) : p \notin Files(z.fs)
     => ~u.err

\* Zip all files and folders in dir path: Unzip makes the folders again.
ZipKeepsFolders(fs, dir, to, target, flushed) ==
  LET z == ZipDir(fs, dir, to, flushed)
      u == Unzip(z.fs, to, target)
  IN  ~z.err /\ ~u.err =>
        \A d \in fs.dirs : Under(dir, d) => target \o Rest(dir, d) \in u.fs.dirs

\* A search of a folder finds each file of a matching name once, at any depth if it
\* recurses; without the paths it answers with the names of the same files.
SearchFindsAll(fs, dir, pattern, recurse, includeDirPath) ==
  LET r     == SearchFiles(fs, dir, pattern, recurse, includeDirPath)
      found == SearchFiles(fs, dir, pattern, recurse, TRUE).files
  IN
  pattern.valid /\ dir \in fs.dirs =>
    /\ ~r.err
    /\ IsInjective(found)
    /\ Range(found) = {f \in Files(fs) :
                         /\ Under(dir, f) /\ Last(f) \in pattern.matches
                         /\ recurse \/ Len(f) = Len(dir) + 1}
    /\ r.files = IF includeDirPath THEN found ELSE [i \in DOMAIN found |-> <<Last(found[i])>>]
=============================================================================
