---------------------------- MODULE VaultProofs ----------------------------
(***************************************************************************)
(* For any number of requests, paths and uploads, with failing remotes and *)
(* restarts: a remote object has one owner unless a rename has copied its  *)
(* metadata, what a PUT has been answered is there, and metadata without   *)
(* its object is explained.                                                *)
(***************************************************************************)
EXTENDS Vault, SequenceTheorems, TLAPS

Path == Seq(STRING) \ {Root}

-----------------------------------------------------------------------------
(* Paths *)

\* Being below is to begin with the same names.
LEMMA UnderNames ==
    ASSUME NEW d \in Seq(STRING), NEW p \in Seq(STRING)
    PROVE  Under(d, p) <=> Len(d) <= Len(p) /\ \A i \in 1..Len(d) : d[i] = p[i]
<1>1. CASE Len(d) <= Len(p)
  <2>1. /\ Len(SubSeq(d, 1, Len(d))) = Len(d) /\ Len(SubSeq(p, 1, Len(d))) = Len(d)
        /\ \A i \in 1..Len(d) : /\ SubSeq(d, 1, Len(d))[i] = d[i]
                                /\ SubSeq(p, 1, Len(d))[i] = p[i]
        /\ SubSeq(d, 1, Len(d)) \in Seq(STRING) /\ SubSeq(p, 1, Len(d)) \in Seq(STRING)
    BY <1>1
  <2>2. (\A i \in 1..Len(d) : d[i] = p[i]) => SubSeq(d, 1, Len(d)) = SubSeq(p, 1, Len(d))
    BY <2>1, SeqEqual
  <2> QED
    BY <1>1, <2>1, <2>2 DEF Under, IsPrefix
<1>2. CASE ~(Len(d) <= Len(p))
  BY <1>2 DEF Under, IsPrefix
<1> QED
  BY <1>1, <1>2

\* What is below something below d is below d.
LEMMA UnderTransitive ==
    ASSUME NEW c \in Seq(STRING), NEW d \in Seq(STRING), NEW p \in Seq(STRING),
           Under(c, d), Under(d, p)
    PROVE  Under(c, p)
BY UnderNames

\* Paths of one length are apart or the same.
LEMMA UnderSameLength ==
    ASSUME NEW d \in Seq(STRING), NEW p \in Seq(STRING), Under(d, p), Len(p) <= Len(d)
    PROVE  d = p
<1>1. Len(d) = Len(p) /\ \A i \in 1..Len(d) : d[i] = p[i]
  BY UnderNames
<1> QED
  BY <1>1, SeqEqual

\* The directories above a path are paths above it.
LEMMA AboveIt ==
    ASSUME NEW p \in Seq(STRING), NEW a \in Ancestors(p)
    PROVE  a \in Path /\ Under(a, p)
<1>1. PICK l \in 0..Len(p) : a = SubSeq(p, 1, l)
  BY DEF Ancestors, Prefixes
<1>2. a \in Seq(STRING) /\ Len(a) = l /\ \A i \in 1..l : a[i] = p[i]
  BY <1>1
<1>3. Under(a, p)
  BY <1>2, UnderNames
<1> QED
  BY <1>2, <1>3 DEF Ancestors, Path

-----------------------------------------------------------------------------
(* What the operations of LocalStorage make of a tree: it stays one, and    *)
(* its files go on having a remote object each of their own, but for those  *)
(* whose metadata was copied.                                               *)

\* The remote names that a tree records.
Owned(t) == {t.files[f] : f \in DOMAIN t.files}
OwnedIn(t, S) == {t.files[f] : f \in S \cap DOMAIN t.files}

\* Only what is in C has more owners than one.
Unique(t, C) ==
    \A f, g \in DOMAIN t.files :
        t.files[f] = t.files[g] => f = g \/ t.files[f] \in C

\* IsTree in its parts.
LEMMA TreeParts ==
    ASSUME NEW N, NEW t, IsTree(t, N)
    PROVE  /\ t.dirs \subseteq Path /\ DOMAIN t.files \subseteq Path
           /\ \A f \in DOMAIN t.files : t.files[f] \in N
           /\ Owned(t) \subseteq N
BY DEF IsTree, Path, Owned

\* A file saved under a name nobody has, that the path has, or that has been
\* copied.
LEMMA SaveFileTree ==
    ASSUME NEW N, NEW t, IsTree(t, N), NEW p \in Path, NEW n \in N, NEW C
    PROVE  /\ IsTree(SaveFile(t, p, n), N)
           /\ DOMAIN SaveFile(t, p, n) = {"dirs", "files"}
           /\ Owned(SaveFile(t, p, n)) \subseteq Owned(t) \cup {n}
           /\ Unique(t, C) /\ (n \notin Owned(t) \/ n \in C \/ (HasJson(t, p) /\ t.files[p] = n))
                => Unique(SaveFile(t, p, n), C)
<1> DEFINE u == SaveFile(t, p, n)
<1>1. /\ u.dirs = t.dirs \cup Ancestors(p) /\ DOMAIN u = {"dirs", "files"}
      /\ u.files = [q \in DOMAIN t.files \cup {p} |-> IF q = p THEN n ELSE t.files[q]]
  BY DEF SaveFile
<1>2. DOMAIN u.files = DOMAIN t.files \cup {p}
  BY <1>1
<1>3. \A q \in DOMAIN u.files : u.files[q] = IF q = p THEN n ELSE t.files[q]
  BY <1>1
<1> HIDE DEF u
<1>4. Ancestors(p) \subseteq Path
  BY AboveIt DEF Path
<1>5. IsTree(u, N)
  BY <1>1, <1>2, <1>3, <1>4, TreeParts DEF IsTree, Path
<1>6. Owned(u) \subseteq Owned(t) \cup {n}
  BY <1>2, <1>3 DEF Owned
<1>7. Unique(t, C) /\ (n \notin Owned(t) \/ n \in C \/ (HasJson(t, p) /\ t.files[p] = n))
        => Unique(u, C)
  BY <1>2, <1>3 DEF Owned, Unique, HasJson
<1> QED
  BY <1>1, <1>5, <1>6, <1>7 DEF u

\* MKCOL
LEMMA SaveDirTree ==
    ASSUME NEW N, NEW t, IsTree(t, N), NEW p \in Seq(STRING),
           DOMAIN t = {"dirs", "files"}
    PROVE  /\ IsTree(SaveDir(t, p), N)
           /\ SaveDir(t, p).files = t.files
           /\ DOMAIN SaveDir(t, p) = {"dirs", "files"}
<1>1. /\ SaveDir(t, p).dirs = t.dirs \cup Ancestors(p) \cup ({p} \ {Root})
      /\ SaveDir(t, p).files = t.files
      /\ DOMAIN SaveDir(t, p) = {"dirs", "files"}
  BY DEF SaveDir
<1> QED
  BY <1>1, AboveIt DEF IsTree, Path

\* Fewer files, fewer directories.
LEMMA Fewer ==
    ASSUME NEW N, NEW t, IsTree(t, N), NEW u, NEW S \in SUBSET DOMAIN t.files, NEW C,
           u.dirs \subseteq t.dirs, u.files = Restrict(t.files, S)
    PROVE  /\ IsTree(u, N) /\ Owned(u) \subseteq Owned(t)
           /\ Unique(t, C) => Unique(u, C)
<1>1. DOMAIN u.files = S /\ \A f \in S : u.files[f] = t.files[f]
  BY DEF Restrict
<1>2. u.files = [f \in S |-> t.files[f]]
  BY DEF Restrict
<1>3. IsTree(u, N)
  BY <1>1, <1>2 DEF IsTree
<1> QED
  BY <1>1, <1>3 DEF Owned, Unique

\* LocalStorage.RemoveAll, of a file, a directory or a path that is neither.
LEMMA RemoveAllTree ==
    ASSUME NEW N, NEW t, IsTree(t, N), DOMAIN t = {"dirs", "files"}, NEW p, NEW C
    PROVE  /\ IsTree(RemoveAll(t, p), N)
           /\ DOMAIN RemoveAll(t, p) = {"dirs", "files"}
           /\ Owned(RemoveAll(t, p)) \subseteq Owned(t)
           /\ Unique(t, C) => Unique(RemoveAll(t, p), C)
<1>1. CASE HasJson(t, p)
  <2>1. /\ RemoveAll(t, p).dirs = t.dirs
        /\ RemoveAll(t, p).files = Restrict(t.files, DOMAIN t.files \ {p})
        /\ DOMAIN RemoveAll(t, p) = {"dirs", "files"}
    BY <1>1 DEF RemoveAll, RemoveJson
  <2> QED
    BY <2>1, Fewer
<1>2. CASE ~HasJson(t, p) /\ p \in t.dirs
  <2> DEFINE S == {f \in DOMAIN t.files : ~Under(p, f)}
  <2>1. /\ RemoveAll(t, p).dirs \subseteq t.dirs
        /\ RemoveAll(t, p).files = Restrict(t.files, S)
        /\ DOMAIN RemoveAll(t, p) = {"dirs", "files"}
    BY <1>2 DEF RemoveAll, DropTree
  <2>2. S \in SUBSET DOMAIN t.files
    OBVIOUS
  <2> HIDE DEF S
  <2> QED
    BY <2>1, <2>2, Fewer
<1>3. CASE ~HasJson(t, p) /\ p \notin t.dirs
  <2>1. RemoveAll(t, p) = EmptyTree
    BY <1>3 DEF RemoveAll, HasJson
  <2>2. /\ EmptyTree.dirs = {} /\ DOMAIN EmptyTree = {"dirs", "files"}
        /\ DOMAIN EmptyTree.files = {} /\ EmptyTree.files \in [{} -> N]
    BY DEF EmptyTree
  <2> QED
    BY <2>1, <2>2 DEF IsTree, Owned, Unique
<1> QED
  BY <1>1, <1>2, <1>3

\* os.Rename of the JSON file: the name moves.
LEMMA RenameFileTree ==
    ASSUME NEW N, NEW t, IsTree(t, N), NEW from \in DOMAIN t.files, NEW to \in Path,
           NEW C
    PROVE  /\ IsTree(RenameFile(t, from, to), N)
           /\ DOMAIN RenameFile(t, from, to) = {"dirs", "files"}
           /\ Owned(RenameFile(t, from, to)) \subseteq Owned(t)
           /\ Unique(t, C) => Unique(RenameFile(t, from, to), C)
<1> DEFINE saved == SaveFile(t, to, t.files[from])
           S == DOMAIN saved.files \ {from}
           u == RenameFile(t, from, to)
<1>1. /\ saved.files = [q \in DOMAIN t.files \cup {to} |->
                           IF q = to THEN t.files[from] ELSE t.files[q]]
      /\ DOMAIN saved = {"dirs", "files"}
  BY DEF SaveFile
<1>2. IsTree(saved, N)
  BY TreeParts, SaveFileTree
<1>3. u.dirs = saved.dirs /\ u.files = Restrict(saved.files, S) /\ DOMAIN u = {"dirs", "files"}
  <2> HIDE DEF saved
  <2>1. u = RemoveJson(saved, from)
    BY DEF RenameFile, saved
  <2> QED
    BY <1>1, <2>1 DEF RemoveJson
<1>4. /\ DOMAIN u.files = S
      /\ \A q \in S : u.files[q] = IF q = to THEN t.files[from] ELSE t.files[q]
  <2> HIDE DEF u
  <2>1. DOMAIN u.files = S /\ \A q \in S : u.files[q] = saved.files[q]
    BY <1>3 DEF Restrict
  <2> QED
    BY <1>1, <2>1
<1>5. S \subseteq (DOMAIN t.files \cup {to}) \ {from}
  BY <1>1
<1>6. IsTree(u, N)
  <2> HIDE DEF u, saved
  <2>1. S \in SUBSET DOMAIN saved.files
    OBVIOUS
  <2> QED
    BY <1>2, <1>3, <2>1, Fewer
<1> HIDE DEF u, S, saved
<1>7. Owned(u) \subseteq Owned(t)
  BY <1>4, <1>5 DEF Owned
<1>8. Unique(t, C) => Unique(u, C)
  BY <1>4, <1>5 DEF Unique
<1> QED
  BY <1>3, <1>6, <1>7, <1>8 DEF u

\* A path below a directory that is moved is one below the new directory.
LEMMA MovedPath ==
    ASSUME NEW p \in Seq(STRING), NEW from \in Seq(STRING), NEW to \in Path
    PROVE  Move(p, from, to) \in Path
<1>1. SubSeq(p, Len(from) + 1, Len(p)) \in Seq(STRING)
  OBVIOUS
<1>2. \A q \in Seq(STRING) : to \o q \in Seq(STRING) /\ Len(to \o q) = Len(to) + Len(q)
  BY DEF Path
<1>3. Len(to) > 0
  BY DEF Path, Root
<1>4. \A q \in Seq(STRING) : to \o q # Root
  BY <1>2, <1>3 DEF Root
<1> QED
  BY <1>1, <1>2, <1>4 DEF Move, Path

\* os.Rename of a directory: what is moved and what stays keep their objects.
LEMMA RenameDirTree ==
    ASSUME NEW N, NEW t, IsTree(t, N), NEW from \in Path, NEW to \in Path, NEW C
    PROVE  /\ IsTree(RenameDir(t, from, to), N)
           /\ DOMAIN RenameDir(t, from, to) = {"dirs", "files"}
           /\ Owned(RenameDir(t, from, to)) \subseteq Owned(t)
           /\ Unique(t, C) => Unique(RenameDir(t, from, to), C)
<1> DEFINE moved == {f \in DOMAIN t.files : Under(from, f)}
           stays == {f \in DOMAIN t.files : ~Under(from, f)}
           source(f) == CHOOSE g \in moved : Move(g, from, to) = f
           image == {Move(g, from, to) : g \in moved}
           dirs == {d \in t.dirs : ~Under(from, d)} \cup Ancestors(to)
                     \cup {Move(d, from, to) : d \in {e \in t.dirs : Under(from, e)}}
           u == RenameDir(t, from, to)
<1>1. /\ u.dirs = dirs /\ DOMAIN u = {"dirs", "files"}
      /\ u.files = [f \in image \cup stays |->
                       IF f \in image THEN t.files[source(f)] ELSE t.files[f]]
  BY DEF RenameDir, DropTree, Restrict
<1>2. DOMAIN u.files = image \cup stays
  BY <1>1
<1>3. \A f \in image : source(f) \in moved /\ Move(source(f), from, to) = f
  OBVIOUS
<1>4. moved \subseteq DOMAIN t.files /\ stays \subseteq DOMAIN t.files /\ moved \cap stays = {}
  OBVIOUS
<1>5. image \cup stays \subseteq Path /\ dirs \subseteq Path
  <2>1. \A p \in Path : Move(p, from, to) \in Path
    BY MovedPath DEF Path
  <2> QED
    BY <2>1, TreeParts, AboveIt DEF Path
<1>6. /\ \A f \in image : u.files[f] = t.files[source(f)]
      /\ \A f \in stays \ image : u.files[f] = t.files[f]
  BY <1>1
<1> HIDE DEF moved, stays, source, image, dirs, u
<1>7. IsTree(u, N)
  <2>1. \A f \in DOMAIN u.files : u.files[f] \in N
    BY <1>2, <1>3, <1>4, <1>6, TreeParts
  <2>2. u.files = [f \in DOMAIN u.files |-> u.files[f]]
    BY <1>1, <1>2
  <2> QED
    BY <1>1, <1>2, <1>5, <2>1, <2>2 DEF IsTree, Path
<1>8. Owned(u) \subseteq Owned(t)
  BY <1>2, <1>3, <1>4, <1>6 DEF Owned
<1>9. Unique(t, C) => Unique(u, C)
  <2> SUFFICES ASSUME Unique(t, C), NEW f \in DOMAIN u.files, NEW g \in DOMAIN u.files,
                      u.files[f] = u.files[g]
               PROVE  f = g \/ u.files[f] \in C
    BY DEF Unique
  <2>1. CASE f \in image /\ g \in image
    <3>1. source(f) = source(g) \/ t.files[source(f)] \in C
      BY <2>1, <1>3, <1>4, <1>6 DEF Unique
    <3> QED
      BY <2>1, <3>1, <1>3, <1>6
  <2>2. CASE f \in image /\ g \notin image
    BY <2>2, <1>2, <1>3, <1>4, <1>6 DEF Unique
  <2>3. CASE f \notin image /\ g \in image
    BY <2>3, <1>2, <1>3, <1>4, <1>6 DEF Unique
  <2>4. CASE f \notin image /\ g \notin image
    BY <2>4, <1>2, <1>4, <1>6 DEF Unique
  <2> QED
    BY <2>1, <2>2, <2>3, <2>4
<1> QED
  BY <1>1, <1>7, <1>8, <1>9 DEF u

\* The directories of a destination.
LEMMA MakeParentsTree ==
    ASSUME NEW N, NEW t, IsTree(t, N), NEW to \in Path, DOMAIN t = {"dirs", "files"}
    PROVE  /\ IsTree(MakeParents(t, to), N)
           /\ MakeParents(t, to).files = t.files
           /\ DOMAIN MakeParents(t, to) = {"dirs", "files"}
<1>1. /\ MakeParents(t, to).dirs = t.dirs \cup Ancestors(to)
      /\ MakeParents(t, to).files = t.files
      /\ DOMAIN MakeParents(t, to) = {"dirs", "files"}
  BY DEF MakeParents
<1> QED
  BY <1>1, AboveIt DEF IsTree, Path

\* What copyDir makes of a part: only what it copies gets a second owner.
LEMMA CopyTreeTree ==
    ASSUME NEW N, NEW t, IsTree(t, N), NEW from \in Path, NEW to \in Path,
           NEW S \in Parts(t, from, to), NEW u, u = CopyTree(t, from, to, S),
           NEW C
    PROVE  /\ IsTree(u, N) /\ DOMAIN u = {"dirs", "files"}
           /\ Owned(u) \subseteq Owned(t)
           /\ Unique(t, C) => Unique(u, C \cup OwnedIn(t, S))
<1> DEFINE files == S \cap DOMAIN t.files
           source(f) == CHOOSE g \in files : Move(g, from, to) = f
           image == {Move(g, from, to) : g \in files}
           D == C \cup OwnedIn(t, S)
           dirs == t.dirs \cup (IF S = {} THEN {} ELSE Ancestors(to))
                     \cup {Move(d, from, to) : d \in S \cap t.dirs}
<1>1. /\ u.dirs = dirs /\ DOMAIN u = {"dirs", "files"}
      /\ u.files = [f \in image \cup DOMAIN t.files |->
                       IF f \in image THEN t.files[source(f)] ELSE t.files[f]]
  BY DEF CopyTree
<1>2. DOMAIN u.files = image \cup DOMAIN t.files
  BY <1>1
<1>3. \A f \in image : source(f) \in files /\ Move(source(f), from, to) = f
  OBVIOUS
<1>4. files \subseteq DOMAIN t.files
  OBVIOUS
<1>5. image \cup DOMAIN t.files \subseteq Path /\ dirs \subseteq Path
  <2>1. \A p \in Path : Move(p, from, to) \in Path
    BY MovedPath DEF Path
  <2> QED
    BY <2>1, TreeParts, AboveIt DEF Path
<1>6. /\ \A f \in image : u.files[f] = t.files[source(f)]
      /\ \A f \in DOMAIN t.files \ image : u.files[f] = t.files[f]
  BY <1>1
<1>7. \A f \in files : t.files[f] \in D
  BY DEF OwnedIn
<1>8. C \subseteq D
  OBVIOUS
<1> HIDE DEF files, source, image, dirs, D
<1>9. IsTree(u, N)
  <2>1. \A f \in DOMAIN u.files : u.files[f] \in N
    BY <1>2, <1>3, <1>4, <1>6, TreeParts
  <2>2. u.files = [f \in DOMAIN u.files |-> u.files[f]]
    BY <1>1, <1>2
  <2> QED
    BY <1>1, <1>2, <1>5, <2>1, <2>2 DEF IsTree, Path
<1>10. Owned(u) \subseteq Owned(t)
  BY <1>2, <1>3, <1>4, <1>6 DEF Owned
<1>11. Unique(t, C) => Unique(u, D)
  <2> SUFFICES ASSUME Unique(t, C), NEW f \in DOMAIN u.files, NEW g \in DOMAIN u.files,
                      u.files[f] = u.files[g]
               PROVE  f = g \/ u.files[f] \in D
    BY DEF Unique
  <2>1. CASE f \in image \/ g \in image
    BY <2>1, <1>3, <1>6, <1>7
  <2>2. CASE f \notin image /\ g \notin image
    BY <2>2, <1>2, <1>6, <1>8 DEF Unique
  <2> QED
    BY <2>1, <2>2
<1> QED
  BY <1>1, <1>9, <1>10, <1>11 DEF D

\* Drawing a name makes the names more.
LEMMA Ranges ==
    ASSUME NEW n \in Nat, NEW m \in {n, n + 1}
    PROVE  1..(n - 1) \subseteq 1..(m - 1)
OBVIOUS

-----------------------------------------------------------------------------
(* Requests *)

\* A MOVE, and where a rename that copies is when the copy is made.
Moving(q) == q.op = "move" \/ q.pc \in RenamePcs
Late == {"name", "rewrite", "remove"}

\* A tree is a record; an upload has a path that can be a file and a name it
\* has drawn, a MOVE a destination that can be written, and what it writes
\* back a name that was there.
Shape ==
    /\ DOMAIN tree = {"dirs", "files"}
    /\ \A r \in Procs :
         /\ InFlight(r) => req[r].path # Root /\ req[r].name # 0
         /\ req[r].pc = "rewrite" => req[r].name # 0
         /\ Moving(req[r]) => req[r].to # Root
         /\ req[r].copying => req[r].pc \in Late

\* No other request knows of the object of an upload.
NamesApart == \A r, s \in Procs : InFlight(r) /\ s # r => req[s].name # req[r].name

\* Each object of the tree, and of an upload under way, is one path's only, if
\* its metadata was not copied.
VInv == TypeOK /\ Shape /\ UniqueOwner /\ NamesApart

-----------------------------------------------------------------------------
\* The parts of the type invariant that an action changes together.
ReqType == req \in [Procs -> Request]
TreeType == IsTree(tree, Names) /\ DOMAIN tree = {"dirs", "files"}
RestType ==
    /\ usage \in Usages /\ nextName \in Nat \ {0} /\ objs \subseteq Names
    /\ placeholders \subseteq Seq(STRING) /\ stranded \subseteq Names
    /\ copied \subseteq Names

\* What requests know does not depend on the tree.
ReqShape(r) ==
    /\ InFlight(r) => req[r].path # Root /\ req[r].name # 0
    /\ req[r].pc = "rewrite" => req[r].name # 0
    /\ Moving(req[r]) => req[r].to # Root
    /\ req[r].copying => req[r].pc \in Late

\* Clients only use paths.
LEMMA PathTypes ==
    ASSUME TypeOK
    PROVE  /\ FilePaths \subseteq Path /\ DirPaths \subseteq Seq(STRING)
           /\ Paths \subseteq Seq(STRING) /\ Root \in Seq(STRING)
<1>1. Root \in Seq(STRING)
  BY DEF Root
<1> QED
  BY <1>1, PathAssumption, UsageAssumption DEF TypeOK, Path, DirPaths, Paths

\* What a walk finds in a directory.
LEMMA WalkFinds ==
    ASSUME TypeOK, NEW d
    PROVE  /\ ReadDirs(tree, d) \subseteq Seq(STRING) /\ ReadFiles(tree, d) \subseteq Names
           /\ ReadFiles(tree, d) \subseteq Owned(tree)
<1>1. tree.dirs \subseteq Seq(STRING) /\ \A f \in DOMAIN tree.files : tree.files[f] \in Names
  BY TreeParts DEF TypeOK, Path
<1> QED
  BY <1>1 DEF ReadDirs, ReadFiles, Children, Owned

\* What is stranded is an object of the tree.
LEMMA StrandsTypes ==
    ASSUME TypeOK, Strands, nextName' = nextName
    PROVE  stranded' \subseteq Names'
<1>1. Exposed \subseteq Names
  BY TreeParts DEF TypeOK, Exposed
<1> QED
  BY <1>1 DEF TypeOK, Strands, Names

-----------------------------------------------------------------------------
\* The changes that steps make to a request.
Labels == {"idle", "upload", "save", "get", "delete", "walk", "drop"} \cup RenamePcs

\* A goroutine that serves nothing knows of nothing.
LEMMA IdleFields ==
    /\ Idle \in Request /\ Idle.pc = "idle" /\ Idle.op = "none" /\ Idle.to = Root
    /\ Idle.objs = {} /\ Idle.dirs = {} /\ Idle.name = 0 /\ ~Idle.copying
    /\ ~Moving(Idle)
BY DEF Idle, Request, Root, Moving, RenamePcs

\* A step to another label changes nothing else of a request.
LEMMA PcFields ==
    ASSUME NEW q \in Request, NEW l \in Labels
    PROVE  LET u == [q EXCEPT !.pc = l]
           IN  /\ u \in Request /\ u.pc = l /\ u.op = q.op /\ u.path = q.path
               /\ u.to = q.to /\ u.name = q.name /\ u.objs = q.objs /\ u.dirs = q.dirs
               /\ u.copying = q.copying
BY DEF Request, Labels

\* GetFile notes the object it is going to delete,
LEMMA NameFields ==
    ASSUME NEW q \in Request, NEW n \in Names
    PROVE  LET u == [q EXCEPT !.pc = "delete", !.name = n]
           IN  /\ u \in Request /\ u.pc = "delete" /\ u.op = q.op /\ u.path = q.path
               /\ u.to = q.to /\ u.name = n /\ u.objs = q.objs /\ u.dirs = q.dirs
               /\ u.copying = q.copying
BY DEF Request, RenamePcs

\* ReadName the one it is going to write back.
LEMMA ReadFields ==
    ASSUME NEW q \in Request, NEW n \in Names
    PROVE  LET u == [q EXCEPT !.pc = "rewrite", !.name = n]
           IN  /\ u \in Request /\ u.pc = "rewrite" /\ u.op = q.op /\ u.path = q.path
               /\ u.to = q.to /\ u.name = n /\ u.objs = q.objs /\ u.dirs = q.dirs
               /\ u.copying = q.copying
BY DEF Request, RenamePcs

\* CopyFile notes that it has copied.
LEMMA CopyFields ==
    ASSUME NEW q \in Request
    PROVE  LET u == [q EXCEPT !.pc = "name", !.copying = TRUE]
           IN  /\ u \in Request /\ u.pc = "name" /\ u.op = q.op /\ u.path = q.path
               /\ u.to = q.to /\ u.name = q.name /\ u.objs = q.objs /\ u.dirs = q.dirs
               /\ u.copying
BY DEF Request, RenamePcs

\* GetDir notes the directory it is going to read.
LEMMA DirFields ==
    ASSUME NEW q \in Request
    PROVE  LET u == [q EXCEPT !.pc = "walk", !.dirs = {q.to}]
           IN  /\ u \in Request /\ u.pc = "walk" /\ u.op = q.op /\ u.path = q.path
               /\ u.to = q.to /\ u.objs = q.objs /\ u.dirs = {q.to}
               /\ u.name = q.name /\ u.copying = q.copying
BY DEF Request

\* A change that starts no upload and makes nothing of the destination.
Keeps(r, q) ==
    /\ q \in Request
    /\ q.pc \in {"upload", "save"} =>
         InFlight(r) /\ q.name = req[r].name /\ q.path = req[r].path
    /\ Moving(q) =>
         /\ q.to # Root /\ Moving(req[r])
         /\ q.path = req[r].path /\ q.to = req[r].to
    /\ q.pc # "idle" => req[r].pc # "idle" /\ q.path = req[r].path /\ q.to = req[r].to
    /\ q.objs \subseteq req[r].objs \cup Owned(tree)
    /\ q.pc \in {"delete", "rewrite"} => q.name \in Owned(tree)
    /\ q.name \in Owned(tree) \cup {0, req[r].name}
    /\ q.copying => q.pc \in Late

ReqKept(r) ==
    /\ ReqType' /\ \A s \in Procs : ReqShape(s)'
    /\ \A s \in Procs : InFlight(s)' => InFlight(s) /\ req'[s].name = req[s].name
    /\ \A s \in Procs : req'[s].name \in Owned(tree) \cup {0, req[s].name}
    /\ \E q : Keeps(r, q) /\ req' = [req EXCEPT ![r] = q]

\* Such a change of one request keeps all requests in their type.
LEMMA Update ==
    ASSUME TypeOK, Shape, Names' = Names, NEW r \in Procs, NEW q, Keeps(r, q),
           req' = [req EXCEPT ![r] = q]
    PROVE  ReqKept(r)
<1>1. req \in [Procs -> Request] /\ Request' = Request
  BY DEF TypeOK, Request
<1>2. req' \in [Procs -> Request]
  BY <1>1 DEF Keeps
<1>3. req'[r] = q /\ \A s \in Procs \ {r} : req'[s] = req[s]
  BY <1>1
<1>4. \A s \in Procs : InFlight(s)' => /\ InFlight(s) /\ req'[s].name = req[s].name
                                       /\ req'[s].path = req[s].path
  BY <1>3 DEF InFlight, Keeps
<1>5. \A s \in Procs : ReqShape(s)'
  <2> SUFFICES ASSUME NEW s \in Procs PROVE ReqShape(s)'
    OBVIOUS
  <2>1. InFlight(s)' => req'[s].path # Root /\ req'[s].name # 0
    BY <1>4 DEF Shape
  <2>2. /\ Moving(req'[s]) => req'[s].to # Root
        /\ req'[s].copying => req'[s].pc \in Late
    BY <1>3 DEF Shape, Keeps
  <2>3. req'[s].pc = "rewrite" => req'[s].name # 0
    <3>1. 0 \notin Owned(tree)
      BY TreeParts DEF TypeOK, Names
    <3> QED
      BY <1>3, <3>1 DEF Shape, Keeps
  <2> QED
    BY <2>1, <2>2, <2>3 DEF ReqShape, Moving
<1>6. \A s \in Procs : req'[s].name \in Owned(tree) \cup {0, req[s].name}
  BY <1>3 DEF Keeps
<1> QED
  BY <1>1, <1>2, <1>4, <1>5, <1>6 DEF ReqKept, ReqType

\* Moving on inside a request, and answering it.
LEMMA Moves ==
    ASSUME TypeOK, Shape, NEW r \in Procs, NEW l \in Labels \ {"delete", "rewrite"},
           req[r].pc # "idle", l \in {"upload", "save"} => InFlight(r),
           l \in RenamePcs => Moving(req[r]), req[r].pc \in Late => l \in Late
    PROVE  Keeps(r, [req[r] EXCEPT !.pc = l])
<1>1. req[r] \in Request
  BY DEF TypeOK
<1>2. Moving(req[r]) => req[r].to # Root
  BY DEF Shape
<1>3. req[r].copying => l \in Late
  BY DEF Shape
<1> DEFINE q == [req[r] EXCEPT !.pc = l]
<1>4. /\ q \in Request /\ q.pc = l /\ q.op = req[r].op /\ q.path = req[r].path
      /\ q.to = req[r].to /\ q.name = req[r].name /\ q.objs = req[r].objs
      /\ q.copying = req[r].copying
  BY <1>1, PcFields
<1> HIDE DEF q
<1>5. Moving(q) => Moving(req[r])
  BY <1>4 DEF Moving
<1>6. Keeps(r, q)
  BY <1>2, <1>3, <1>4, <1>5 DEF Keeps
<1> QED
  BY <1>6 DEF q

\* recursiveRemoteDelete changes what it has still to read and to delete.
LEMMA Walking ==
    ASSUME NEW r \in Procs, req[r] \in Request, req[r].pc = "walk", ~req[r].copying,
           Moving(req[r]) => req[r].to # Root,
           NEW D \in SUBSET Seq(STRING), NEW O \in SUBSET Names,
           O \subseteq req[r].objs \cup Owned(tree)
    PROVE  Keeps(r, [req[r] EXCEPT !.dirs = D, !.objs = O])
<1> DEFINE q == [req[r] EXCEPT !.dirs = D, !.objs = O]
<1>1. /\ q \in Request /\ q.pc = "walk" /\ q.op = req[r].op /\ q.to = req[r].to
      /\ q.path = req[r].path /\ q.objs = O /\ q.name = req[r].name /\ ~q.copying
  BY DEF Request
<1>2. Keeps(r, q)
  <2> HIDE DEF q
  <2> QED
    BY <1>1 DEF Keeps, Moving
<1> QED
  BY <1>2

\* An answered request is forgotten.
LEMMA Answers ==
    ASSUME TypeOK, NEW r \in Procs
    PROVE  Keeps(r, Idle)
BY IdleFields DEF Keeps

\* What all steps of a rename have in common.
LEMMA RenameFacts ==
    ASSUME req \in [Procs -> Request], NEW r \in Procs, Renaming(r)
    PROVE  /\ usage' = usage /\ nextName' = nextName /\ Names' = Names /\ objs' = objs
           /\ Strands /\ copied \subseteq copied' /\ req[r].pc \in RenamePcs
           /\ placeholders' \subseteq placeholders \cup {req[r].to}
<1>1. /\ usage' = usage /\ nextName' = nextName /\ Names' = Names /\ objs' = objs /\ Strands
  BY DEF Renaming, RenameEntry, RenameRefused, CopyFile, CopyDir, ReadName, WriteName,
         RemoveSource, RenameFrame, Names
<1>2. req[r].pc \in RenamePcs /\ copied \subseteq copied'
  BY DEF Renaming, RenameEntry, RenameRefused, CopyFile, CopyDir, ReadName, WriteName,
         RemoveSource, At, RenamePcs
<1>3. placeholders' \subseteq placeholders \cup {req[r].to}
  BY DEF Renaming, RenameEntry, RenameRefused, CopyFile, CopyDir, ReadName, WriteName,
         RemoveSource, RenameFails, NotRenamed, Renamed
<1> QED
  BY <1>1, <1>2, <1>3

\* Where a step of a rename leads.
RenameLeads(r) ==
    \/ Finish(r)
    \/ \E l \in {"name", "copyfile", "copydir"} :
         /\ At(r, "rename") /\ Goto(r, l)
         /\ IF l = "copydir" THEN req[r].path \in tree.dirs ELSE HasJson(tree, req[r].path)
    \/ /\ At(r, "copyfile") /\ HasJson(tree, req[r].path)
       /\ req' = [req EXCEPT ![r].pc = "name", ![r].copying = TRUE]
    \/ /\ At(r, "name") /\ HasJson(tree, req[r].to)
       /\ req' = [req EXCEPT ![r].pc = "rewrite", ![r].name = tree.files[req[r].to]]
    \/ At(r, "copydir") /\ req[r].path \in tree.dirs /\ Goto(r, "remove")
    \/ (At(r, "name") \/ At(r, "rewrite")) /\ req[r].copying /\ Goto(r, "remove")

\* So it does.
LEMMA RenameGoesOn ==
    ASSUME NEW r \in Procs, Renaming(r)
    PROVE  RenameLeads(r)
<1>1. CASE RenameEntry(r)
  BY <1>1 DEF RenameEntry, RenameFails, RenameLeads
<1>2. CASE RenameRefused(r)
  <2>1. CASE HasJson(tree, req[r].path)
    BY <1>2, <2>1 DEF RenameRefused, RenameLeads
  <2>2. CASE ~HasJson(tree, req[r].path)
    BY <1>2, <2>2 DEF RenameRefused, RenameLeads, CanRename
  <2> QED
    BY <2>1, <2>2
<1>3. CASE CopyFile(r)
  BY <1>3 DEF CopyFile, RenameFails, RenameLeads
<1>4. CASE CopyDir(r)
  BY <1>4 DEF CopyDir, RenameFails, RenameLeads
<1>5. CASE ReadName(r)
  BY <1>5 DEF ReadName, NotRenamed, RenameFails, RenameLeads
<1>6. CASE WriteName(r)
  BY <1>6 DEF WriteName, Renamed, NotRenamed, RenameFails, RenameLeads
<1>7. CASE RemoveSource(r)
  BY <1>7 DEF RemoveSource, RenameLeads
<1> QED
  BY <1>1, <1>2, <1>3, <1>4, <1>5, <1>6, <1>7 DEF Renaming

\* A rename goes on inside its request, or answers it.
LEMMA RenameKeeps ==
    ASSUME TypeOK, Shape, NEW r \in Procs, Renaming(r)
    PROVE  \E q : Keeps(r, q) /\ req' = [req EXCEPT ![r] = q]
<1>1. req \in [Procs -> Request] /\ req[r] \in Request /\ req[r].pc \in RenamePcs
  BY RenameFacts DEF TypeOK
<1>2. Moving(req[r]) /\ req[r].to # Root
  BY <1>1 DEF Moving, Shape
<1>3. CASE Finish(r)
  BY <1>3, Answers DEF Finish
<1>4. ASSUME NEW l \in {"name", "copyfile", "copydir"}, At(r, "rename"), Goto(r, l)
      PROVE  \E q : Keeps(r, q) /\ req' = [req EXCEPT ![r] = q]
  <2>1. Keeps(r, [req[r] EXCEPT !.pc = l])
    BY <1>2, <1>4, Moves DEF Labels, RenamePcs, At, Late
  <2> QED
    BY <1>4, <2>1 DEF Goto
<1>5. CASE (At(r, "copydir") \/ At(r, "name") \/ At(r, "rewrite")) /\ Goto(r, "remove")
  <2>1. Keeps(r, [req[r] EXCEPT !.pc = "remove"])
    BY <1>2, <1>5, Moves DEF Labels, RenamePcs, At, Late
  <2> QED
    BY <1>5, <2>1 DEF Goto
<1>6. CASE req' = [req EXCEPT ![r].pc = "name", ![r].copying = TRUE]
  <2> DEFINE q == [req[r] EXCEPT !.pc = "name", !.copying = TRUE]
  <2>1. /\ q \in Request /\ q.pc = "name" /\ q.op = req[r].op /\ q.path = req[r].path
        /\ q.to = req[r].to /\ q.name = req[r].name /\ q.objs = req[r].objs
    BY <1>1, CopyFields
  <2>2. req' = [req EXCEPT ![r] = q]
    BY <1>1, <1>6
  <2> HIDE DEF q
  <2>3. Keeps(r, q)
    BY <1>1, <1>2, <2>1 DEF Keeps, RenamePcs, Late
  <2> QED
    BY <2>2, <2>3
<1>7. CASE /\ HasJson(tree, req[r].to)
           /\ At(r, "name")
           /\ req' = [req EXCEPT ![r].pc = "rewrite", ![r].name = tree.files[req[r].to]]
  <2> DEFINE n == tree.files[req[r].to]
             q == [req[r] EXCEPT !.pc = "rewrite", !.name = n]
  <2>1. n \in Names /\ n \in Owned(tree)
    BY <1>7, TreeParts DEF HasJson, TypeOK, Owned
  <2>2. req' = [req EXCEPT ![r] = q]
    BY <1>1, <1>7
  <2> HIDE DEF n
  <2>3. /\ q \in Request /\ q.pc = "rewrite" /\ q.op = req[r].op /\ q.path = req[r].path
        /\ q.to = req[r].to /\ q.name = n /\ q.objs = req[r].objs
    BY <1>1, <2>1, ReadFields
  <2> HIDE DEF q
  <2>4. Keeps(r, q)
    BY <1>1, <1>2, <2>1, <2>3 DEF Keeps, RenamePcs, Late
  <2> QED
    BY <2>2, <2>4
<1> QED
  BY <1>3, <1>4, <1>5, <1>6, <1>7, RenameGoesOn DEF RenameLeads

\* Steps of a request that has begun keep the requests in their type.
LEMMA ReqStep ==
    ASSUME TypeOK, Shape, NEW r \in Procs, Proceed(r)
    PROVE  ReqKept(r)
<1>1. req \in [Procs -> Request] /\ req[r] \in Request
  BY DEF TypeOK
<1>0. Names' = Names
  BY <1>1, RenameFacts
  DEF Proceed, Stored, StoreFails, SaveMeta, GetFile, GetDir, GetNothing, DeleteFile,
      WalkDirs, WalkObjs, WalkEnds, DropMeta, store, Names
<1> USE DEF RenamePcs, Late
<1> SUFFICES \E q : Keeps(r, q) /\ req' = [req EXCEPT ![r] = q]
  BY <1>0, Update
<1>2. CASE Stored(r)
  <2>1. Keeps(r, [req[r] EXCEPT !.pc = "save"])
    BY <1>2, Moves DEF Stored, At, InFlight, Labels
  <2> QED
    BY <1>2, <2>1 DEF Stored, Goto
<1>3. CASE StoreFails(r) \/ SaveMeta(r)
  BY <1>3, Answers DEF StoreFails, SaveMeta, Finish
<1>4. CASE GetFile(r)
  <2>1. tree.files[Target(r)] \in Names /\ tree.files[Target(r)] \in Owned(tree)
    BY <1>4, TreeParts DEF GetFile, Get, HasJson, TypeOK, Owned
  <2>2. (Moving(req[r]) => req[r].to # Root) /\ req[r].pc = "get" /\ ~req[r].copying
    BY <1>4 DEF Shape, GetFile, At
  <2>3. Keeps(r, [req[r] EXCEPT !.pc = "delete", !.name = tree.files[Target(r)]])
    <3> DEFINE n == tree.files[Target(r)]
               q == [req[r] EXCEPT !.pc = "delete", !.name = n]
    <3> HIDE DEF n
    <3>1. /\ q \in Request /\ q.pc = "delete" /\ q.op = req[r].op /\ q.path = req[r].path
          /\ q.to = req[r].to /\ q.name = n /\ q.objs = req[r].objs
          /\ q.copying = req[r].copying
      BY <1>1, <2>1, NameFields DEF n
    <3> HIDE DEF q
    <3>2. Keeps(r, q)
      BY <2>1, <2>2, <3>1 DEF Keeps, Moving, n
    <3> QED
      BY <3>2 DEF q, n
  <2> QED
    BY <1>1, <1>4, <2>3 DEF GetFile
<1>5. CASE GetDir(r)
  <2>1. (Moving(req[r]) => req[r].to # Root) /\ req[r].pc = "get" /\ ~req[r].copying
    BY <1>5 DEF Shape, GetDir, At
  <2>2. Keeps(r, [req[r] EXCEPT !.pc = "walk", !.dirs = {Target(r)}])
    <3> DEFINE q == [req[r] EXCEPT !.pc = "walk", !.dirs = {req[r].to}]
    <3>1. /\ q \in Request /\ q.pc = "walk" /\ q.op = req[r].op /\ q.path = req[r].path
          /\ q.to = req[r].to /\ q.name = req[r].name /\ q.objs = req[r].objs
          /\ q.copying = req[r].copying
      BY <1>1, DirFields
    <3> HIDE DEF q
    <3>2. Keeps(r, q)
      BY <2>1, <3>1 DEF Keeps, Moving
    <3> QED
      BY <3>2 DEF q, Target
  <2> QED
    BY <1>1, <1>5, <2>2 DEF GetDir
<1>6. CASE DeleteFile(r) \/ WalkEnds(r)
  <2>1. Keeps(r, [req[r] EXCEPT !.pc = "drop"])
    BY <1>6, Moves DEF Labels, DeleteFile, WalkEnds, At
  <2> QED
    BY <1>6, <2>1 DEF DeleteFile, WalkEnds, Goto
<1>7. CASE WalkDirs(r)
  <2>1. PICK d \in req[r].dirs :
          req' = [req EXCEPT ![r].dirs = (@ \ {d}) \cup ReadDirs(tree, d),
                             ![r].objs = @ \cup ReadFiles(tree, d)]
    BY <1>7 DEF WalkDirs
  <2> DEFINE D == (req[r].dirs \ {d}) \cup ReadDirs(tree, d)
             O == req[r].objs \cup ReadFiles(tree, d)
  <2>2. /\ D \in SUBSET Seq(STRING) /\ O \in SUBSET Names
        /\ O \subseteq req[r].objs \cup Owned(tree)
    BY <1>1, WalkFinds DEF Request
  <2>3. req' = [req EXCEPT ![r] = [req[r] EXCEPT !.dirs = D, !.objs = O]]
    BY <1>1, <2>1
  <2> HIDE DEF D, O
  <2>4. Moving(req[r]) => req[r].to # Root
    BY DEF Shape
  <2>5. req[r].pc = "walk" /\ ~req[r].copying
    BY <1>7 DEF WalkDirs, At, Shape
  <2>6. Keeps(r, [req[r] EXCEPT !.dirs = D, !.objs = O])
    BY <1>1, <2>2, <2>4, <2>5, Walking
  <2> QED
    BY <2>3, <2>6
<1>8. CASE WalkObjs(r)
  <2>1. PICK n \in req[r].objs : req' = [req EXCEPT ![r].objs = @ \ {n}]
    BY <1>8 DEF WalkObjs
  <2> DEFINE D == req[r].dirs
             O == req[r].objs \ {n}
  <2>2. /\ D \in SUBSET Seq(STRING) /\ O \in SUBSET Names
        /\ O \subseteq req[r].objs \cup Owned(tree)
    BY <1>1 DEF Request
  <2>3. req' = [req EXCEPT ![r] = [req[r] EXCEPT !.dirs = D, !.objs = O]]
    <3>1. [req[r] EXCEPT !.dirs = D, !.objs = O] = [req[r] EXCEPT !.objs = O]
      BY <1>1 DEF Request
    <3> QED
      BY <1>1, <2>1, <3>1
  <2> HIDE DEF D, O
  <2>4. Moving(req[r]) => req[r].to # Root
    BY DEF Shape
  <2>5. req[r].pc = "walk" /\ ~req[r].copying
    BY <1>8 DEF WalkObjs, At, Shape
  <2>6. Keeps(r, [req[r] EXCEPT !.dirs = D, !.objs = O])
    BY <1>1, <2>2, <2>4, <2>5, Walking
  <2> QED
    BY <2>3, <2>6
<1>9. CASE GetNothing(r) \/ DropMeta(r)
  <2>1. CASE req[r].op = "move" /\ Goto(r, "rename")
    <3>1. Keeps(r, [req[r] EXCEPT !.pc = "rename"])
      BY <1>9, <2>1, Moves DEF Labels, GetNothing, DropMeta, At, Moving
    <3> QED
      BY <2>1, <3>1 DEF Goto
  <2>2. CASE Finish(r)
    BY <2>2, Answers DEF Finish
  <2> QED
    BY <1>9, <2>1, <2>2 DEF GetNothing, DropMeta, Removed
<1> QED
  BY <1>2, <1>3, <1>4, <1>5, <1>6, <1>7, <1>8, <1>9, RenameKeeps DEF Proceed

-----------------------------------------------------------------------------
\* It takes its locks and knows of no object yet; the placeholder of an upload
\* is gone.
Starts(r) ==
    /\ \A s \in Procs \ {r} : req'[s] = req[s]
    /\ ~Locked(req'[r].path) /\ ~Locked(req'[r].to)
    /\ req'[r].objs = {} /\ req'[r].pc \in {"upload", "get", "rename"}
    /\ req'[r].name \in {0, nextName}
    /\ req'[r].pc = "upload" =>
         /\ req'[r].path \notin placeholders'
         /\ req'[r].name = nextName

\* A request that begins; only an upload draws a name, which nobody has had.
Begins(r) ==
    /\ ReqType' /\ \A s \in Procs : ReqShape(s)'
    /\ \A s \in Procs : InFlight(s)' =>
         \/ InFlight(s) /\ req'[s].name = req[s].name
         \/ s = r /\ req'[s].name = nextName
    /\ \A s \in Procs : req'[s].name = req[s].name \/ (s = r /\ req'[s].name \in {0, nextName})
    /\ req' = req \/ Starts(r)

\* Drawing a name takes none away from those drawn.
LEMMA MoreNames ==
    ASSUME TypeOK, nextName' \in {nextName, nextName + 1}
    PROVE  Names \subseteq Names' /\ Request \subseteq Request'
<1>1. nextName \in Nat
  BY DEF TypeOK
<1>2. Names \subseteq Names'
  BY <1>1, Ranges DEF Names
<1> QED
  BY <1>2 DEF Request

Opened(k, p, d, l, n) ==
    [Idle EXCEPT !.pc = l, !.op = k, !.path = p, !.to = d, !.name = n]

\* The record of a request that begins.
LEMMA OpenedFields ==
    ASSUME NEW k \in OpKinds, NEW p \in Seq(STRING), NEW d \in Seq(STRING), NEW l \in Labels,
           NEW n \in Names' \cup {0}
    PROVE  LET u == Opened(k, p, d, l, n)
           IN  /\ u \in Request' /\ u.pc = l /\ u.op = k /\ u.path = p /\ u.to = d
               /\ u.name = n /\ u.objs = {} /\ ~u.copying
BY DEF Opened, Idle, Request, Labels

\* A request that begins with its path unlocked keeps the types.
LEMMA BeginStep ==
    ASSUME TypeOK, Shape, nextName' \in {nextName, nextName + 1}, NEW r \in Procs,
           NEW q \in Request', req' = [req EXCEPT ![r] = q],
           q.pc \in {"upload", "get", "rename"}, q.objs = {}, ~Locked(q.path), ~Locked(q.to),
           ~q.copying, q.name \in {0, nextName},
           q.pc = "upload" => /\ q.path # Root /\ q.path \notin placeholders'
                              /\ q.name = nextName /\ q.name # 0,
           Moving(q) => q.to # Root
    PROVE  Begins(r)
<1>1. req \in [Procs -> Request'] /\ req' \in [Procs -> Request']
  BY MoreNames DEF TypeOK
<1>2. req'[r] = q /\ \A s \in Procs \ {r} : req'[s] = req[s]
  BY DEF TypeOK
<1>3. \A s \in Procs : ReqShape(s)'
  BY <1>2 DEF ReqShape, Shape, InFlight
<1>4. \A s \in Procs : InFlight(s)' =>
         \/ InFlight(s) /\ req'[s].name = req[s].name
         \/ s = r /\ req'[s].name = nextName
  BY <1>2 DEF InFlight
<1>5. Starts(r)
  BY <1>2 DEF Starts
<1>6. \A s \in Procs : req'[s].name = req[s].name \/ (s = r /\ req'[s].name \in {0, nextName})
  BY <1>2
<1> QED
  BY <1>1, <1>3, <1>4, <1>5, <1>6 DEF Begins, ReqType

\* PUT, DELETE and MOVE begin so; the others are over at once.
LEMMA ArriveStep ==
    ASSUME TypeOK, Shape, NEW r \in Procs, Arrive(r)
    PROVE  Begins(r) /\ nextName' \in {nextName, nextName + 1}
<1>1. nextName' \in {nextName, nextName + 1}
  BY DEF Arrive, Put, PutEmpty, Mkdir, Delete, MoveTo, store
<1>2. nextName \in Nat /\ nextName # 0 /\ req \in [Procs -> Request]
  BY DEF TypeOK
<1>3. CASE req' = req
  <2>1. req' \in [Procs -> Request']
    BY <1>1, <1>2, <1>3, MoreNames
  <2>2. \A s \in Procs : ReqShape(s)'
    BY <1>3 DEF ReqShape, Shape, InFlight
  <2>3. \A s \in Procs : InFlight(s)' => InFlight(s) /\ req'[s].name = req[s].name
    BY <1>3 DEF InFlight
  <2> QED
    BY <1>1, <1>3, <2>1, <2>2, <2>3 DEF Begins, ReqType
<1>4. ASSUME NEW p \in FilePaths, Put(r, p)
      PROVE  Begins(r)
  <2> DEFINE q == Opened("put", p, p, "upload", nextName)
  <2>1. nextName \in Names'
    BY <1>2, <1>4 DEF Put, Names
  <2>2. p \in Seq(STRING) /\ p # Root
    BY PathAssumption
  <2>3. q \in Request' /\ q.pc = "upload" /\ q.op = "put" /\ q.path = p /\ q.name = nextName
        /\ q.to = p /\ q.objs = {} /\ ~q.copying
    BY <2>1, <2>2, OpenedFields DEF OpKinds, Labels, RenamePcs
  <2>4. req' = [req EXCEPT ![r] = q]
    BY <1>4 DEF Put, Begin, Opened
  <2>5. ~Locked(p) /\ p \notin placeholders'
    BY <1>4 DEF Put, CanBegin
  <2> HIDE DEF q
  <2> QED
    BY <1>1, <1>2, <2>2, <2>3, <2>4, <2>5, BeginStep DEF Moving, RenamePcs
<1>5. ASSUME NEW p \in Paths, Delete(r, p)
      PROVE  Begins(r)
  <2> DEFINE q == Opened("delete", p, p, "get", 0)
  <2>1. p \in Seq(STRING)
    BY PathTypes
  <2>2. q \in Request' /\ q.pc = "get" /\ q.op = "delete" /\ q.path = p /\ q.to = p
        /\ q.objs = {} /\ q.name = 0 /\ ~q.copying
    BY <2>1, OpenedFields DEF OpKinds, Labels, RenamePcs
  <2>3. req' = [req EXCEPT ![r] = q]
    BY <1>5 DEF Delete, Begin, Opened
  <2>4. ~Locked(p)
    BY <1>5 DEF Delete, CanBegin
  <2> HIDE DEF q
  <2> QED
    BY <1>1, <2>2, <2>3, <2>4, BeginStep DEF Moving, RenamePcs
<1>6. ASSUME NEW p \in Paths, NEW d \in Paths, MoveTo(r, p, d)
      PROVE  Begins(r)
  <2>1. p \in Seq(STRING) /\ d \in Seq(STRING) /\ d # Root
    BY <1>6, PathTypes, PathAssumption DEF MoveTo
  <2>2. PICK l \in {"get", "rename"} : Begin(r, "move", p, d, l, 0)
    BY <1>6 DEF MoveTo
  <2> DEFINE q == Opened("move", p, d, l, 0)
  <2>3. q \in Request' /\ q.pc = l /\ q.op = "move" /\ q.path = p /\ q.to = d
        /\ q.objs = {} /\ q.name = 0 /\ ~q.copying
    BY <2>1, OpenedFields DEF OpKinds, Labels, RenamePcs
  <2>4. req' = [req EXCEPT ![r] = q]
    BY <2>2 DEF Begin, Opened
  <2>5. ~Locked(p) /\ ~Locked(d)
    BY <1>6 DEF MoveTo, CanBegin
  <2> HIDE DEF q
  <2> QED
    BY <1>1, <2>1, <2>3, <2>4, <2>5, BeginStep
<1> QED
  BY <1>1, <1>3, <1>4, <1>5, <1>6 DEF Arrive, PutEmpty, Mkdir

-----------------------------------------------------------------------------
\* UniqueOwner and NamesApart in their parts.
Apart ==
    /\ Unique(tree, copied)
    /\ \A r \in Procs : InFlight(r) => req[r].name \notin Owned(tree)
    /\ NamesApart

\* The parts say what the two say.
LEMMA OwnersApart == UniqueOwner /\ NamesApart <=> Apart
BY DEF UniqueOwner, Apart, Owned, Unique, NamesApart

\* The same after a step.
LEMMA OwnersApartNext == (UniqueOwner /\ NamesApart)' <=> Apart'
BY DEF UniqueOwner, Apart, Owned, Unique, NamesApart, InFlight

\* What a step of a request does to the tree, if it saves no upload: the files
\* keep their owners, or get back what the request remembers.
TreeKept(r) ==
    /\ TreeType'
    /\ \/ Owned(tree') \subseteq Owned(tree)
       \/ /\ ~InFlight(r) /\ req[r].name \in copied'
          /\ Owned(tree') \subseteq Owned(tree) \cup {req[r].name}
    /\ Unique(tree, copied) => Unique(tree', copied')

\* A step that leaves the tree alone.
LEMMA TreeStays ==
    ASSUME TypeOK, Shape, nextName' \in {nextName, nextName + 1}, tree' = tree,
           copied' = copied, NEW r
    PROVE  TreeKept(r)
<1>1. Names \subseteq Names'
  BY MoreNames
<1>2. IsTree(tree, Names')
  BY <1>1 DEF TypeOK, IsTree
<1> QED
  BY <1>2 DEF TreeKept, TreeType, Shape

\* Renames move owners, and copy them with a note.
LEMMA RenameTree ==
    ASSUME TypeOK, Shape, NEW r \in Procs, Renaming(r)
    PROVE  TreeKept(r)
<1> DEFINE src == req[r].path
           dst == req[r].to
<1>1. /\ req \in [Procs -> Request] /\ req[r] \in Request
      /\ IsTree(tree, Names) /\ DOMAIN tree = {"dirs", "files"}
  BY DEF TypeOK, Shape
<1>2. /\ nextName' = nextName /\ Names' = Names /\ req[r].pc \in RenamePcs
  BY <1>1, RenameFacts
<1>3. dst \in Path /\ src \in Seq(STRING)
  <2>1. dst \in Seq(STRING) /\ src \in Seq(STRING)
    BY <1>1 DEF Request
  <2>2. dst # Root
    BY <1>2 DEF Shape, Moving
  <2> QED
    BY <2>1, <2>2 DEF Path
<1>4. HasJson(tree, src) => src \in Path /\ src \in DOMAIN tree.files /\ tree.files[src] \in Names
                              /\ tree.files[src] \in Owned(tree)
  BY <1>1, TreeParts DEF HasJson, Owned
<1>5. src \in tree.dirs => src \in Path
  BY <1>1, TreeParts
<1> HIDE DEF src, dst
<1>6. CASE tree' = tree /\ copied' = copied
  BY <1>2, <1>6, TreeStays
<1>7. CASE /\ copied' = copied
           /\ \/ HasJson(tree, src) /\ tree' = RenameFile(tree, src, dst)
              \/ src \in tree.dirs /\ tree' = RenameDir(tree, src, dst)
  <2>1. CASE HasJson(tree, src) /\ tree' = RenameFile(tree, src, dst)
    BY <1>1, <1>2, <1>3, <1>4, <1>7, <2>1, RenameFileTree DEF TreeKept, TreeType
  <2>2. CASE src \in tree.dirs /\ tree' = RenameDir(tree, src, dst)
    BY <1>1, <1>2, <1>3, <1>5, <1>7, <2>2, RenameDirTree DEF TreeKept, TreeType
  <2> QED
    BY <1>7, <2>1, <2>2
<1>8. CASE tree' = MakeParents(tree, dst) /\ copied' = copied
  BY <1>1, <1>2, <1>3, <1>8, MakeParentsTree DEF TreeKept, TreeType, Owned, Unique
<1>9. CASE /\ HasJson(tree, src) /\ tree' = SaveFile(tree, dst, tree.files[src])
           /\ copied' = copied \cup {tree.files[src]}
  <2>1. Unique(tree, copied) => Unique(tree, copied')
    BY <1>9 DEF Unique
  <2> DEFINE n == tree.files[src]
  <2>2. n \in Names /\ n \in Owned(tree) /\ n \in copied' /\ tree' = SaveFile(tree, dst, n)
    BY <1>4, <1>9
  <2> HIDE DEF n
  <2>3. /\ IsTree(tree', Names) /\ DOMAIN tree' = {"dirs", "files"}
        /\ Owned(tree') \subseteq Owned(tree) \cup {n}
        /\ Unique(tree, copied') => Unique(tree', copied')
    BY <1>1, <1>3, <2>2, SaveFileTree
  <2> QED
    BY <1>2, <2>1, <2>2, <2>3 DEF TreeKept, TreeType
<1>10. ASSUME NEW S \in Parts(tree, src, dst), src \in tree.dirs,
              tree' = CopyTree(tree, src, dst, S),
              copied' = copied \cup {tree.files[f] : f \in S \cap DOMAIN tree.files}
       PROVE  TreeKept(r)
  <2>1. src \in Path /\ S \in Parts(tree, src, dst) /\ dst \in Path
    BY <1>3, <1>5, <1>10
  <2>2. /\ IsTree(tree', Names) /\ DOMAIN tree' = {"dirs", "files"}
        /\ Owned(tree') \subseteq Owned(tree)
        /\ Unique(tree, copied) => Unique(tree', copied')
    <3>1. copied' = copied \cup OwnedIn(tree, S)
      BY <1>10 DEF OwnedIn
    <3>2. IsTree(tree, Names) /\ tree' = CopyTree(tree, src, dst, S)
      BY <1>1, <1>10
    <3> HIDE <1>10
    <3> QED
      BY <2>1, <3>1, <3>2, CopyTreeTree
  <2> QED
    BY <1>2, <2>2 DEF TreeKept, TreeType
<1>11. CASE WriteName(r) /\ tree' = SaveFile(tree, dst, req[r].name)
            /\ copied' = IF HasJson(tree, dst) /\ tree.files[dst] = req[r].name
                         THEN copied ELSE copied \cup {req[r].name}
  <2> DEFINE n == req[r].name
  <2>1. n \in Names
    <3>1. n # 0 /\ n \in Names \cup {0}
      BY <1>1, <1>11 DEF WriteName, At, Shape, Request
    <3> QED
      BY <3>1
  <2>2. n \in copied' \/ (HasJson(tree, dst) /\ tree.files[dst] = n)
    BY <1>11
  <2>3. Unique(tree, copied) => Unique(tree, copied')
    BY <1>11 DEF Unique
  <2>4. tree' = SaveFile(tree, dst, n)
    BY <1>11
  <2>5. ~InFlight(r)
    BY <1>2 DEF InFlight, RenamePcs
  <2> HIDE DEF n
  <2>6. /\ IsTree(tree', Names) /\ DOMAIN tree' = {"dirs", "files"}
        /\ Owned(tree') \subseteq Owned(tree) \cup {n}
        /\ Unique(tree, copied') => Unique(tree', copied')
    BY <1>1, <1>3, <2>1, <2>2, <2>4, SaveFileTree
  <2> QED
    BY <1>2, <2>2, <2>3, <2>5, <2>6 DEF TreeKept, TreeType, Owned, HasJson, n
<1>12. CASE tree' = RemoveAll(tree, src) /\ copied' = copied
  BY <1>1, <1>2, <1>12, RemoveAllTree DEF TreeKept, TreeType
<1>13. CASE RenameEntry(r)
  BY <1>6, <1>7, <1>13 DEF RenameEntry, src, dst
<1>14. CASE RenameRefused(r)
  BY <1>8, <1>14 DEF RenameRefused, src, dst
<1>15. CASE CopyFile(r)
  BY <1>6, <1>9, <1>15 DEF CopyFile, src, dst
<1>16. CASE CopyDir(r)
  BY <1>6, <1>10, <1>16 DEF CopyDir, src, dst
<1>17. CASE ReadName(r)
  BY <1>6, <1>17 DEF ReadName
<1>18. CASE WriteName(r)
  BY <1>6, <1>11, <1>18 DEF WriteName, src, dst
<1>19. CASE RemoveSource(r)
  BY <1>6, <1>12, <1>19 DEF RemoveSource, src, dst
<1> QED
  BY <1>13, <1>14, <1>15, <1>16, <1>17, <1>18, <1>19 DEF Renaming

\* Deletions take owners away.
LEMMA TreeStep ==
    ASSUME TypeOK, Shape, NEW r \in Procs, Proceed(r), ~SaveMeta(r)
    PROVE  TreeKept(r)
<1>1. Renaming(r) \/ (nextName' = nextName /\ Names' = Names /\ copied' = copied)
  BY DEF Proceed, Stored, StoreFails, SaveMeta, GetFile, GetDir, GetNothing, DeleteFile,
         WalkDirs, WalkObjs, WalkEnds, DropMeta, store, aside, Names
<1>2. IsTree(tree, Names) /\ DOMAIN tree = {"dirs", "files"} /\ req[r] \in Request
  BY DEF TypeOK, Shape
<1>3. CASE tree' = tree /\ ~Renaming(r)
  BY <1>1, <1>3, TreeStays
<1>4. CASE tree' = RemoveAll(tree, Target(r)) /\ ~Renaming(r)
  BY <1>1, <1>2, <1>4, RemoveAllTree DEF TreeKept, TreeType
<1> QED
  BY <1>3, <1>4, RenameTree
  DEF Proceed, Stored, StoreFails, GetFile, GetDir, GetNothing, DeleteFile,
      WalkDirs, WalkObjs, WalkEnds, DropMeta, store

\* SaveMeta gives a path the object of its upload, which ends.
LEMMA SaveStep ==
    ASSUME VInv, NEW r \in Procs, SaveMeta(r), ReqKept(r)
    PROVE  TreeType' /\ (UniqueOwner /\ NamesApart)'
<1>1. nextName' = nextName /\ Names' = Names /\ copied' = copied
  BY DEF SaveMeta, Names, aside
<1>2. IsTree(tree, Names) /\ req \in [Procs -> Request] /\ InFlight(r)
  BY DEF VInv, TypeOK, SaveMeta, At, InFlight
<1>3. req[r].name \in Names /\ req[r].path \in Path
  <2>1. req[r].name \in Names \cup {0} /\ req[r].path \in Seq(STRING)
    BY <1>2 DEF Request
  <2> QED
    BY <1>2, <2>1 DEF VInv, Shape, Path
<1>4. tree' = SaveFile(tree, req[r].path, req[r].name)
  BY DEF SaveMeta
<1>5. Apart
  BY OwnersApart DEF VInv
<1>6. IsTree(tree', Names) /\ Owned(tree') \subseteq Owned(tree) \cup {req[r].name}
        /\ Unique(tree', copied')
  BY <1>1, <1>2, <1>3, <1>4, <1>5, SaveFileTree DEF Apart
<1>7. DOMAIN tree' = {"dirs", "files"}
  BY <1>4 DEF SaveFile
<1>8. ~InFlight(r)'
  <2>1. req'[r] = Idle
    BY <1>2 DEF SaveMeta, Finish
  <2> QED
    BY <2>1, IdleFields DEF InFlight
<1>9. Apart'
  <2>1. \A s \in Procs : InFlight(s)' => /\ InFlight(s) /\ req'[s].name = req[s].name
                                         /\ s # r
    BY <1>8 DEF ReqKept
  <2>2. \A s \in Procs : InFlight(s)' => req'[s].name \notin Owned(tree')
    BY <1>2, <1>5, <1>6, <2>1 DEF Apart, NamesApart
  <2>3. NamesApart'
    <3> SUFFICES ASSUME NEW s \in Procs, InFlight(s)', NEW p \in Procs, p # s
                 PROVE  req'[p].name # req'[s].name
      BY DEF NamesApart, InFlight
    <3>1. /\ InFlight(s) /\ req'[s].name = req[s].name /\ req[s].name # 0
          /\ req[s].name \notin Owned(tree) /\ req[p].name # req[s].name
      BY <1>5, <2>1 DEF Apart, NamesApart, VInv, Shape
    <3>2. req'[p].name \in Owned(tree) \cup {0, req[p].name}
      BY DEF ReqKept
    <3> QED
      BY <3>1, <3>2
  <2> QED
    BY <1>6, <2>2, <2>3 DEF Apart, InFlight
<1> QED
  BY <1>1, <1>6, <1>7, <1>9, OwnersApartNext DEF TreeType

\* Every other step leaves objects with the owners they have, but for an
\* upload that begins: its object is new.
LEMMA OwnersStep ==
    ASSUME VInv, NEW r \in Procs, TreeKept(r), ReqKept(r) \/ (Begins(r) /\ Owned(tree') \subseteq Owned(tree))
    PROVE  (UniqueOwner /\ NamesApart)'
<1>1. Apart
  BY OwnersApart DEF VInv
<1>2. nextName \notin Owned(tree) /\ \A s \in Procs : req[s].name # nextName
  <2>1. nextName \in Nat \ {0} /\ Owned(tree) \subseteq Names
          /\ \A s \in Procs : req[s] \in Request
    BY TreeParts DEF VInv, TypeOK
  <2>2. \A s \in Procs : req[s].name \in Names \cup {0}
    BY <2>1 DEF Request
  <2>3. nextName \notin Names
    BY <2>1 DEF Names
  <2> QED
    BY <2>1, <2>2, <2>3
<1>3. \A s \in Procs : InFlight(s)' =>
         \/ InFlight(s) /\ req'[s].name = req[s].name
         \/ s = r /\ req'[s].name = nextName
  BY DEF ReqKept, Begins
<1>4. ASSUME NEW s \in Procs, InFlight(s)'
      PROVE  req'[s].name \notin Owned(tree')
  <2>1. CASE ReqKept(r)
    <3>1. InFlight(s) /\ req'[s].name = req[s].name
      BY <1>4, <2>1 DEF ReqKept
    <3>2. req[s].name \notin Owned(tree) /\ (s # r => req[r].name # req[s].name)
      BY <1>1, <3>1 DEF Apart, NamesApart
    <3> QED
      BY <3>1, <3>2 DEF TreeKept
  <2>2. CASE Begins(r) /\ Owned(tree') \subseteq Owned(tree)
    BY <1>1, <1>2, <1>3, <1>4, <2>2 DEF Apart
  <2> QED
    BY <2>1, <2>2
<1>5. NamesApart'
  <2> SUFFICES ASSUME NEW s \in Procs, InFlight(s)', NEW p \in Procs, p # s
               PROVE  req'[p].name # req'[s].name
    BY DEF NamesApart, InFlight
  <2>1. CASE InFlight(s) /\ req'[s].name = req[s].name
    <3>1. /\ req[s].name # 0 /\ req[s].name \notin Owned(tree)
          /\ req[p].name # req[s].name /\ nextName # req[s].name
      BY <1>1, <1>2, <2>1 DEF Apart, NamesApart, VInv, Shape
    <3>2. req'[p].name \in Owned(tree) \cup {0, nextName, req[p].name}
      BY DEF ReqKept, Begins
    <3> QED
      BY <2>1, <3>1, <3>2
  <2>2. CASE s = r /\ req'[s].name = nextName /\ Begins(r)
    BY <1>2, <2>2 DEF Begins
  <2>3. CASE ReqKept(r)
    BY <2>1, <2>3 DEF ReqKept
  <2> QED
    BY <1>3, <2>1, <2>2, <2>3
<1>6. Apart'
  BY <1>1, <1>4, <1>5 DEF Apart, TreeKept, InFlight
<1> QED
  BY <1>6, OwnersApartNext

-----------------------------------------------------------------------------
\* What a rename notes as copied is an object of the tree, or the one that it
\* remembers.
LEMMA RenameCopies ==
    ASSUME TypeOK, Shape, NEW r \in Procs, Renaming(r)
    PROVE  copied' \subseteq Names
<1>1. copied \subseteq Names /\ \A f \in DOMAIN tree.files : tree.files[f] \in Names
  BY TreeParts DEF TypeOK
<1>2. CASE CopyFile(r)
  BY <1>1, <1>2 DEF CopyFile, HasJson
<1>3. CASE CopyDir(r)
  BY <1>1, <1>3 DEF CopyDir
<1>4. CASE WriteName(r)
  <2>1. req[r].name \in Names
    <3>1. req[r].name # 0 /\ req[r].name \in Names \cup {0}
      BY <1>4 DEF WriteName, At, Shape, TypeOK, Request
    <3> QED
      BY <3>1
  <2> QED
    BY <1>1, <1>4, <2>1 DEF WriteName
<1> QED
  BY <1>1, <1>2, <1>3, <1>4
  DEF Renaming, RenameEntry, RenameRefused, ReadName, RemoveSource

\* Objects, placeholders and what is stranded keep their types.
LEMMA RestProceeds ==
    ASSUME TypeOK, Shape, NEW r \in Procs, Proceed(r)
    PROVE  RestType'
<1>2. req \in [Procs -> Request] /\ req[r] \in Request /\ RestType
  BY DEF TypeOK, RestType
<1>1. nextName' = nextName /\ Names' = Names /\ usage' = usage
  BY <1>2, RenameFacts
  DEF Proceed, Stored, StoreFails, SaveMeta, GetFile, GetDir, GetNothing, DeleteFile,
      WalkDirs, WalkObjs, WalkEnds, DropMeta, store, aside, Names
<1>3. objs' \subseteq Names
  <2>1. CASE Stored(r)
    <3>1. req[r].name \in Names
      <4>1. req[r].name # 0
        BY <2>1 DEF Stored, At, Shape, InFlight
      <4> QED
        BY <1>2, <4>1 DEF Request
    <3> QED
      BY <1>2, <2>1, <3>1 DEF Stored, RestType
  <2>2. objs' \subseteq objs \/ Stored(r)
    BY <1>2, RenameFacts
    DEF Proceed, StoreFails, SaveMeta, GetFile, GetDir, GetNothing, DeleteFile,
        WalkDirs, WalkObjs, WalkEnds, DropMeta, RemoteDelete, store
  <2> QED
    BY <1>2, <2>1, <2>2 DEF RestType
<1>4. placeholders' \subseteq Seq(STRING)
  <2>1. req[r].to \in Seq(STRING)
    BY <1>2 DEF Request
  <2>2. placeholders' \subseteq placeholders \cup {req[r].to}
    BY <1>2, RenameFacts
    DEF Proceed, Stored, StoreFails, SaveMeta, GetFile, GetDir, GetNothing, DeleteFile,
        WalkDirs, WalkObjs, WalkEnds, DropMeta, store
  <2> QED
    BY <1>2, <2>1, <2>2 DEF RestType
<1>5. stranded' \subseteq Names
  <2>1. Strands \/ stranded' = stranded
    BY <1>2, RenameFacts
    DEF Proceed, Stored, StoreFails, SaveMeta, GetFile, GetDir, GetNothing, DeleteFile,
        WalkDirs, WalkObjs, WalkEnds, DropMeta, store, aside
  <2> QED
    BY <1>1, <1>2, <2>1, StrandsTypes DEF RestType
<1>6. copied' \subseteq Names
  <2>1. CASE Renaming(r)
    BY <2>1, <1>1, <1>2, RenameCopies DEF RestType
  <2>2. CASE ~Renaming(r)
    BY <2>2, <1>2
    DEF Proceed, Stored, StoreFails, SaveMeta, GetFile, GetDir, GetNothing, DeleteFile,
        WalkDirs, WalkObjs, WalkEnds, DropMeta, store, aside, RestType
  <2> QED
    BY <2>1, <2>2
<1> QED
  BY <1>1, <1>2, <1>3, <1>4, <1>5, <1>6 DEF RestType

\* Requests that begin leave the remote alone.
LEMMA RestArrives ==
    ASSUME TypeOK, NEW r \in Procs, Arrive(r), nextName' \in {nextName, nextName + 1}
    PROVE  RestType'
<1>1. nextName \in Nat \ {0} /\ nextName' \in Nat \ {0}
  BY DEF TypeOK
<1>2. usage' = usage /\ objs' = objs /\ stranded' = stranded /\ copied' = copied
  BY DEF Arrive, Put, PutEmpty, Mkdir, Delete, MoveTo, store, aside
<1>3. placeholders' \subseteq placeholders \cup FilePaths
  BY DEF Arrive, Put, PutEmpty, Mkdir, Delete, MoveTo, store
<1> QED
  BY <1>1, <1>2, <1>3, MoreNames, PathAssumption DEF RestType, TypeOK

\* Of requests that begin only MKCOL changes the tree, by a directory.
LEMMA TreeArrives ==
    ASSUME TypeOK, Shape, NEW r \in Procs, Arrive(r), nextName' \in {nextName, nextName + 1}
    PROVE  TreeKept(r) /\ Owned(tree') \subseteq Owned(tree)
<1>0. copied' = copied
  BY DEF Arrive, Put, PutEmpty, Mkdir, Delete, MoveTo, store, aside
<1>1. CASE tree' = tree
  BY <1>0, <1>1, TreeStays
<1>2. ASSUME NEW p \in DirPaths, Mkdir(r, p)
      PROVE  TreeKept(r) /\ Owned(tree') \subseteq Owned(tree)
  <2>1. p \in Seq(STRING) /\ tree' = SaveDir(tree, p) /\ nextName' = nextName
    BY <1>2, PathTypes DEF Mkdir
  <2>2. IsTree(tree, Names) /\ DOMAIN tree = {"dirs", "files"} /\ Names' = Names
    BY <2>1 DEF TypeOK, Shape, Names
  <2> QED
    BY <1>0, <2>1, <2>2, SaveDirTree DEF TreeKept, TreeType, Owned, Unique
<1> QED
  BY <1>1, <1>2 DEF Arrive, Put, PutEmpty, Delete, MoveTo, store

-----------------------------------------------------------------------------
\* The parts are the whole.
LEMMA VInvParts ==
    ASSUME TreeType', RestType', ReqType', \A s \in Procs : ReqShape(s)',
           (UniqueOwner /\ NamesApart)'
    PROVE  VInv'
BY DEF VInv, TypeOK, Shape, TreeType, RestType, ReqType, ReqShape, InFlight

\* VInv holds of an empty vault.
LEMMA VInvInit == Init => VInv
<1> SUFFICES ASSUME Init PROVE VInv
  OBVIOUS
<1>1. /\ EmptyTree.dirs = {} /\ DOMAIN EmptyTree = {"dirs", "files"}
      /\ DOMAIN EmptyTree.files = {} /\ EmptyTree.files \in [{} -> Names]
  BY DEF EmptyTree
<1>2. TypeOK
  BY <1>1, IdleFields DEF Init, TypeOK, IsTree
<1>3. \A r \in Procs : req[r] = Idle
  BY DEF Init
<1>4. Shape
  BY <1>1, <1>3, IdleFields DEF Init, Shape, InFlight
<1>5. UniqueOwner /\ NamesApart
  BY <1>1, <1>3, IdleFields DEF Init, UniqueOwner, InFlight, NamesApart
<1> QED
  BY <1>2, <1>4, <1>5 DEF VInv

\* Every step of every request keeps VInv, and so do restarts.
LEMMA VInvStep == VInv /\ [Next]_vars => VInv'
<1> SUFFICES ASSUME VInv, [Next]_vars PROVE VInv'
  OBVIOUS
<1> USE DEF VInv
<1>1. ASSUME NEW r \in Procs, Proceed(r)
      PROVE  VInv'
  <2>1. ReqKept(r) /\ RestType'
    BY <1>1, ReqStep, RestProceeds
  <2>2. CASE SaveMeta(r)
    BY <2>1, <2>2, SaveStep, VInvParts DEF ReqKept
  <2>3. CASE ~SaveMeta(r)
    <3>1. TreeKept(r)
      BY <1>1, <2>3, TreeStep
    <3>2. (UniqueOwner /\ NamesApart)'
      BY <2>1, <3>1, OwnersStep
    <3> QED
      BY <2>1, <3>1, <3>2, VInvParts DEF ReqKept, TreeKept
  <2> QED
    BY <2>2, <2>3
<1>2. ASSUME NEW r \in Procs, Arrive(r)
      PROVE  VInv'
  <2>1. Begins(r) /\ nextName' \in {nextName, nextName + 1}
    BY <1>2, ArriveStep
  <2>2. RestType' /\ TreeKept(r) /\ Owned(tree') \subseteq Owned(tree)
    BY <1>2, <2>1, RestArrives, TreeArrives
  <2>3. (UniqueOwner /\ NamesApart)'
    BY <2>1, <2>2, OwnersStep
  <2> QED
    BY <2>1, <2>2, <2>3, VInvParts DEF Begins, TreeKept
<1>3. ASSUME NEW p \in Paths, Expire(p)
      PROVE  VInv'
  BY <1>3 DEF Expire, aside, TypeOK, Shape, UniqueOwner, NamesApart, InFlight, Names, Request
<1>4. CASE Restart
  <2>1. Names' = Names /\ tree' = tree /\ nextName' = nextName /\ usage' = usage
          /\ objs' = objs /\ placeholders' = {} /\ Request' = Request /\ copied' = copied
    BY <1>4 DEF Restart, Names, Request
  <2>2. stranded' \subseteq Names
    BY <1>4, <2>1, StrandsTypes DEF Restart
  <2>3. req' \in [Procs -> Request] /\ \A r \in Procs : req'[r] = Idle
    BY <1>4, IdleFields DEF Restart
  <2>4. TypeOK'
    BY <2>1, <2>2, <2>3 DEF TypeOK
  <2>5. Shape'
    BY <2>1, <2>3, IdleFields DEF Shape, InFlight
  <2>6. (UniqueOwner /\ NamesApart)'
    BY <2>1, <2>3, IdleFields DEF UniqueOwner, NamesApart, InFlight
  <2> QED
    BY <2>4, <2>5, <2>6
<1>5. CASE UNCHANGED vars
  BY <1>5 DEF vars, store, aside, TypeOK, Shape, UniqueOwner, NamesApart, InFlight, Names,
              Request
<1> QED
  BY <1>1, <1>2, <1>3, <1>4, <1>5 DEF Next

\* In every reachable state: types, shapes, and one owner for each object whose
\* metadata no rename has copied.
THEOREM VaultInductive == Spec => []VInv
BY VInvInit, VInvStep, PTL DEF Spec

\* Tree, objects, placeholders and requests keep their types.
THEOREM VaultTypeCorrect == Spec => []TypeOK
<1>1. VInv => TypeOK
  BY DEF VInv
<1> QED
  BY <1>1, VaultInductive, PTL

\* A remote object has one owner, unless a rename has copied its metadata or
\* written it back; the object of an upload has no other.
THEOREM OneOwner == Spec => []UniqueOwner
<1>1. VInv => UniqueOwner
  BY DEF VInv
<1> QED
  BY <1>1, VaultInductive, PTL

-----------------------------------------------------------------------------
(* A PUT that is answered shows its content.                               *)

\* Requests that run have locked different paths.
Exclusive ==
    \A r, s \in Procs : r # s /\ req[r].pc # "idle" /\ req[s].pc # "idle" =>
        /\ req[r].path # req[s].path /\ req[r].path # req[s].to
        /\ req[r].to # req[s].path /\ req[r].to # req[s].to

\* No placeholder gets in front of an upload, no DELETE knows of its object,
\* and the object stays once it is complete.
Unmarked == \A r \in Procs : InFlight(r) => req[r].path \notin placeholders
Unthreatened ==
    \A r, s \in Procs : InFlight(r) =>
        /\ req[r].name \notin req[s].objs
        /\ req[s].pc = "delete" => req[s].name # req[r].name
SavedKept == \A r \in Procs : req[r].pc = "save" => req[r].name \in objs

Guarded == Exclusive /\ Unmarked /\ Unthreatened /\ SavedKept

\* Steps of a request that runs.
LEMMA GuardedProceeds ==
    ASSUME VInv, Guarded, NEW r \in Procs, Proceed(r)
    PROVE  Guarded'
<1>0. Apart /\ req \in [Procs -> Request] /\ ReqKept(r)
  BY OwnersApart, ReqStep DEF VInv, TypeOK
<1>1. PICK q : Keeps(r, q) /\ req' = [req EXCEPT ![r] = q]
  BY <1>0 DEF ReqKept
<1>2. req'[r] = q /\ \A s \in Procs \ {r} : req'[s] = req[s]
  BY <1>0, <1>1
<1>3. \A s \in Procs : req'[s].pc # "idle" =>
         req[s].pc # "idle" /\ req'[s].path = req[s].path /\ req'[s].to = req[s].to
  BY <1>1, <1>2 DEF Keeps
<1>4. \A s \in Procs : InFlight(s)' =>
         InFlight(s) /\ req'[s].name = req[s].name /\ req'[s].path = req[s].path
  BY <1>1, <1>2 DEF Keeps, InFlight
<1>5. Exclusive'
  BY <1>3 DEF Guarded, Exclusive
<1>6. Unmarked'
  <2>1. CASE placeholders' \subseteq placeholders
    BY <1>4, <2>1 DEF Guarded, Unmarked, InFlight
  <2>2. CASE Renaming(r)
    <3>1. placeholders' \subseteq placeholders \cup {req[r].to} /\ req[r].pc \in RenamePcs
      BY <1>0, <2>2, RenameFacts
    <3>2. \A s \in Procs : InFlight(s)' => s # r /\ req[s].pc # "idle"
      BY <1>4, <3>1 DEF InFlight, RenamePcs
    <3> QED
      BY <1>4, <3>1, <3>2 DEF Guarded, Unmarked, Exclusive, InFlight, RenamePcs
  <2> QED
    BY <2>1, <2>2
    DEF Proceed, Stored, StoreFails, SaveMeta, GetFile, GetDir, GetNothing, DeleteFile,
        WalkDirs, WalkObjs, WalkEnds, DropMeta, store
<1>7. Unthreatened'
  <2>1. \A p \in Procs : InFlight(p)' => req'[p].name \notin Owned(tree)
    BY <1>0, <1>4 DEF Apart
  <2>2. \A s \in Procs : /\ req'[s].objs \subseteq req[s].objs \cup Owned(tree)
                         /\ req'[s].pc = "delete" =>
                              req'[s].name \in Owned(tree) \/ req'[s] = req[s]
    BY <1>1, <1>2 DEF Keeps
  <2> QED
    BY <1>4, <2>1, <2>2 DEF Guarded, Unthreatened, InFlight
<1>8. SavedKept'
  <2>1. req'[r].pc = "save" => Stored(r)
    <3>1. req'[r].pc = "save" => InFlight(r)
      BY <1>1, <1>2 DEF Keeps
    <3>2. InFlight(r) => Stored(r) \/ StoreFails(r) \/ SaveMeta(r)
      BY <1>0, RenameFacts
      DEF InFlight, Proceed, GetFile, GetDir, GetNothing, DeleteFile,
          WalkDirs, WalkObjs, WalkEnds, DropMeta, At, RenamePcs
    <3>3. StoreFails(r) \/ SaveMeta(r) => req'[r].pc = "idle"
      BY <1>0, IdleFields DEF StoreFails, SaveMeta, Finish
    <3> QED
      BY <3>1, <3>2, <3>3
  <2>2. Stored(r) => req'[r].name \in objs' /\ objs \subseteq objs'
    <3>1. Stored(r) => req'[r].name = req[r].name
      BY <1>0, PcFields DEF Stored, Goto, Labels
    <3> QED
      BY <3>1 DEF Stored
  <2>3. \/ objs \subseteq objs'
        \/ \E n \in req[r].objs : objs' = objs \ {n}
        \/ req[r].pc = "delete" /\ objs' = objs \ {req[r].name}
    BY <1>0, RenameFacts
    DEF Proceed, Stored, StoreFails, SaveMeta, GetFile, GetDir, GetNothing, DeleteFile,
        WalkDirs, WalkObjs, WalkEnds, DropMeta, RemoteDelete, store, At
  <2>4. \A s \in Procs \ {r} : req[s].pc = "save" => req[s].name \in objs'
    BY <2>3 DEF Guarded, SavedKept, Unthreatened, InFlight
  <2> QED
    BY <1>2, <2>1, <2>2, <2>4 DEF SavedKept
<1> QED
  BY <1>5, <1>6, <1>7, <1>8 DEF Guarded

\* A request that begins.
LEMMA GuardedArrives ==
    ASSUME VInv, Guarded, NEW r \in Procs, Arrive(r)
    PROVE  Guarded'
<1>1. Begins(r) /\ objs' = objs
  BY ArriveStep DEF VInv, Arrive, Put, PutEmpty, Mkdir, Delete, MoveTo, store
<1>2. CASE req' = req
  <2>1. \A p : InFlight(p)' <=> InFlight(p)
    BY <1>2 DEF InFlight
  <2>2. Unmarked'
    <3>1. CASE placeholders' \subseteq placeholders
      BY <1>2, <2>1, <3>1 DEF Guarded, Unmarked
    <3>2. ASSUME NEW p \in FilePaths, PutEmpty(r, p)
          PROVE  Unmarked'
      <4>1. \A s \in Procs : InFlight(s) => req[s].path # p
        BY <3>2 DEF PutEmpty, CanBegin, Locked, InFlight
      <4> QED
        BY <1>2, <2>1, <3>2, <4>1 DEF PutEmpty, Guarded, Unmarked
    <3> QED
      BY <3>1, <3>2 DEF Arrive, Put, Mkdir, Delete, MoveTo, store
  <2> QED
    BY <1>1, <1>2, <2>1, <2>2 DEF Guarded, Exclusive, Unthreatened, SavedKept
<1>3. CASE req' # req
  <2>1. Starts(r) /\ placeholders' \subseteq placeholders
    BY <1>1, <1>3 DEF Begins, Arrive, Put, PutEmpty, Mkdir, Delete, MoveTo, store
  <2>2. Exclusive'
    BY <2>1 DEF Guarded, Exclusive, Starts, Locked
  <2>3. Unmarked'
    BY <2>1 DEF Guarded, Unmarked, Starts, InFlight
  <2>4. Unthreatened'
    <3>1. \A s \in Procs : nextName \notin req[s].objs /\ req[s].name # nextName
      <4>1. nextName \in Nat \ {0} /\ \A s \in Procs : req[s] \in Request
        BY DEF VInv, TypeOK
      <4>2. \A s \in Procs : req[s].name \in Names \cup {0} /\ req[s].objs \subseteq Names
        BY <4>1 DEF Request
      <4>3. nextName \notin Names
        BY <4>1 DEF Names
      <4> QED
        BY <4>1, <4>2, <4>3
    <3> QED
      BY <2>1, <3>1 DEF Guarded, Unthreatened, Starts, InFlight
  <2>5. SavedKept'
    BY <1>1, <2>1 DEF Guarded, SavedKept, Starts
  <2> QED
    BY <2>2, <2>3, <2>4, <2>5 DEF Guarded
<1> QED
  BY <1>2, <1>3

\* Locks, placeholders and objects of uploads stay guarded in every step.
LEMMA GuardedStep == VInv /\ Guarded /\ [Next]_vars => Guarded'
<1> SUFFICES ASSUME VInv, Guarded, [Next]_vars PROVE Guarded'
  OBVIOUS
<1>1. ASSUME NEW p \in Paths, Expire(p)
      PROVE  Guarded'
  BY <1>1 DEF Expire, Guarded, Exclusive, Unmarked, Unthreatened, SavedKept, InFlight
<1>2. CASE Restart
  <2>1. \A r \in Procs : req'[r].pc = "idle"
    BY <1>2, IdleFields DEF Restart
  <2> QED
    BY <2>1 DEF Guarded, Exclusive, Unmarked, Unthreatened, SavedKept, InFlight
<1>3. CASE UNCHANGED vars
  BY <1>3 DEF vars, store, aside, Guarded, Exclusive, Unmarked, Unthreatened, SavedKept,
              InFlight
<1> QED
  BY <1>1, <1>2, <1>3, GuardedProceeds, GuardedArrives DEF Next

\* Where nothing runs nothing has to be guarded.
LEMMA GuardedInit == Init => Guarded
BY IdleFields DEF Init, Guarded, Exclusive, Unmarked, Unthreatened, SavedKept, InFlight

\* Whoever overlaps with it, an answered PUT shows the content it has sent.
THEOREM AckedPutsAreVisible == Spec => AckedPutVisible
<1> DEFINE A == \A r \in Procs : At(r, "save") /\ tree' # tree /\ req'[r].pc = "idle" =>
                   /\ req[r].path \notin placeholders'
                   /\ tree'.files[req[r].path] = req[r].name
                   /\ req[r].name \in objs'
<1>1. VInv /\ Guarded /\ [Next]_vars => [A]_vars
  <2> SUFFICES ASSUME VInv, Guarded, Next, NEW r \in Procs,
                      At(r, "save"), tree' # tree, req'[r].pc = "idle"
               PROVE  /\ req[r].path \notin placeholders'
                      /\ tree'.files[req[r].path] = req[r].name
                      /\ req[r].name \in objs'
    OBVIOUS
  <2>1. req \in [Procs -> Request]
    BY DEF VInv, TypeOK
  <2>2. PICK s \in Procs : Proceed(s) \/ Arrive(s)
    BY DEF Next, Expire, Restart
  <2>3. s = r
    <3>1. CASE Proceed(s)
      <4>1. \E q : req' = [req EXCEPT ![s] = q]
        BY <3>1, ReqStep DEF VInv, ReqKept
      <4> QED
        BY <2>1, <4>1 DEF At
    <3>2. CASE Arrive(s)
      <4>1. req' = req \/ Starts(s)
        BY <3>2, ArriveStep DEF VInv, Begins
      <4> QED
        BY <2>1, <4>1 DEF At, Starts
    <3> QED
      BY <2>2, <3>1, <3>2
  <2>4. SaveMeta(r)
    <3>1. ~Arrive(r)
      BY DEF At, Arrive, Put, PutEmpty, Mkdir, Delete, MoveTo, CanBegin
    <3> QED
      BY <2>1, <2>2, <2>3, <3>1, RenameFacts
      DEF At, Proceed, Stored, StoreFails, GetFile, GetDir, GetNothing, DeleteFile,
          WalkDirs, WalkObjs, WalkEnds, DropMeta, RenamePcs
  <2>5. req[r].path \notin placeholders /\ req[r].name \in objs
    BY DEF Guarded, Unmarked, SavedKept, InFlight, At
  <2> QED
    BY <2>4, <2>5 DEF SaveMeta, SaveFile
<1>2. Spec => [](VInv /\ Guarded)
  BY VInvInit, VInvStep, GuardedInit, GuardedStep, PTL DEF Spec
<1> QED
  BY <1>1, <1>2, PTL DEF Spec, AckedPutVisible

-----------------------------------------------------------------------------
(* Requests that come one at a time remove what they are asked to.         *)

\* One request runs, what it removes is there, and so is what it copies.
Copies(q) == \/ q.pc \in {"copyfile", "copydir", "remove"}
             \/ q.pc \in {"name", "rewrite"} /\ q.copying
Alone == \A r, s \in Procs : req[r].pc # "idle" /\ req[s].pc # "idle" => r = s
Found ==
    \A r \in Procs :
        /\ req[r].pc \in {"delete", "walk", "drop"} =>
             Target(r) = Root \/ CanRename(tree, Target(r))
        /\ Copies(req[r]) => CanRename(tree, req[r].path)
InTurn == serial => Alone /\ Found

\* After a removal the request is over, or a MOVE goes on.
LEMMA RemovedLabel ==
    ASSUME req \in [Procs -> Request], NEW r \in Procs, Removed(r) \/ Finish(r)
    PROVE  req'[r].pc \in {"idle", "rename"}
<1>1. CASE Goto(r, "rename")
  <2>1. req[r] \in Request /\ req'[r] = [req[r] EXCEPT !.pc = "rename"]
    BY <1>1 DEF Goto
  <2> QED
    BY <2>1, PcFields DEF Labels
<1>2. CASE Finish(r)
  BY <1>2, IdleFields DEF Finish
<1> QED
  BY <1>1, <1>2 DEF Removed

\* A rename never goes back to a removal.
LEMMA RenameLabel ==
    ASSUME req \in [Procs -> Request], NEW r \in Procs, Renaming(r)
    PROVE  /\ req'[r].pc \in RenamePcs \cup {"idle"}
           /\ req'[r].pc \notin {"delete", "walk", "drop"}
           /\ req'[r].objs \subseteq req[r].objs /\ \A s \in Procs \ {r} : req'[s] = req[s]
           /\ \A d \in req'[r].dirs : d \in req[r].dirs /\ req'[r].to = req[r].to
<1>1. CASE Finish(r)
  BY <1>1, IdleFields DEF Finish
<1>2. ASSUME NEW l \in RenamePcs, Goto(r, l)
      PROVE  /\ req'[r].pc = l /\ req'[r].objs = req[r].objs
             /\ req'[r].dirs = req[r].dirs /\ req'[r].to = req[r].to
             /\ \A s \in Procs \ {r} : req'[s] = req[s]
  BY <1>2, PcFields DEF Goto, Labels
<1>3. CASE req' = [req EXCEPT ![r].pc = "name", ![r].copying = TRUE]
  <2>1. req[r] \in Request /\ req'[r] = [req[r] EXCEPT !.pc = "name", !.copying = TRUE]
    BY <1>3
  <2>2. /\ req'[r].pc = "name" /\ req'[r].objs = req[r].objs
        /\ req'[r].dirs = req[r].dirs /\ req'[r].to = req[r].to
    BY <2>1, CopyFields
  <2> QED
    BY <1>3, <2>2 DEF RenamePcs
<1>4. CASE req' = [req EXCEPT ![r].pc = "rewrite", ![r].name = tree.files[req[r].to]]
  <2>1. /\ req'[r].pc = "rewrite" /\ req'[r].objs = req[r].objs
        /\ req'[r].dirs = req[r].dirs /\ req'[r].to = req[r].to
        /\ \A s \in Procs \ {r} : req'[s] = req[s]
    BY <1>4 DEF Request
  <2> QED
    BY <2>1 DEF RenamePcs
<1> QED
  BY <1>1, <1>2, <1>3, <1>4, RenameGoesOn DEF RenameLeads, RenamePcs

\* The steps of a rename but the first and the last take nothing out of the
\* tree.
LEMMA RenameGrows ==
    ASSUME TypeOK, Shape, NEW r \in Procs, Renaming(r)
    PROVE  \/ RenameEntry(r) \/ RemoveSource(r)
           \/ tree.dirs \subseteq tree'.dirs /\ DOMAIN tree.files \subseteq DOMAIN tree'.files
<1>1. DOMAIN tree = {"dirs", "files"}
  BY DEF Shape
<1>2. CASE RenameRefused(r)
  BY <1>1, <1>2 DEF RenameRefused, MakeParents
<1>3. CASE CopyFile(r)
  BY <1>3 DEF CopyFile, SaveFile
<1>4. CASE CopyDir(r)
  <2>1. ASSUME NEW S, tree' = CopyTree(tree, req[r].path, req[r].to, S)
        PROVE  tree.dirs \subseteq tree'.dirs /\ DOMAIN tree.files \subseteq DOMAIN tree'.files
    BY <2>1 DEF CopyTree
  <2> QED
    BY <1>4, <2>1 DEF CopyDir
<1>5. CASE ReadName(r)
  BY <1>5 DEF ReadName
<1>6. CASE WriteName(r)
  BY <1>6 DEF WriteName, SaveFile
<1> QED
  BY <1>2, <1>3, <1>4, <1>5, <1>6 DEF Renaming

\* A request that copies has found its source, and keeps it.
LEMMA CopiesFound ==
    ASSUME VInv, Found, NEW r \in Procs, Renaming(r), Copies(req'[r])
    PROVE  CanRename(tree', req[r].path)
<1>1. req \in [Procs -> Request] /\ req[r] \in Request
  BY DEF VInv, TypeOK
<1>2. ~Finish(r)
  BY <1>1, IdleFields DEF Finish, Copies
<1>3. ~RemoveSource(r)
  BY <1>2 DEF RemoveSource
<1>4. ~RenameEntry(r)
  <2> SUFFICES ASSUME RenameEntry(r), Goto(r, "name") PROVE FALSE
    BY <1>2 DEF RenameEntry, RenameFails
  <2>1. ~req[r].copying
    BY DEF RenameEntry, At, VInv, Shape, Late
  <2>2. req'[r].pc = "name" /\ ~req'[r].copying
    BY <1>1, <2>1, PcFields DEF Goto, Labels, RenamePcs
  <2> QED
    BY <2>2 DEF Copies
<1>5. tree.dirs \subseteq tree'.dirs /\ DOMAIN tree.files \subseteq DOMAIN tree'.files
  BY <1>3, <1>4, RenameGrows DEF VInv
<1>6. CanRename(tree, req[r].path)
  <2>1. CASE At(r, "rename")
    <3>1. RenameRefused(r)
      BY <1>3, <1>4, <2>1
      DEF Renaming, CopyFile, CopyDir, ReadName, WriteName, At
    <3> QED
      BY <3>1 DEF RenameRefused
  <2>2. CASE At(r, "copyfile") \/ At(r, "copydir")
    BY <2>2 DEF Found, Copies, At
  <2>3. CASE (At(r, "name") \/ At(r, "rewrite")) /\ req[r].copying
    BY <2>3 DEF Found, Copies, At
  <2>4. CASE At(r, "name") /\ ~req[r].copying
    <3>1. /\ HasJson(tree, req[r].to)
          /\ req' = [req EXCEPT ![r].pc = "rewrite", ![r].name = tree.files[req[r].to]]
      BY <1>2, <2>4, RenameGoesOn DEF RenameLeads, At
    <3>2. req'[r].pc = "rewrite" /\ ~req'[r].copying
      BY <1>1, <2>4, <3>1 DEF Request
    <3> QED
      BY <3>2 DEF Copies
  <2>5. CASE At(r, "rewrite") /\ ~req[r].copying
    BY <1>2, <2>5, RenameGoesOn DEF RenameLeads, At
  <2> QED
    BY <1>2, <2>1, <2>2, <2>3, <2>4, <2>5, RenameGoesOn DEF RenameLeads
<1> QED
  BY <1>5, <1>6 DEF CanRename, HasJson

\* A request that runs alone finds what it removes until it removes it.
LEMMA InTurnProceeds ==
    ASSUME VInv, InTurn, NEW r \in Procs, Proceed(r), serial
    PROVE  (Alone /\ Found)'
<1>0. req \in [Procs -> Request] /\ ReqKept(r)
  BY ReqStep DEF VInv, TypeOK
<1>1. PICK q : Keeps(r, q) /\ req' = [req EXCEPT ![r] = q]
  BY <1>0 DEF ReqKept
<1>2. req'[r] = q /\ \A s \in Procs \ {r} : req'[s] = req[s]
  BY <1>0, <1>1
<1>3. \A s \in Procs : req'[s].pc # "idle" =>
         req[s].pc # "idle" /\ req'[s].path = req[s].path /\ req'[s].to = req[s].to
  BY <1>1, <1>2 DEF Keeps
<1>4. Alone'
  BY <1>3 DEF InTurn, Alone
<1>5. \A s \in Procs \ {r} : req'[s].pc = "idle"
  <2>1. req[r].pc # "idle"
    BY <1>0, RenameFacts
    DEF Proceed, Stored, StoreFails, SaveMeta, GetFile, GetDir, GetNothing, DeleteFile,
        WalkDirs, WalkObjs, WalkEnds, DropMeta, At, RenamePcs
  <2> QED
    BY <1>2, <2>1 DEF InTurn, Alone
<1>6. ASSUME req'[r].pc \in {"delete", "walk", "drop"}
      PROVE  Target(r) = Root \/ CanRename(tree, Target(r))
  <2>1. CASE req[r].pc \in {"delete", "walk", "drop"}
    BY <2>1 DEF InTurn, Found
  <2>2. CASE GetFile(r) \/ GetDir(r)
    BY <2>2 DEF GetFile, GetDir, Get, HasDir, CanRename
  <2>3. CASE Stored(r)
    BY <1>0, <1>6, <2>3, PcFields DEF Stored, Goto, Labels
  <2>4. CASE StoreFails(r) \/ SaveMeta(r)
    BY <1>0, <1>6, <2>4, IdleFields DEF StoreFails, SaveMeta, Finish
  <2>5. CASE GetNothing(r)
    BY <1>0, <1>6, <2>5, RemovedLabel DEF GetNothing
  <2>6. CASE Renaming(r)
    BY <1>0, <1>6, <2>6, RenameLabel
  <2> QED
    BY <2>1, <2>2, <2>3, <2>4, <2>5, <2>6
    DEF Proceed, DeleteFile, WalkDirs, WalkObjs, WalkEnds, DropMeta, At
<1>7. req'[r].pc \in {"delete", "walk", "drop"} => tree' = tree
  <2>1. SaveMeta(r) => req'[r].pc = "idle"
    BY <1>0, IdleFields DEF SaveMeta, Finish
  <2>2. DropMeta(r) => req'[r].pc \in {"idle", "rename"}
    BY <1>0, RemovedLabel DEF DropMeta
  <2>3. Renaming(r) => req'[r].pc \notin {"delete", "walk", "drop"}
    BY <1>0, RenameLabel
  <2> QED
    BY <2>1, <2>2, <2>3
    DEF Proceed, Stored, StoreFails, GetFile, GetDir, GetNothing, DeleteFile,
        WalkDirs, WalkObjs, WalkEnds, store
<1>8. Copies(req'[r]) => CanRename(tree', req[r].path)
  <2>1. CASE Renaming(r)
    BY <2>1, CopiesFound DEF InTurn
  <2>2. CASE ~Renaming(r)
    <3>1. CASE StoreFails(r) \/ SaveMeta(r)
      BY <1>0, <3>1, IdleFields DEF StoreFails, SaveMeta, Finish, Copies
    <3>2. CASE GetNothing(r) \/ DropMeta(r)
      BY <1>0, <3>2, RemovedLabel DEF GetNothing, DropMeta, Copies
    <3>3. CASE Stored(r) \/ DeleteFile(r) \/ WalkEnds(r)
      <4>1. PICK l \in {"save", "drop"} : Goto(r, l)
        BY <3>3 DEF Stored, DeleteFile, WalkEnds
      <4>2. req'[r].pc = l
        BY <1>0, <4>1, PcFields DEF Goto, Labels
      <4> QED
        BY <4>2 DEF Copies
    <3>4. CASE GetFile(r) \/ GetDir(r) \/ WalkDirs(r) \/ WalkObjs(r)
      <4>0. req[r] \in Request
        BY <1>0
      <4>1. CASE GetFile(r)
        <5>1. req'[r] = [req[r] EXCEPT !.pc = "delete", !.name = tree.files[Target(r)]]
          BY <1>0, <4>1 DEF GetFile
        <5>2. req'[r].pc = "delete"
          BY <4>0, <5>1 DEF Request
        <5> QED
          BY <5>2 DEF Copies
      <4>2. CASE GetDir(r)
        <5>1. req'[r] = [req[r] EXCEPT !.pc = "walk", !.dirs = {Target(r)}]
          BY <1>0, <4>2 DEF GetDir
        <5>2. req'[r].pc = "walk"
          BY <4>0, <5>1 DEF Request
        <5> QED
          BY <5>2 DEF Copies
      <4>3. CASE WalkDirs(r)
        <5>1. PICK d \in req[r].dirs :
                req' = [req EXCEPT ![r].dirs = (@ \ {d}) \cup ReadDirs(tree, d),
                                   ![r].objs = @ \cup ReadFiles(tree, d)]
          BY <4>3 DEF WalkDirs
        <5>2. req'[r].pc = req[r].pc
          BY <1>0, <4>0, <5>1 DEF Request
        <5>3. req'[r].pc = "walk"
          BY <4>3, <5>2 DEF WalkDirs, At
        <5> QED
          BY <5>3 DEF Copies
      <4>4. CASE WalkObjs(r)
        <5>1. PICK n \in req[r].objs : req' = [req EXCEPT ![r].objs = @ \ {n}]
          BY <4>4 DEF WalkObjs
        <5>2. req'[r].pc = req[r].pc
          BY <1>0, <4>0, <5>1 DEF Request
        <5>3. req'[r].pc = "walk"
          BY <4>4, <5>2 DEF WalkObjs, At
        <5> QED
          BY <5>3 DEF Copies
      <4> QED
        BY <3>4, <4>1, <4>2, <4>3, <4>4
    <3> QED
      BY <2>2, <3>1, <3>2, <3>3, <3>4 DEF Proceed
  <2> QED
    BY <2>1, <2>2
<1>9. Found'
  <2>1. \A s \in Procs \ {r} : ~Copies(req'[s])
    BY <1>5 DEF Copies
  <2>2. Copies(req'[r]) => req'[r].path = req[r].path
    BY <1>3 DEF Copies
  <2> QED
    BY <1>3, <1>5, <1>6, <1>7, <1>8, <2>1, <2>2 DEF Found, Target
<1> QED
  BY <1>4, <1>9

\* The next request begins when the last one is over.
LEMMA InTurnStep == VInv /\ InTurn /\ [Next]_vars => InTurn'
<1> SUFFICES ASSUME VInv, InTurn, [Next]_vars PROVE InTurn'
  OBVIOUS
<1>0. serial' = serial
  BY RenameFacts
  DEF Next, Proceed, Stored, StoreFails, SaveMeta, GetFile, GetDir, GetNothing,
      DeleteFile, WalkDirs, WalkObjs, WalkEnds, DropMeta, Arrive, Put,
      PutEmpty, Mkdir, Delete, MoveTo, Expire, Restart, vars, store, aside, serial,
      VInv, TypeOK
<1>1. ASSUME NEW r \in Procs, Arrive(r), serial
      PROVE  (Alone /\ Found)'
  <2>1. \A s \in Procs : req[s].pc = "idle"
    BY <1>1 DEF Arrive, Put, PutEmpty, Mkdir, Delete, MoveTo, CanBegin
  <2>2. req' = req \/ Starts(r)
    BY <1>1, ArriveStep DEF VInv, Begins
  <2>3. \A s \in Procs : req'[s].pc \notin {"delete", "walk", "drop"} /\ ~Copies(req'[s])
    BY <2>1, <2>2 DEF Starts, Copies
  <2>4. \A s \in Procs : req'[s].pc # "idle" => s = r
    BY <2>1, <2>2 DEF Starts
  <2> QED
    BY <2>3, <2>4 DEF Alone, Found
<1>2. CASE Restart
  <2>1. \A r \in Procs : req'[r].pc = "idle"
    BY <1>2, IdleFields DEF Restart
  <2> QED
    BY <2>1 DEF InTurn, Alone, Found, Copies
<1>3. CASE UNCHANGED <<tree, req>>
  BY <1>0, <1>3 DEF InTurn, Alone, Found, Target
<1> QED
  BY <1>0, <1>1, <1>2, <1>3, InTurnProceeds DEF InTurn, Next, Expire, vars, store

\* What meta.RemoveAll and the rename take out of the tree.
LEMMA RemovesBelow ==
    ASSUME NEW t, NEW p \in Seq(STRING), DOMAIN t.files \subseteq Seq(STRING),
           DOMAIN t = {"dirs", "files"},
           p = Root \/ CanRename(t, p), NEW f \in DOMAIN t.files \ DOMAIN RemoveAll(t, p).files
    PROVE  Under(p, f)
<1>1. CASE HasJson(t, p)
  <2>1. f = p
    BY <1>1 DEF RemoveAll, RemoveJson, Restrict
  <2> QED
    BY <2>1 DEF Under, IsPrefix
<1>2. CASE ~HasJson(t, p) /\ p \in t.dirs
  BY <1>2 DEF RemoveAll, DropTree, Restrict
<1>3. CASE p = Root
  BY <1>3 DEF Root, Under, IsPrefix
<1> QED
  BY <1>1, <1>2, <1>3 DEF CanRename

\* A rename takes away the source and what is below it.
LEMMA RenamesBelow ==
    ASSUME NEW t, NEW p \in Seq(STRING), NEW to \in Seq(STRING),
           NEW f \in DOMAIN t.files,
           \/ f \notin DOMAIN RenameFile(t, p, to).files
           \/ f \notin DOMAIN RenameDir(t, p, to).files
    PROVE  Under(p, f)
<1>1. CASE f \notin DOMAIN RenameFile(t, p, to).files
  <2>1. f = p
    BY <1>1 DEF RenameFile, RemoveJson, SaveFile, Restrict
  <2> QED
    BY <2>1 DEF Under, IsPrefix
<1>2. CASE f \notin DOMAIN RenameDir(t, p, to).files
  BY <1>2 DEF RenameDir, DropTree, Restrict
<1> QED
  BY <1>1, <1>2

\* No request that comes alone removes anything but what it was sent for.
THEOREM RemovalsKeepToTheirPath == Spec => RemovesInTurn
<1> DEFINE A == serial => \A f \in DOMAIN tree.files \ DOMAIN tree'.files : AskedFor(f)
<1>1. VInv /\ InTurn /\ [Next]_vars => [A]_vars
  <2> SUFFICES ASSUME VInv, InTurn, Next, serial, NEW f \in DOMAIN tree.files \ DOMAIN tree'.files
               PROVE  AskedFor(f)
    OBVIOUS
  <2>1. /\ DOMAIN tree = {"dirs", "files"} /\ DOMAIN tree.files \subseteq Seq(STRING)
        /\ req \in [Procs -> Request]
    BY DEF VInv, TypeOK, Shape, IsTree
  <2>2. PICK r \in Procs : Proceed(r) \/ Arrive(r)
    BY DEF Next, Expire, Restart
  <2>3. req[r].path \in Seq(STRING) /\ req[r].to \in Seq(STRING)
    BY <2>1 DEF Request
  <2>4. CASE DropMeta(r)
    <3>1. Under(Target(r), f)
      BY <2>1, <2>3, <2>4, RemovesBelow DEF DropMeta, At, InTurn, Found, Target
    <3> QED
      BY <2>4, <3>1 DEF DropMeta, AskedFor
  <2>5. CASE RenameEntry(r)
    BY <2>3, <2>5, RenamesBelow DEF RenameEntry, AskedFor
  <2>8. CASE RemoveSource(r)
    <3>1. tree' = RemoveAll(tree, req[r].path) /\ At(r, "remove")
      BY <2>8 DEF RemoveSource
    <3>2. CanRename(tree, req[r].path)
      BY <3>1 DEF InTurn, Found, Copies, At
    <3>3. Under(req[r].path, f)
      BY <2>1, <2>3, <3>1, <3>2, RemovesBelow
    <3> QED
      BY <3>1, <3>3 DEF AskedFor
  <2>9. Renaming(r) => RenameEntry(r) \/ RemoveSource(r)
    BY RenameGrows DEF VInv
  <2>6. CASE SaveMeta(r)
    BY <2>6 DEF SaveMeta, SaveFile
  <2>7. CASE \E p \in DirPaths : Mkdir(r, p)
    <3>1. PICK p \in DirPaths : tree' = SaveDir(tree, p)
      BY <2>7 DEF Mkdir
    <3> QED
      BY <2>1, <3>1 DEF SaveDir
  <2>10. tree' # tree
    OBVIOUS
  <2>11. CASE Proceed(r)
    BY <2>4, <2>5, <2>6, <2>8, <2>9, <2>10, <2>11
    DEF Proceed, Stored, StoreFails, GetFile, GetDir, GetNothing, DeleteFile,
        WalkDirs, WalkObjs, WalkEnds, store
  <2>12. CASE Arrive(r)
    BY <2>7, <2>10, <2>12 DEF Arrive, Put, PutEmpty, Delete, MoveTo, store
  <2> QED
    BY <2>2, <2>11, <2>12
<1>2. Init => InTurn
  BY IdleFields DEF Init, InTurn, Alone, Found, Copies
<1>3. Spec => [](VInv /\ InTurn)
  BY <1>2, VInvInit, VInvStep, InTurnStep, PTL DEF Spec
<1> QED
  BY <1>1, <1>3, PTL DEF Spec, RemovesInTurn

-----------------------------------------------------------------------------
(* Metadata whose object is gone is explained, if clients tell files from  *)
(* directories by their names.                                             *)

Named(t) ==
    /\ \A f \in DOMAIN t.files : FilePath(f)
    /\ \A d \in t.dirs : DirPath(d)

\* The directories above each file are there.
Rooted(t) == \A f \in DOMAIN t.files : Ancestors(f) \subseteq t.dirs

\* An upload writes a file; a MOVE makes no file of a directory, and copies or
\* writes metadata of files only.
KindOf(q) ==
    /\ q.pc \in {"upload", "save"} => FilePath(q.path)
    /\ Moving(q) => \/ FilePath(q.path) /\ FilePath(q.to)
                    \/ DirPath(q.path) /\ DirPath(q.to)
    /\ q.pc \in {"copyfile", "name", "rewrite"} => FilePath(q.to)
    /\ q.pc = "copydir" => DirPath(q.path) /\ DirPath(q.to)

\* A walk reads nothing but what is below its target.
WalksBelow == \A r \in Procs : \A d \in req[r].dirs : Under(Target(r), d)

\* Objects that are gone, or that a DELETE is going to take away.
Threatens(r, n) == n \in req[r].objs \/ (req[r].pc = "delete" /\ req[r].name = n)
Doomed(n) == n \notin objs \/ \E r \in Procs : Threatens(r, n)

\* A DELETE is at work at the path.
Shielded(f) == \E r \in Procs : Removing(r) /\ Under(Target(r), f)

\* DanglingIsExplained before the objects are gone.
Explained ==
    \A f \in DOMAIN tree.files :
        Doomed(tree.files[f]) => tree.files[f] \in stranded \cup copied \/ Shielded(f)

DInv ==
    /\ Named(tree) /\ Rooted(tree)
    /\ \A r \in Procs : KindOf(req[r])
    /\ WalksBelow /\ Explained

-----------------------------------------------------------------------------
(* Kinds of paths *)

\* No path is one of a file and one of a directory.
LEMMA OneKind ==
    ASSUME NEW p \in Path, FilePath(p)
    PROVE  ~DirPath(p) /\ Len(p) \in 1..Len(p)
<1>1. Len(p) \in 1..Len(p)
  BY DEF Path, Root
<1> QED
  BY <1>1 DEF FilePath, DirPath

\* What is above a file or a directory is a directory.
LEMMA AboveIsDir ==
    ASSUME NEW p \in Seq(STRING), NEW a \in Ancestors(p), FilePath(p) \/ DirPath(p)
    PROVE  DirPath(a)
<1>1. a \in Seq(STRING) /\ Under(a, p) /\ a # p
  BY AboveIt DEF Path, Ancestors
<1>2. ~(Len(p) <= Len(a))
  BY <1>1, UnderSameLength
<1>3. \A i \in 1..Len(a) : a[i] = p[i]
  BY <1>1, UnderNames
<1> QED
  BY <1>1, <1>2, <1>3 DEF FilePath, DirPath

\* Nothing is below a file.
LEMMA NoneBelowFile ==
    ASSUME NEW p \in Path, NEW q \in Path, FilePath(p), FilePath(q), Under(p, q)
    PROVE  p = q
<1>1. p \in Seq(STRING) /\ q \in Seq(STRING) /\ Len(p) \in 1..Len(p)
  BY OneKind DEF Path
<1>2. Len(p) <= Len(q) /\ \A i \in 1..Len(p) : p[i] = q[i]
  BY <1>1, UnderNames
<1>3. q[Len(p)] \in FileNames
  BY <1>1, <1>2 DEF FilePath
<1>4. Len(q) <= Len(p)
  BY <1>1, <1>2, <1>3 DEF FilePath
<1> QED
  BY <1>1, <1>4, UnderSameLength

\* A moved path has the names of the new directory, and then its own.
LEMMA MoveNames ==
    ASSUME NEW p \in Seq(STRING), NEW from \in Seq(STRING), NEW to \in Seq(STRING),
           Under(from, p)
    PROVE  LET m == Move(p, from, to)
           IN  /\ m \in Seq(STRING) /\ Len(from) <= Len(p)
               /\ Len(m) = Len(to) + (Len(p) - Len(from))
               /\ \A i \in 1..Len(to) : m[i] = to[i]
               /\ \A i \in (Len(to) + 1)..Len(m) : m[i] = p[i - Len(to) + Len(from)]
<1> DEFINE rest == SubSeq(p, Len(from) + 1, Len(p))
<1>1. Len(from) <= Len(p) /\ Len(from) \in Nat /\ Len(p) \in Nat /\ Len(to) \in Nat
  BY UnderNames
<1>2. /\ rest \in Seq(STRING) /\ Len(rest) = Len(p) - Len(from)
      /\ \A i \in 1..Len(rest) : rest[i] = p[Len(from) + i]
  BY <1>1
<1>3. Move(p, from, to) = to \o rest
  BY DEF Move
<1> HIDE DEF rest
<1>4. /\ to \o rest \in Seq(STRING) /\ Len(to \o rest) = Len(to) + Len(rest)
      /\ \A i \in 1..Len(to) : (to \o rest)[i] = to[i]
      /\ \A i \in (Len(to) + 1)..Len(to \o rest) : (to \o rest)[i] = rest[i - Len(to)]
  <2>1. /\ to \o rest \in Seq(STRING) /\ Len(to \o rest) = Len(to) + Len(rest)
        /\ \A i \in 1..(Len(to) + Len(rest)) :
             (to \o rest)[i] = IF i <= Len(to) THEN to[i] ELSE rest[i - Len(to)]
    BY <1>2, ConcatProperties
  <2>2. /\ \A i \in 1..Len(to) : i \in 1..(Len(to) + Len(rest)) /\ i <= Len(to)
        /\ \A i \in (Len(to) + 1)..(Len(to) + Len(rest)) :
             i \in 1..(Len(to) + Len(rest)) /\ ~(i <= Len(to))
    BY <1>1, <1>2
  <2> QED
    BY <2>1, <2>2
<1>5. ASSUME NEW i \in (Len(to) + 1)..Len(to \o rest)
      PROVE  (to \o rest)[i] = p[i - Len(to) + Len(from)]
  <2>1. i - Len(to) \in 1..Len(rest) /\ Len(from) + (i - Len(to)) = i - Len(to) + Len(from)
    BY <1>1, <1>2, <1>4
  <2> QED
    BY <1>2, <1>4, <2>1
<1> QED
  BY <1>1, <1>2, <1>3, <1>4, <1>5

\* A file below a directory that moves stays a file, a directory a directory.
LEMMA MoveKinds ==
    ASSUME NEW p \in Seq(STRING), NEW from \in Path, NEW to \in Path, Under(from, p),
           DirPath(from), DirPath(to)
    PROVE  /\ FilePath(p) => FilePath(Move(p, from, to))
           /\ DirPath(p) => DirPath(Move(p, from, to))
<1> DEFINE m == Move(p, from, to)
<1>1. from \in Seq(STRING) /\ to \in Seq(STRING)
  BY DEF Path
<1>2. /\ m \in Seq(STRING) /\ Len(from) <= Len(p)
      /\ Len(m) = Len(to) + (Len(p) - Len(from))
      /\ \A i \in 1..Len(to) : m[i] = to[i]
      /\ \A i \in (Len(to) + 1)..Len(m) : m[i] = p[i - Len(to) + Len(from)]
  BY <1>1, MoveNames
<1> HIDE DEF m
<1>3. \A i \in (Len(to) + 1)..Len(m) : i - Len(to) + Len(from) \in 1..Len(p)
  BY <1>1, <1>2
<1>4. \A i \in 1..Len(m) : i \in 1..Len(to) \/ i \in (Len(to) + 1)..Len(m)
  BY <1>1, <1>2
<1>5. DirPath(p) => DirPath(m)
  BY <1>2, <1>3, <1>4 DEF DirPath
<1>6. ASSUME FilePath(p)
      PROVE  FilePath(m)
  <2>1. Len(from) < Len(p)
    <3>1. p # from
      BY <1>6, OneKind
    <3> QED
      BY <1>1, <1>2, <3>1, UnderSameLength
  <2>2. Len(m) \in (Len(to) + 1)..Len(m) /\ Len(m) - Len(to) + Len(from) = Len(p)
    BY <1>1, <1>2, <2>1
  <2>3. m[Len(m)] \in FileNames
    BY <1>2, <1>6, <2>2 DEF FilePath
  <2>4. m # Root
    BY <1>1, <1>2, <2>2 DEF Root
  <2>5. \A i \in (Len(to) + 1)..(Len(m) - 1) : i - Len(to) + Len(from) \in 1..(Len(p) - 1)
    BY <1>1, <1>2
  <2>6. ASSUME NEW i \in 1..(Len(m) - 1)
        PROVE  m[i] \notin FileNames
    <3>1. CASE i \in 1..Len(to)
      BY <1>2, <3>1 DEF DirPath
    <3>2. CASE i \in (Len(to) + 1)..(Len(m) - 1)
      <4>1. i - Len(to) + Len(from) \in 1..(Len(p) - 1) /\ i \in (Len(to) + 1)..Len(m)
        BY <1>1, <1>2, <2>5, <3>2
      <4>2. m[i] = p[i - Len(to) + Len(from)]
        BY <1>2, <4>1
      <4> QED
        BY <1>6, <4>1, <4>2 DEF FilePath
    <3> QED
      BY <1>1, <1>2, <3>1, <3>2
  <2> QED
    BY <2>3, <2>4, <2>6 DEF FilePath
<1> QED
  BY <1>5, <1>6 DEF m

\* A path above another is one of the directories above it.
LEMMA AncestorOf ==
    ASSUME NEW a \in Path, NEW c \in Seq(STRING), Under(a, c), a # c
    PROVE  a \in Ancestors(c)
<1>0. a \in Seq(STRING) /\ a # Root
  BY DEF Path
<1>1. Len(a) <= Len(c) /\ a = SubSeq(c, 1, Len(a))
  <2>1. Len(a) <= Len(c) /\ \A i \in 1..Len(a) : a[i] = c[i]
    BY <1>0, UnderNames
  <2>2. /\ SubSeq(c, 1, Len(a)) \in Seq(STRING) /\ Len(SubSeq(c, 1, Len(a))) = Len(a)
        /\ \A i \in 1..Len(a) : SubSeq(c, 1, Len(a))[i] = a[i]
    BY <1>0, <2>1
  <2> QED
    BY <1>0, <2>1, <2>2, SeqEqual
<1>2. Len(a) \in 0..Len(c)
  <2>1. Len(a) \in Nat /\ Len(c) \in Nat /\ Len(a) <= Len(c)
    BY <1>0, <1>1
  <2> QED
    BY <2>1
<1>3. a \in Prefixes(c)
  BY <1>1, <1>2 DEF Prefixes
<1> QED
  BY <1>0, <1>3 DEF Ancestors

\* What is above a moved path: what is above the new directory, that
\* directory, and what has moved along.
LEMMA MoveAbove ==
    ASSUME NEW p \in Seq(STRING), NEW from \in Path, NEW to \in Path, Under(from, p),
           NEW a \in Ancestors(Move(p, from, to))
    PROVE  \/ a \in Ancestors(to)
           \/ a = Move(from, from, to)
           \/ \E b \in Ancestors(p) : Under(from, b) /\ a = Move(b, from, to)
<1> DEFINE m == Move(p, from, to)
           b == SubSeq(p, 1, Len(a) - Len(to) + Len(from))
<1>1. from \in Seq(STRING) /\ to \in Seq(STRING) /\ Len(from) \in Nat /\ Len(to) \in Nat
      /\ from # Root
  BY DEF Path
<1>2. /\ m \in Seq(STRING) /\ Len(from) <= Len(p)
      /\ Len(m) = Len(to) + (Len(p) - Len(from))
      /\ \A i \in 1..Len(to) : m[i] = to[i]
      /\ \A i \in (Len(to) + 1)..Len(m) : m[i] = p[i - Len(to) + Len(from)]
  BY <1>1, MoveNames
<1> HIDE DEF m
<1>3. a \in Seq(STRING) /\ a # Root /\ Under(a, m) /\ a # m
  BY <1>2, AboveIt DEF Path, Ancestors, m
<1>4. Len(a) < Len(m) /\ \A i \in 1..Len(a) : a[i] = m[i]
  BY <1>2, <1>3, UnderNames, UnderSameLength
<1>5. \A c \in Seq(STRING) : Under(a, c) /\ a # c => a \in Ancestors(c)
  BY <1>3, AncestorOf DEF Path
<1>6. CASE Len(a) <= Len(to)
  <2>1. Under(a, to)
    BY <1>1, <1>2, <1>3, <1>4, <1>6, UnderNames
  <2>2. CASE a = to
    <3>1. Under(from, from)
      BY <1>1, UnderNames
    <3>2. /\ Move(from, from, to) \in Seq(STRING) /\ Len(Move(from, from, to)) = Len(to)
          /\ \A i \in 1..Len(to) : Move(from, from, to)[i] = to[i]
      BY <1>1, <3>1, MoveNames
    <3> QED
      BY <1>1, <2>2, <3>2, SeqEqual
  <2> QED
    BY <1>1, <1>5, <2>1, <2>2
<1>7. CASE Len(to) < Len(a)
  <2>1. Len(a) - Len(to) + Len(from) \in (Len(from) + 1)..(Len(p) - 1)
    BY <1>1, <1>2, <1>3, <1>4, <1>7
  <2>2. /\ b \in Seq(STRING) /\ Len(b) = Len(a) - Len(to) + Len(from)
        /\ \A i \in 1..Len(b) : b[i] = p[i]
    BY <1>1, <2>1
  <2>3. b \in Prefixes(p)
    <3>1. Len(a) - Len(to) + Len(from) \in 0..Len(p)
      BY <1>1, <2>1
    <3> QED
      BY <3>1 DEF Prefixes
  <2> HIDE DEF b
  <2>4. b # Root /\ b # p
    BY <1>1, <2>1, <2>2 DEF Root
  <2>5. Under(from, b)
    <3>1. \A i \in 1..Len(from) : from[i] = p[i]
      BY <1>1, UnderNames
    <3>2. from \in Seq(STRING) /\ Len(from) \in Nat /\ Len(b) \in Nat
          /\ Len(from) <= Len(b)
      BY <1>1, <2>1, <2>2
    <3>3. \A i \in 1..Len(from) : i \in 1..Len(b)
      BY <3>2
    <3>4. \A i \in 1..Len(from) : from[i] = b[i]
      BY <2>2, <3>1, <3>3
    <3> QED
      BY <2>2, <3>2, <3>4, UnderNames
  <2>6. /\ Move(b, from, to) \in Seq(STRING) /\ Len(Move(b, from, to)) = Len(a)
        /\ \A i \in 1..Len(to) : Move(b, from, to)[i] = to[i]
        /\ \A i \in (Len(to) + 1)..Len(a) :
              Move(b, from, to)[i] = b[i - Len(to) + Len(from)]
    <3>1. Len(to) + (Len(b) - Len(from)) = Len(a)
      BY <1>1, <1>3, <2>2
    <3> QED
      BY <1>1, <2>2, <2>5, <3>1, MoveNames
  <2>7. ASSUME NEW i \in 1..Len(a)
        PROVE  a[i] = Move(b, from, to)[i]
    <3>1. CASE i \in 1..Len(to)
      BY <1>2, <1>4, <2>6, <3>1
    <3>2. CASE i \in (Len(to) + 1)..Len(a)
      <4>1. i - Len(to) + Len(from) \in 1..Len(b) /\ i \in (Len(to) + 1)..Len(m)
        BY <1>1, <1>2, <1>4, <2>2, <3>2
      <4> QED
        BY <1>2, <1>4, <2>2, <2>6, <3>2, <4>1
    <3> QED
      BY <1>1, <1>3, <3>1, <3>2
  <2>8. a = Move(b, from, to)
    BY <1>3, <2>6, <2>7, SeqEqual
  <2>9. b \in Ancestors(p)
    BY <2>3, <2>4 DEF Ancestors
  <2> QED
    BY <2>5, <2>8, <2>9
<1> QED
  BY <1>1, <1>3, <1>6, <1>7

-----------------------------------------------------------------------------
(* Trees whose paths say what they are *)

\* The paths of a tree are of their kinds, each below directories it has.
Arranged(t) == Named(t) /\ Rooted(t)

\* An upload puts a file where there can be one.
LEMMA SaveFileArranged ==
    ASSUME NEW N, NEW t, IsTree(t, N), Arranged(t), NEW p \in Path, FilePath(p), NEW n
    PROVE  Arranged(SaveFile(t, p, n))
<1> DEFINE u == SaveFile(t, p, n)
<1>1. u.dirs = t.dirs \cup Ancestors(p) /\ DOMAIN u.files = DOMAIN t.files \cup {p}
  BY DEF SaveFile
<1>2. \A a \in Ancestors(p) : DirPath(a)
  BY AboveIsDir DEF Path
<1> HIDE DEF u
<1>3. Named(u)
  BY <1>1, <1>2 DEF Arranged, Named
<1>4. Rooted(u)
  BY <1>1 DEF Arranged, Rooted
<1> QED
  BY <1>3, <1>4 DEF Arranged, u

\* MKCOL
LEMMA SaveDirArranged ==
    ASSUME NEW t, DOMAIN t = {"dirs", "files"}, Arranged(t),
           NEW p \in Seq(STRING), DirPath(p)
    PROVE  Arranged(SaveDir(t, p))
<1>1. /\ SaveDir(t, p).dirs = t.dirs \cup Ancestors(p) \cup ({p} \ {Root})
      /\ SaveDir(t, p).files = t.files
  BY DEF SaveDir
<1>2. \A a \in Ancestors(p) : DirPath(a)
  BY AboveIsDir
<1> QED
  BY <1>1, <1>2 DEF Arranged, Named, Rooted

\* The directories made for a destination.
LEMMA MakeParentsArranged ==
    ASSUME NEW t, DOMAIN t = {"dirs", "files"}, Arranged(t),
           NEW p \in Seq(STRING), FilePath(p) \/ DirPath(p)
    PROVE  Arranged(MakeParents(t, p))
<1>1. /\ MakeParents(t, p).dirs = t.dirs \cup Ancestors(p)
      /\ MakeParents(t, p).files = t.files
  BY DEF MakeParents
<1>2. \A a \in Ancestors(p) : DirPath(a)
  BY AboveIsDir
<1> QED
  BY <1>1, <1>2 DEF Arranged, Named, Rooted

\* RemoveAll leaves no file at or below its target.
LEMMA RemoveAllArranged ==
    ASSUME NEW N, NEW t, IsTree(t, N), DOMAIN t = {"dirs", "files"}, Arranged(t),
           NEW p \in Seq(STRING)
    PROVE  LET u == RemoveAll(t, p)
           IN  /\ Arranged(u) /\ DOMAIN u.files \subseteq DOMAIN t.files
               /\ \A f \in DOMAIN u.files : u.files[f] = t.files[f] /\ ~Under(p, f)
<1> DEFINE u == RemoveAll(t, p)
<1>1. t.dirs \subseteq Path /\ DOMAIN t.files \subseteq Path /\ Named(t) /\ Rooted(t)
  BY TreeParts DEF Arranged
<1>2. CASE HasJson(t, p)
  <2>1. u.dirs = t.dirs /\ u.files = Restrict(t.files, DOMAIN t.files \ {p})
    BY <1>2 DEF RemoveAll, RemoveJson
  <2> HIDE DEF u
  <2>2. /\ DOMAIN u.files = DOMAIN t.files \ {p}
        /\ \A f \in DOMAIN u.files : u.files[f] = t.files[f]
    BY <2>1 DEF Restrict
  <2>3. \A f \in DOMAIN u.files : ~Under(p, f)
    <3>1. p \in Path /\ FilePath(p) /\ \A f \in DOMAIN u.files : FilePath(f) /\ f \in Path
      BY <1>1, <1>2, <2>2 DEF HasJson, Named
    <3> QED
      BY <2>2, <3>1, NoneBelowFile
  <2>4. Arranged(u)
    BY <1>1, <2>1, <2>2 DEF Arranged, Named, Rooted
  <2> QED
    BY <2>2, <2>3, <2>4 DEF u
<1>3. CASE ~HasJson(t, p) /\ p \in t.dirs
  <2>1. /\ u.dirs = {d \in t.dirs : ~Under(p, d)}
        /\ u.files = Restrict(t.files, {f \in DOMAIN t.files : ~Under(p, f)})
    BY <1>3 DEF RemoveAll, DropTree
  <2> HIDE DEF u
  <2>2. /\ DOMAIN u.files = {f \in DOMAIN t.files : ~Under(p, f)}
        /\ \A f \in DOMAIN u.files : u.files[f] = t.files[f]
    BY <2>1 DEF Restrict
  <2>3. Rooted(u)
    <3> SUFFICES ASSUME NEW f \in DOMAIN u.files, NEW a \in Ancestors(f)
                 PROVE  a \in t.dirs /\ ~Under(p, a)
      BY <2>1 DEF Rooted
    <3>1. f \in Seq(STRING) /\ ~Under(p, f) /\ a \in t.dirs
      BY <1>1, <2>2 DEF Path, Rooted
    <3>2. a \in Seq(STRING) /\ Under(a, f)
      BY <3>1, AboveIt DEF Path
    <3> QED
      BY <3>1, <3>2, UnderTransitive
  <2>4. Named(u)
    BY <1>1, <2>1, <2>2 DEF Named
  <2> QED
    BY <2>2, <2>3, <2>4 DEF u, Arranged
<1>4. CASE ~HasJson(t, p) /\ p \notin t.dirs
  <2>1. u = EmptyTree
    BY <1>4 DEF RemoveAll
  <2> HIDE DEF u
  <2>2. DOMAIN u.files = {} /\ u.dirs = {}
    BY <2>1 DEF EmptyTree
  <2> QED
    BY <2>2 DEF u, Arranged, Named, Rooted
<1> QED
  BY <1>2, <1>3, <1>4

\* A rename of a file to where there can be one.
LEMMA RenameFileArranged ==
    ASSUME NEW N, NEW t, IsTree(t, N), Arranged(t), NEW from, NEW to \in Path, FilePath(to)
    PROVE  Arranged(RenameFile(t, from, to))
<1> DEFINE s == SaveFile(t, to, t.files[from])
           u == RenameFile(t, from, to)
<1>1. Arranged(s) /\ DOMAIN s = {"dirs", "files"}
  BY SaveFileArranged DEF SaveFile
<1>2. u = RemoveJson(s, from)
  BY DEF RenameFile
<1> HIDE DEF s, u
<1>3. u.dirs = s.dirs /\ DOMAIN u.files \subseteq DOMAIN s.files
  BY <1>1, <1>2 DEF RemoveJson, Restrict
<1>4. Arranged(u)
  BY <1>1, <1>3 DEF Arranged, Named, Rooted
<1> QED
  BY <1>4 DEF u

\* A directory takes all that is below it along.
LEMMA RenameDirArranged ==
    ASSUME NEW N, NEW t, IsTree(t, N), Arranged(t), NEW from \in Path, NEW to \in Path,
           DirPath(from), DirPath(to), from \in t.dirs
    PROVE  Arranged(RenameDir(t, from, to))
<1> DEFINE stays == {f \in DOMAIN t.files : ~Under(from, f)}
           image == {Move(g, from, to) : g \in {f \in DOMAIN t.files : Under(from, f)}}
           dirs == {d \in t.dirs : ~Under(from, d)} \cup Ancestors(to)
                     \cup {Move(d, from, to) : d \in {e \in t.dirs : Under(from, e)}}
           u == RenameDir(t, from, to)
<1>1. u.dirs = dirs /\ DOMAIN u.files = image \cup stays
  BY DEF RenameDir, DropTree, Restrict
<1>2. t.dirs \subseteq Path /\ DOMAIN t.files \subseteq Path /\ Named(t) /\ Rooted(t)
      /\ from \in Seq(STRING)
  BY TreeParts DEF Arranged, Path
<1> HIDE DEF u
<1>3. Named(u)
  <2>1. \A f \in image \cup stays : FilePath(f)
    BY <1>2, MoveKinds DEF Named, Path
  <2>2. \A d \in dirs : DirPath(d)
    <3>1. \A d \in Ancestors(to) : DirPath(d)
      BY AboveIsDir DEF Path
    <3> QED
      BY <1>2, <3>1, MoveKinds DEF Named, Path
  <2> QED
    BY <1>1, <2>1, <2>2 DEF Named
<1>4. Rooted(u)
  <2>1. ASSUME NEW f \in stays, NEW a \in Ancestors(f)
        PROVE  a \in dirs
    <3>1. f \in Seq(STRING) /\ ~Under(from, f) /\ a \in t.dirs
      BY <1>2 DEF Path, Rooted
    <3>2. a \in Seq(STRING) /\ Under(a, f)
      BY <3>1, AboveIt DEF Path
    <3> QED
      BY <1>2, <3>1, <3>2, UnderTransitive
  <2>2. ASSUME NEW g \in DOMAIN t.files, Under(from, g),
               NEW a \in Ancestors(Move(g, from, to))
        PROVE  a \in dirs
    <3>1. Under(from, from)
      BY <1>2, UnderNames
    <3>2. \A b \in Ancestors(g) : b \in t.dirs
      BY <1>2 DEF Rooted
    <3>3. g \in Seq(STRING)
      BY <1>2 DEF Path
    <3> QED
      BY <2>2, <3>1, <3>2, <3>3, MoveAbove
  <2> QED
    BY <1>1, <2>1, <2>2 DEF Rooted
<1> QED
  BY <1>3, <1>4 DEF Arranged, u

\* copyDir copies no file without the directories above it.
LEMMA CopyTreeArranged ==
    ASSUME NEW N, NEW t, IsTree(t, N), Arranged(t), NEW from \in Path, NEW to \in Path,
           DirPath(from), DirPath(to), NEW S \in Parts(t, from, to)
    PROVE  Arranged(CopyTree(t, from, to, S))
<1> DEFINE image == {Move(g, from, to) : g \in S \cap DOMAIN t.files}
           dirs == t.dirs \cup (IF S = {} THEN {} ELSE Ancestors(to))
                     \cup {Move(d, from, to) : d \in S \cap t.dirs}
           u == CopyTree(t, from, to, S)
<1>1. u.dirs = dirs /\ DOMAIN u.files = image \cup DOMAIN t.files
  BY DEF CopyTree
<1>2. t.dirs \subseteq Path /\ DOMAIN t.files \subseteq Path /\ Named(t) /\ Rooted(t)
      /\ from \in Seq(STRING)
  BY TreeParts DEF Arranged, Path
<1>3. \A p \in S : /\ p \in t.dirs \cup DOMAIN t.files /\ Under(from, p)
                   /\ \A a \in Ancestors(p) : Under(from, a) => a \in S
  BY DEF Parts, Below
<1> HIDE DEF u
<1>4. Named(u)
  <2>1. \A f \in image \cup DOMAIN t.files : FilePath(f)
    BY <1>2, <1>3, MoveKinds DEF Named, Path
  <2>2. \A d \in dirs : DirPath(d)
    <3>1. \A d \in Ancestors(to) : DirPath(d)
      BY AboveIsDir DEF Path
    <3> QED
      BY <1>2, <1>3, <3>1, MoveKinds DEF Named, Path
  <2> QED
    BY <1>1, <2>1, <2>2 DEF Named
<1>5. Rooted(u)
  <2>1. ASSUME NEW f \in DOMAIN t.files, NEW a \in Ancestors(f)
        PROVE  a \in dirs
    BY <1>2, <2>1 DEF Rooted
  <2>2. ASSUME NEW g \in S \cap DOMAIN t.files, NEW a \in Ancestors(Move(g, from, to))
        PROVE  a \in dirs
    <3>1. Under(from, from)
      BY <1>2, UnderNames
    <3>2. \A b \in Ancestors(g) : b \in t.dirs
      BY <1>2 DEF Rooted
    <3>3. g \in Path /\ g \in Seq(STRING) /\ Under(from, g) /\ FilePath(g)
      BY <1>2, <1>3 DEF Path, Named
    <3>4. from # g
      BY <3>3, OneKind
    <3>5. from \in Ancestors(g)
      BY <3>3, <3>4, AncestorOf
    <3>6. from \in S \cap t.dirs
      BY <1>3, <3>1, <3>2, <3>5
    <3>7. \A b \in Ancestors(g) : Under(from, b) => b \in S \cap t.dirs
      BY <1>3, <3>2
    <3>8. \/ a \in Ancestors(to)
          \/ a = Move(from, from, to)
          \/ \E b \in Ancestors(g) : Under(from, b) /\ a = Move(b, from, to)
      BY <2>2, <3>3, MoveAbove
    <3> QED
      BY <3>6, <3>7, <3>8
  <2> QED
    BY <1>1, <2>1, <2>2 DEF Rooted
<1> QED
  BY <1>4, <1>5 DEF Arranged, u

-----------------------------------------------------------------------------
(* The kinds that requests keep *)

\* Only a rename copies and writes back.
LEMMA OtherLabel ==
    ASSUME req \in [Procs -> Request], NEW r \in Procs, Proceed(r), ~Renaming(r)
    PROVE  req'[r].pc \notin {"copyfile", "copydir", "name", "rewrite"}
<1>1. CASE Removed(r) \/ Finish(r)
  BY <1>1, RemovedLabel
<1>2. CASE \E l \in {"save", "drop"} : Goto(r, l)
  BY <1>2, PcFields DEF Goto, Labels
<1>3. CASE GetFile(r)
  BY <1>3 DEF GetFile, Request
<1>4. CASE GetDir(r)
  BY <1>4 DEF GetDir, Request
<1>5. CASE WalkDirs(r) \/ WalkObjs(r)
  <2>1. req'[r].pc = req[r].pc /\ req[r].pc = "walk"
    BY <1>5 DEF WalkDirs, WalkObjs, Request, At
  <2> QED
    BY <2>1
<1> QED
  BY <1>1, <1>2, <1>3, <1>4, <1>5
  DEF Proceed, Stored, StoreFails, SaveMeta, GetNothing, DeleteFile, WalkEnds, DropMeta

\* A running request goes on with the paths it has.
LEMMA KindsProceed ==
    ASSUME VInv, Named(tree), \A s \in Procs : KindOf(req[s]), NEW r \in Procs, Proceed(r)
    PROVE  \A s \in Procs : KindOf(req'[s])
<1>1. ReqKept(r) /\ req \in [Procs -> Request]
  BY ReqStep DEF VInv, TypeOK
<1>2. PICK q : Keeps(r, q) /\ req' = [req EXCEPT ![r] = q]
  BY <1>1 DEF ReqKept
<1>3. /\ q.pc \in {"upload", "save"} => FilePath(q.path)
      /\ Moving(q) => \/ FilePath(q.path) /\ FilePath(q.to)
                      \/ DirPath(q.path) /\ DirPath(q.to)
  BY <1>2 DEF Keeps, KindOf, InFlight
<1>4. req'[r] = q
  BY <1>1, <1>2
<1>5. /\ q.pc \in {"copyfile", "name", "rewrite"} => FilePath(q.to)
      /\ q.pc = "copydir" => DirPath(q.path) /\ DirPath(q.to)
  <2>1. CASE ~Renaming(r)
    BY <1>1, <1>4, <2>1, OtherLabel
  <2>2. CASE Renaming(r) /\ q.pc \in {"copyfile", "copydir", "name", "rewrite"}
    <3>1. q.path = req[r].path /\ q.to = req[r].to /\ Moving(q)
      BY <1>2, <2>2 DEF Keeps, Moving, RenamePcs
    <3>2. CASE At(r, "rename") /\ HasJson(tree, req[r].path) /\ q.pc # "copydir"
      <4>1. q.path \in Path /\ FilePath(q.path)
        BY <3>1, <3>2, TreeParts DEF HasJson, Named, VInv, TypeOK
      <4> QED
        BY <1>3, <3>1, <3>2, <4>1, OneKind
    <3>3. CASE At(r, "rename") /\ req[r].path \in tree.dirs /\ q.pc = "copydir"
      <4>1. q.path \in Path /\ DirPath(q.path)
        BY <3>1, <3>3, TreeParts DEF Named, VInv, TypeOK
      <4> QED
        BY <1>3, <3>1, <3>3, <4>1, OneKind
    <3>4. CASE (At(r, "copyfile") \/ At(r, "name")) /\ q.pc # "copydir"
      BY <3>1, <3>4 DEF KindOf, At
    <3>5. q.pc # "idle" /\ q.pc # "remove"
      BY <2>2
    <3>6. ~Finish(r) /\ ~Goto(r, "remove")
      <4>1. Finish(r) => q.pc = "idle"
        BY <1>1, <1>4, IdleFields DEF Finish
      <4>2. Goto(r, "remove") => q.pc = "remove"
        <5>1. Goto(r, "remove") => q = [req[r] EXCEPT !.pc = "remove"]
          BY <1>1, <1>4 DEF Goto
        <5>2. req[r] \in Request /\ "remove" \in Labels
          BY <1>1 DEF Labels, RenamePcs
        <5>3. [req[r] EXCEPT !.pc = "remove"].pc = "remove"
          BY <5>2, PcFields
        <5> QED
          BY <5>1, <5>3, Zenon
      <4> QED
        BY <3>5, <4>1, <4>2
    <3>7. ASSUME NEW l \in {"name", "copyfile", "copydir"}, Goto(r, l)
          PROVE  q.pc = l
      <4>1. q = [req[r] EXCEPT !.pc = l]
        BY <1>1, <1>4, <3>7 DEF Goto
      <4>2. req[r] \in Request /\ l \in Labels
        BY <1>1 DEF Labels, RenamePcs
      <4> QED
        BY <4>1, <4>2, PcFields
    <3>8. req' = [req EXCEPT ![r].pc = "name", ![r].copying = TRUE] => q.pc = "name"
      BY <1>1, <1>4 DEF Request
    <3>9. req' = [req EXCEPT ![r].pc = "rewrite", ![r].name = tree.files[req[r].to]]
            => q.pc = "rewrite"
      BY <1>1, <1>4 DEF Request
    <3> QED
      BY <2>2, <3>2, <3>3, <3>4, <3>6, <3>7, <3>8, <3>9, RenameGoesOn DEF RenameLeads
  <2> QED
    BY <2>1, <2>2
<1> QED
  BY <1>1, <1>2, <1>3, <1>4, <1>5 DEF KindOf

\* Clients send uploads to files and moves within a kind.
LEMMA KindsArrive ==
    ASSUME KindsByName, VInv, \A s \in Procs : KindOf(req[s]), NEW r \in Procs, Arrive(r)
    PROVE  \A s \in Procs : KindOf(req'[s])
<1>1. req \in [Procs -> Request] /\ nextName \in Nat \ {0} /\ usage \in Usages
  BY DEF VInv, TypeOK
<1>2. /\ \A p \in FilePaths : FilePath(p) /\ p \in Seq(STRING)
      /\ \A p \in DirPaths : DirPath(p) /\ p \in Seq(STRING)
  BY <1>1, PathAssumption, UsageAssumption DEF KindsByName, DirPaths
<1>3. ASSUME NEW p \in FilePaths, Put(r, p)
      PROVE  KindOf(req'[r]) /\ \A s \in Procs \ {r} : req'[s] = req[s]
  <2> DEFINE q == Opened("put", p, p, "upload", nextName)
  <2>1. q.pc = "upload" /\ q.op = "put" /\ q.path = p
    BY DEF Opened, Idle
  <2>2. req' = [req EXCEPT ![r] = q]
    BY <1>3 DEF Put, Begin, Opened
  <2> HIDE DEF q
  <2> QED
    BY <1>1, <1>2, <2>1, <2>2 DEF KindOf, Moving, RenamePcs
<1>4. ASSUME NEW p \in Paths, Delete(r, p)
      PROVE  KindOf(req'[r]) /\ \A s \in Procs \ {r} : req'[s] = req[s]
  <2> DEFINE q == Opened("delete", p, p, "get", 0)
  <2>1. q.pc = "get" /\ q.op = "delete"
    BY DEF Opened, Idle
  <2>2. req' = [req EXCEPT ![r] = q]
    BY <1>4 DEF Delete, Begin, Opened
  <2> HIDE DEF q
  <2> QED
    BY <1>1, <2>1, <2>2 DEF KindOf, Moving, RenamePcs
<1>5. ASSUME NEW p \in Paths, NEW d \in Paths, MoveTo(r, p, d)
      PROVE  KindOf(req'[r]) /\ \A s \in Procs \ {r} : req'[s] = req[s]
  <2>1. PICK l \in {"get", "rename"} : Begin(r, "move", p, d, l, 0)
    BY <1>5 DEF MoveTo
  <2> DEFINE q == Opened("move", p, d, l, 0)
  <2>2. q.pc = l /\ q.path = p /\ q.to = d
    BY DEF Opened, Idle
  <2>3. req' = [req EXCEPT ![r] = q]
    BY <2>1 DEF Begin, Opened
  <2>4. (FilePath(p) /\ FilePath(d)) \/ (DirPath(p) /\ DirPath(d))
    BY <1>2, <1>5 DEF MoveTo
  <2> HIDE DEF q
  <2> QED
    BY <1>1, <2>1, <2>2, <2>3, <2>4 DEF KindOf
<1>6. CASE req' = req
  BY <1>6
<1> QED
  BY <1>3, <1>4, <1>5, <1>6 DEF Arrive, PutEmpty, Mkdir

\* Steps keep the tree as it is arranged.
LEMMA ArrangedStep ==
    ASSUME KindsByName, VInv, DInv, [Next]_vars
    PROVE  Arranged(tree')
<1>1. /\ Arranged(tree) /\ IsTree(tree, Names) /\ DOMAIN tree = {"dirs", "files"}
      /\ req \in [Procs -> Request] /\ tree.dirs \subseteq Path
      /\ DOMAIN tree.files \subseteq Path
  BY TreeParts DEF VInv, DInv, TypeOK, Shape, Arranged
<1>2. ASSUME NEW r \in Procs, SaveMeta(r)
      PROVE  Arranged(tree')
  <2>1. req[r].path \in Seq(STRING) /\ req[r].path # Root /\ FilePath(req[r].path)
    BY <1>1, <1>2 DEF SaveMeta, At, Request, VInv, Shape, InFlight, DInv, KindOf
  <2>2. tree' = SaveFile(tree, req[r].path, req[r].name) /\ req[r].path \in Path
    BY <1>2, <2>1 DEF SaveMeta, Path
  <2> QED
    BY <1>1, <2>1, <2>2, SaveFileArranged
<1>3. ASSUME NEW r \in Procs, DropMeta(r)
      PROVE  Arranged(tree')
  <2>1. tree' = RemoveAll(tree, req[r].to) /\ req[r].to \in Seq(STRING)
    BY <1>1, <1>3 DEF DropMeta, Target, Request
  <2> QED
    BY <1>1, <2>1, RemoveAllArranged
<1>4. ASSUME NEW r \in Procs, Renaming(r)
      PROVE  Arranged(tree')
  <2> DEFINE from == req[r].path
             to == req[r].to
  <2>1. from \in Seq(STRING) /\ to \in Path /\ Moving(req[r])
    <3>1. req[r] \in Request /\ Moving(req[r])
      BY <1>1, <1>4, RenameFacts DEF Moving
    <3> QED
      BY <3>1 DEF Request, VInv, Shape, Path
  <2>2. /\ (FilePath(from) /\ FilePath(to)) \/ (DirPath(from) /\ DirPath(to))
        /\ req[r].pc \in {"copyfile", "name", "rewrite"} => FilePath(to)
        /\ req[r].pc = "copydir" => DirPath(from) /\ DirPath(to)
    BY <2>1 DEF DInv, KindOf
  <2>3. HasJson(tree, from) => from \in Path /\ FilePath(from) /\ FilePath(to)
    <3>1. HasJson(tree, from) => from \in Path /\ FilePath(from)
      BY <1>1 DEF HasJson, Arranged, Named
    <3> QED
      BY <2>2, <3>1, OneKind
  <2>4. from \in tree.dirs => from \in Path /\ DirPath(from) /\ DirPath(to)
    <3>1. from \in tree.dirs => from \in Path /\ DirPath(from)
      BY <1>1 DEF Arranged, Named
    <3> QED
      BY <2>2, <3>1, OneKind
  <2> HIDE DEF from, to
  <2>5. CASE tree' = tree
    BY <1>1, <2>5
  <2>6. CASE HasJson(tree, from) /\ tree' = RenameFile(tree, from, to)
    BY <1>1, <2>1, <2>3, <2>6, RenameFileArranged
  <2>7. CASE from \in tree.dirs /\ tree' = RenameDir(tree, from, to)
    BY <1>1, <2>1, <2>4, <2>7, RenameDirArranged
  <2>8. CASE tree' = MakeParents(tree, to)
    BY <1>1, <2>1, <2>2, <2>8, MakeParentsArranged DEF Path
  <2>9. ASSUME NEW n, req[r].pc \in {"copyfile", "rewrite"}, tree' = SaveFile(tree, to, n)
        PROVE  Arranged(tree')
    BY <1>1, <2>1, <2>2, <2>9, SaveFileArranged
  <2>10. ASSUME NEW S \in Parts(tree, from, to), from \in tree.dirs,
                tree' = CopyTree(tree, from, to, S)
         PROVE  Arranged(tree')
    <3>1. from \in Path /\ DirPath(from) /\ DirPath(to) /\ S \in Parts(tree, from, to)
      BY <2>4, <2>10
    <3> QED
      BY <1>1, <2>1, <2>10, <3>1, CopyTreeArranged
  <2>11. CASE tree' = RemoveAll(tree, from)
    BY <1>1, <2>1, <2>11, RemoveAllArranged
  <2>12. CASE RenameEntry(r)
    BY <2>5, <2>6, <2>7, <2>12 DEF RenameEntry, from, to
  <2>13. CASE RenameRefused(r)
    BY <2>8, <2>13 DEF RenameRefused, to
  <2>14. CASE CopyFile(r)
    BY <2>5, <2>9, <2>14 DEF CopyFile, At, from, to
  <2>15. CASE CopyDir(r)
    BY <2>5, <2>10, <2>15 DEF CopyDir, from, to
  <2>16. CASE ReadName(r)
    BY <2>5, <2>16 DEF ReadName
  <2>17. CASE WriteName(r)
    BY <2>5, <2>9, <2>17 DEF WriteName, At, to
  <2>18. CASE RemoveSource(r)
    BY <2>5, <2>11, <2>18 DEF RemoveSource, from
  <2> QED
    BY <1>4, <2>12, <2>13, <2>14, <2>15, <2>16, <2>17, <2>18 DEF Renaming
<1>5. ASSUME NEW r \in Procs, NEW p \in DirPaths, Mkdir(r, p)
      PROVE  Arranged(tree')
  <2>1. p \in Seq(STRING) /\ DirPath(p)
    BY PathTypes DEF VInv, TypeOK, KindsByName, DirPaths
  <2>2. tree' = SaveDir(tree, p)
    BY <1>5 DEF Mkdir
  <2> QED
    BY <1>1, <2>1, <2>2, SaveDirArranged
<1>6. CASE tree' = tree
  BY <1>1, <1>6
<1> QED
  BY <1>2, <1>3, <1>4, <1>5, <1>6
  DEF Next, Proceed, Stored, StoreFails, GetFile, GetDir, GetNothing, DeleteFile,
      WalkDirs, WalkObjs, WalkEnds, Arrive, Put, PutEmpty, Delete, MoveTo, Expire, Restart,
      vars, store

-----------------------------------------------------------------------------
(* What a step leaves behind *)

\* No file of the tree is at or below p.
NoneUnder(p) == \A f \in DOMAIN tree.files : ~Under(p, f)

\* A step of one request that leaves the tree alone: it only takes objects away
\* that its request threatens, it only threatens what is below its target, and
\* it stops to be at work where nothing is left.
LEMMA FrameStep ==
    ASSUME VInv, DInv, NEW r \in Procs, \A s \in Procs \ {r} : req'[s] = req[s],
           tree' = tree, stranded' = stranded, copied' = copied,
           \A d \in req'[r].dirs : Under(req'[r].to, d),
           \A n \in objs \ objs' : Threatens(r, n),
           \A n : Threatens(r, n)' =>
               \/ Threatens(r, n)
               \/ \E f \in DOMAIN tree.files :
                    tree.files[f] = n /\ Removing(r) /\ Under(Target(r), f),
           Removing(r) => \/ Removing(r)' /\ req'[r].to = req[r].to
                          \/ NoneUnder(Target(r))
    PROVE  WalksBelow' /\ Explained'
<1>1. WalksBelow'
  BY DEF DInv, WalksBelow, Target
<1>2. ASSUME NEW f \in DOMAIN tree.files, Shielded(f)
      PROVE  Shielded(f)'
  <2>1. PICK s \in Procs : Removing(s) /\ Under(Target(s), f)
    BY <1>2 DEF Shielded
  <2>2. CASE s = r
    BY <2>1, <2>2 DEF Shielded, NoneUnder, Target
  <2>3. CASE s # r
    BY <2>1, <2>3 DEF Shielded, Removing, Target
  <2> QED
    BY <2>2, <2>3
<1>3. ASSUME NEW f \in DOMAIN tree.files, NEW n, n = tree.files[f], Doomed(n)'
      PROVE  n \in stranded \cup copied \/ Shielded(f)
  <2>1. CASE Doomed(n)
    BY <1>3, <2>1 DEF DInv, Explained
  <2>2. CASE n \notin objs'
    BY <2>1, <2>2 DEF Doomed
  <2>3. ASSUME NEW s \in Procs, Threatens(s, n)'
        PROVE  n \in stranded \cup copied \/ Shielded(f)
    <3>1. CASE s = r
      <4>1. CASE Threatens(r, n)
        BY <2>1, <4>1 DEF Doomed
      <4>2. ASSUME NEW g \in DOMAIN tree.files, tree.files[g] = n, Removing(r),
                   Under(Target(r), g)
            PROVE  n \in copied \/ Shielded(f)
        <5>1. g = f \/ n \in copied
          BY <1>3, <4>2 DEF VInv, UniqueOwner
        <5> QED
          BY <4>2, <5>1 DEF Shielded
      <4> QED
        BY <2>3, <3>1, <4>1, <4>2
    <3>2. CASE s # r
      <4>1. Threatens(s, n)
        BY <2>3, <3>2 DEF Threatens
      <4> QED
        BY <2>1, <4>1 DEF Doomed
    <3> QED
      BY <3>1, <3>2
  <2> QED
    BY <1>3, <2>2, <2>3 DEF Doomed
<1>4. Explained'
  <2>1. ASSUME NEW f \in DOMAIN tree'.files, NEW n, n = tree'.files[f], Doomed(n)'
        PROVE  n \in stranded' \cup copied' \/ Shielded(f)'
    BY <1>2, <1>3, <2>1
  <2> QED
    BY <2>1 DEF Explained, Doomed, Threatens
<1> QED
  BY <1>1, <1>4

\* A step that notes what it strands leaves nothing else unexplained, whatever
\* it makes of the paths.
LEMMA StrandsStep ==
    ASSUME VInv, DInv, Strands, objs' = objs, copied \subseteq copied',
           Owned(tree') \subseteq Owned(tree) \cup copied', Unique(tree', copied'),
           \A s \in Procs : \A n : Threatens(s, n)' => Threatens(s, n)
    PROVE  Explained'
<1> SUFFICES ASSUME NEW f \in DOMAIN tree'.files, NEW n, n = tree'.files[f], Doomed(n)',
                    n \notin stranded', n \notin copied'
             PROVE  Shielded(f)'
  BY DEF Explained, Doomed, Threatens
<1>1. PICK g \in DOMAIN tree.files : tree.files[g] = n
  BY DEF Owned
<1>2. Doomed(n)
  BY DEF Doomed
<1>3. stranded \subseteq stranded' /\ Exposed \ Exposed' \subseteq stranded'
  BY DEF Strands
<1>4. n \notin stranded \cup copied
  BY <1>3
<1>5. Shielded(g)
  BY <1>1, <1>2, <1>4 DEF DInv, Explained
<1>6. n \in Exposed
  BY <1>1, <1>5 DEF Shielded, Exposed
<1>7. n \in Exposed'
  BY <1>3, <1>6
<1>8. PICK h \in DOMAIN tree'.files : tree'.files[h] = n /\ Shielded(h)'
  BY <1>7 DEF Exposed, Shielded
<1>9. h = f
  BY <1>8 DEF Unique
<1> QED
  BY <1>8, <1>9

\* A removal that is over has forgotten its objects, or goes on to a rename.
LEMMA RemovedFields ==
    ASSUME req \in [Procs -> Request], NEW r \in Procs, Removed(r) \/ Finish(r)
    PROVE  /\ \A s \in Procs \ {r} : req'[s] = req[s]
           /\ req'[r].pc \in {"idle", "rename"} /\ req'[r].objs \subseteq req[r].objs
           /\ \A d \in req'[r].dirs : d \in req[r].dirs /\ req'[r].to = req[r].to
<1>1. CASE Goto(r, "rename")
  BY <1>1, PcFields DEF Goto, Labels, RenamePcs
<1>2. CASE Finish(r)
  BY <1>2, IdleFields DEF Finish
<1> QED
  BY <1>1, <1>2 DEF Removed

\* Where a request finds nothing nothing is below it.
LEMMA NothingBelow ==
    ASSUME VInv, DInv, NEW p \in Seq(STRING), Get(tree, p) = "none"
    PROVE  NoneUnder(p)
<1> SUFFICES ASSUME NEW f \in DOMAIN tree.files, Under(p, f) PROVE FALSE
  BY DEF NoneUnder
<1>1. f \in Seq(STRING) /\ Ancestors(f) \subseteq tree.dirs /\ p # Root
      /\ p \notin tree.dirs /\ p # f
  BY DEF VInv, TypeOK, IsTree, DInv, Rooted, Get, HasDir, HasJson
<1> QED
  BY <1>1, AncestorOf DEF Path

\* The steps of a DELETE.
LEMMA RemovalExplained ==
    ASSUME VInv, DInv, NEW r \in Procs,
           \/ GetFile(r) \/ GetDir(r) \/ GetNothing(r) \/ DeleteFile(r)
           \/ WalkDirs(r) \/ WalkObjs(r) \/ WalkEnds(r)
    PROVE  WalksBelow' /\ Explained'
<1>1. /\ req \in [Procs -> Request] /\ req[r] \in Request /\ req[r].to \in Seq(STRING)
      /\ req[r].dirs \subseteq Seq(STRING) /\ tree.files \in [DOMAIN tree.files -> Names]
      /\ DOMAIN tree.files \subseteq Seq(STRING)
  BY DEF VInv, TypeOK, IsTree, Request
<1>2. \A d \in req[r].dirs : Under(req[r].to, d)
  BY DEF DInv, WalksBelow, Target
<1>3. tree' = tree /\ stranded' = stranded /\ copied' = copied
  BY DEF GetFile, GetDir, GetNothing, DeleteFile, WalkDirs, WalkObjs, WalkEnds, store, aside
<1>4. Removing(r)
  BY DEF GetFile, GetDir, GetNothing, DeleteFile, WalkDirs, WalkObjs, WalkEnds, At, Removing
<1>5. \A p \in Seq(STRING) : Under(p, p)
  BY UnderNames
<1>6. CASE GetFile(r)
  <2>1. Target(r) \in DOMAIN tree.files /\ objs' = objs
    BY <1>6 DEF GetFile, Get, HasJson, store
  <2>2. /\ \A s \in Procs \ {r} : req'[s] = req[s]
        /\ req'[r].pc = "delete" /\ req'[r].name = tree.files[Target(r)]
        /\ req'[r].to = req[r].to /\ req'[r].objs = req[r].objs
        /\ req'[r].dirs = req[r].dirs
    <3> DEFINE n == tree.files[Target(r)]
    <3>1. n \in Names
      BY <1>1, <2>1
    <3>2. req' = [req EXCEPT ![r].pc = "delete", ![r].name = n]
      BY <1>6 DEF GetFile
    <3> HIDE DEF n
    <3>3. /\ req'[r] = [req[r] EXCEPT !.pc = "delete", !.name = n]
          /\ \A s \in Procs \ {r} : req'[s] = req[s]
      BY <1>1, <3>2
    <3>4. /\ req'[r].pc = "delete" /\ req'[r].name = n
          /\ req'[r].to = req[r].to /\ req'[r].objs = req[r].objs
          /\ req'[r].dirs = req[r].dirs
      <4>1. req[r] \in Request
        BY <1>1
      <4> QED
        BY <3>1, <3>3, <4>1 DEF Request
    <3> QED
      BY <3>3, <3>4 DEF n
  <2>3. \A n : Threatens(r, n)' => Threatens(r, n) \/ n = tree.files[Target(r)]
    BY <2>2 DEF Threatens
  <2> QED
    BY <1>1, <1>2, <1>3, <1>4, <1>5, <2>1, <2>2, <2>3, FrameStep DEF Removing, Target
<1>7. CASE GetDir(r)
  <2>1. /\ req'[r] = [req[r] EXCEPT !.pc = "walk", !.dirs = {req[r].to}]
        /\ objs' = objs /\ \A s \in Procs \ {r} : req'[s] = req[s]
    BY <1>1, <1>7 DEF GetDir, Target, store
  <2>2. /\ req'[r].pc = "walk" /\ req'[r].to = req[r].to /\ req'[r].objs = req[r].objs
        /\ req'[r].dirs = {req[r].to}
    <3>1. req[r] \in Request
      BY <1>1
    <3> QED
      BY <2>1, <3>1 DEF Request
  <2>3. \A d \in req'[r].dirs : Under(req'[r].to, d)
    BY <1>1, <1>5, <2>2
  <2> QED
    BY <1>3, <2>1, <2>2, <2>3, FrameStep DEF Removing, Threatens
<1>8. CASE GetNothing(r)
  <2>1. Removed(r) \/ Finish(r)
    BY <1>8 DEF GetNothing
  <2>2. NoneUnder(Target(r)) /\ objs' = objs
    BY <1>1, <1>8, NothingBelow DEF GetNothing, Target
  <2> QED
    BY <1>1, <1>2, <1>3, <2>1, <2>2, RemovedFields, FrameStep DEF Threatens
<1>9. CASE DeleteFile(r)
  <2>1. /\ \A s \in Procs \ {r} : req'[s] = req[s]
        /\ req'[r].pc = "drop" /\ req'[r].to = req[r].to /\ req'[r].objs = req[r].objs
        /\ req'[r].dirs = req[r].dirs
    BY <1>1, <1>9, PcFields DEF DeleteFile, Goto, Labels
  <2>2. \A n \in objs \ objs' : Threatens(r, n)
    BY <1>9 DEF DeleteFile, RemoteDelete, Threatens, At
  <2> QED
    BY <1>2, <1>3, <2>1, <2>2, FrameStep DEF Removing, Threatens
<1>10. CASE WalkDirs(r)
  <2>1. PICK d \in req[r].dirs :
          req' = [req EXCEPT ![r].dirs = (@ \ {d}) \cup ReadDirs(tree, d),
                             ![r].objs = @ \cup ReadFiles(tree, d)]
    BY <1>10 DEF WalkDirs
  <2>2. /\ objs' = objs /\ \A s \in Procs \ {r} : req'[s] = req[s]
        /\ req'[r].pc = req[r].pc /\ req'[r].to = req[r].to
        /\ req'[r].name = req[r].name
        /\ req'[r].objs = req[r].objs \cup ReadFiles(tree, d)
        /\ req'[r].dirs = (req[r].dirs \ {d}) \cup ReadDirs(tree, d)
    BY <1>1, <1>10, <2>1 DEF Request, WalkDirs, store
  <2>3. d \in Seq(STRING) /\ Under(req[r].to, d)
    BY <1>1, <1>2
  <2>4. \A c \in ReadDirs(tree, d) : c \in Seq(STRING) /\ Under(d, c)
    BY DEF ReadDirs, Children, VInv, TypeOK, IsTree
  <2>5. \A c \in req'[r].dirs : Under(req'[r].to, c)
    BY <1>1, <1>2, <2>2, <2>3, <2>4, UnderTransitive
  <2>6. \A n \in ReadFiles(tree, d) : \E f \in DOMAIN tree.files :
            tree.files[f] = n /\ Under(d, f)
    BY DEF ReadFiles, Children
  <2>7. ASSUME NEW n, Threatens(r, n)', ~Threatens(r, n)
        PROVE  \E f \in DOMAIN tree.files : tree.files[f] = n /\ Under(Target(r), f)
    <3>1. PICK f \in DOMAIN tree.files : tree.files[f] = n /\ Under(d, f)
      BY <2>2, <2>6, <2>7 DEF Threatens
    <3> QED
      BY <1>1, <2>3, <3>1, UnderTransitive DEF Target
  <2> QED
    BY <1>3, <1>4, <1>10, <2>2, <2>5, <2>7, FrameStep DEF Removing, WalkDirs, store
<1>11. CASE WalkObjs(r)
  <2>1. PICK n \in req[r].objs : /\ RemoteDelete(n)
                                 /\ req' = [req EXCEPT ![r].objs = @ \ {n}]
    BY <1>11 DEF WalkObjs
  <2>2. /\ \A s \in Procs \ {r} : req'[s] = req[s]
        /\ req'[r].pc = req[r].pc /\ req'[r].to = req[r].to
        /\ req'[r].name = req[r].name
        /\ req'[r].objs = req[r].objs \ {n} /\ req'[r].dirs = req[r].dirs
    BY <1>1, <2>1 DEF Request
  <2>3. \A m \in objs \ objs' : Threatens(r, m)
    BY <2>1 DEF RemoteDelete, Threatens
  <2> QED
    BY <1>2, <1>3, <1>4, <2>2, <2>3, FrameStep DEF Removing, Threatens
<1>12. CASE WalkEnds(r)
  <2>1. /\ objs' = objs /\ \A s \in Procs \ {r} : req'[s] = req[s]
        /\ req'[r].pc = "drop" /\ req'[r].to = req[r].to /\ req'[r].objs = req[r].objs
        /\ req'[r].dirs = req[r].dirs
    BY <1>1, <1>12, PcFields DEF WalkEnds, Goto, Labels, store
  <2> QED
    BY <1>2, <1>3, <1>12, <2>1, FrameStep DEF Removing, Threatens, WalkEnds, store
<1> QED
  BY <1>6, <1>7, <1>8, <1>9, <1>10, <1>11, <1>12

\* meta.RemoveAll takes all away that the DELETE was at work on.
LEMMA DropExplained ==
    ASSUME VInv, DInv, NEW r \in Procs, DropMeta(r)
    PROVE  WalksBelow' /\ Explained'
<1>1. /\ req \in [Procs -> Request] /\ req[r].to \in Seq(STRING)
      /\ IsTree(tree, Names) /\ DOMAIN tree = {"dirs", "files"} /\ Arranged(tree)
  BY DEF VInv, TypeOK, Shape, Request, DInv, Arranged
<1>2. /\ tree' = RemoveAll(tree, req[r].to) /\ objs' = objs
      /\ stranded' = stranded /\ copied' = copied
  BY DEF DropMeta, Target, aside
<1>3. /\ DOMAIN tree'.files \subseteq DOMAIN tree.files
      /\ \A f \in DOMAIN tree'.files : tree'.files[f] = tree.files[f] /\ ~Under(req[r].to, f)
  BY <1>1, <1>2, RemoveAllArranged
<1>4. /\ \A s \in Procs \ {r} : req'[s] = req[s]
      /\ req'[r].pc \in {"idle", "rename"} /\ req'[r].objs \subseteq req[r].objs
      /\ \A d \in req'[r].dirs : d \in req[r].dirs /\ req'[r].to = req[r].to
  BY <1>1, RemovedFields DEF DropMeta
<1>5. WalksBelow'
  BY <1>4 DEF DInv, WalksBelow, Target
<1>6. ASSUME NEW f \in DOMAIN tree'.files, NEW n, n = tree'.files[f], Doomed(n)'
      PROVE  n \in stranded' \cup copied' \/ Shielded(f)'
  <2>1. f \in DOMAIN tree.files /\ n = tree.files[f] /\ ~Under(req[r].to, f)
    BY <1>3, <1>6
  <2>2. \A s \in Procs : Threatens(s, n)' => Threatens(s, n)
    BY <1>4 DEF Threatens
  <2>3. Doomed(n)
    BY <1>2, <1>6, <2>2 DEF Doomed
  <2>4. CASE n \in stranded \cup copied
    BY <1>2, <2>4
  <2>5. ASSUME NEW s \in Procs, Removing(s), Under(Target(s), f)
        PROVE  Shielded(f)'
    <3>1. s # r
      BY <2>1, <2>5 DEF Target
    <3> QED
      BY <1>4, <2>5, <3>1 DEF Shielded, Removing, Target
  <2> QED
    BY <2>1, <2>3, <2>4, <2>5 DEF DInv, Explained, Shielded
<1>7. Explained'
  BY <1>6 DEF Explained, Doomed, Threatens
<1> QED
  BY <1>5, <1>7

\* The content of a PUT is there when its metadata is saved, and no DELETE
\* knows of it.
LEMMA SaveExplained ==
    ASSUME VInv, Guarded, DInv, NEW r \in Procs, SaveMeta(r)
    PROVE  WalksBelow' /\ Explained'
<1>1. req \in [Procs -> Request]
  BY DEF VInv, TypeOK
<1>2. /\ tree' = SaveFile(tree, req[r].path, req[r].name)
      /\ objs' = objs /\ stranded' = stranded /\ copied' = copied /\ req[r].pc = "save"
  BY DEF SaveMeta, At, aside
<1>3. /\ DOMAIN tree'.files = DOMAIN tree.files \cup {req[r].path}
      /\ tree'.files[req[r].path] = req[r].name
      /\ \A f \in DOMAIN tree.files \ {req[r].path} : tree'.files[f] = tree.files[f]
  BY <1>2 DEF SaveFile
<1>4. req'[r] = Idle /\ \A s \in Procs \ {r} : req'[s] = req[s]
  BY <1>1 DEF SaveMeta, Finish
<1>5. WalksBelow'
  BY <1>4, IdleFields DEF DInv, WalksBelow, Target
<1>6. \A s \in Procs : \A n : Threatens(s, n)' => Threatens(s, n)
  BY <1>4, IdleFields DEF Threatens
<1>7. ~Doomed(req[r].name)
  BY <1>2 DEF Guarded, SavedKept, Unthreatened, InFlight, Doomed, Threatens
<1>8. ASSUME NEW f \in DOMAIN tree'.files, NEW n, n = tree'.files[f], Doomed(n)'
      PROVE  n \in stranded' \cup copied' \/ Shielded(f)'
  <2>1. Doomed(n)
    BY <1>2, <1>6, <1>8 DEF Doomed
  <2>2. f \in DOMAIN tree.files /\ n = tree.files[f]
    BY <1>3, <1>7, <1>8, <2>1
  <2>3. CASE n \in stranded \cup copied
    BY <1>2, <2>3
  <2>4. ASSUME NEW s \in Procs, Removing(s), Under(Target(s), f)
        PROVE  Shielded(f)'
    <3>1. s # r
      BY <1>2, <2>4 DEF Removing
    <3> QED
      BY <1>4, <2>4, <3>1 DEF Shielded, Removing, Target
  <2> QED
    BY <2>1, <2>2, <2>3, <2>4 DEF DInv, Explained, Shielded
<1>9. Explained'
  BY <1>8 DEF Explained, Doomed, Threatens
<1> QED
  BY <1>5, <1>9

\* The other steps of a request that runs.
LEMMA ProceedExplained ==
    ASSUME VInv, VInv', Guarded, DInv, NEW r \in Procs, Proceed(r)
    PROVE  WalksBelow' /\ Explained'
<1>1. req \in [Procs -> Request] /\ req[r] \in Request
  BY DEF VInv, TypeOK
<1>2. \A d \in req[r].dirs : Under(req[r].to, d)
  BY DEF DInv, WalksBelow, Target
<1>3. CASE Stored(r)
  <2>1. /\ \A s \in Procs \ {r} : req'[s] = req[s]
        /\ req'[r].pc = "save" /\ req'[r].to = req[r].to /\ req'[r].objs = req[r].objs
        /\ req'[r].dirs = req[r].dirs
    BY <1>1, <1>3, PcFields DEF Stored, Goto, Labels
  <2>2. /\ tree' = tree /\ stranded' = stranded /\ copied' = copied
        /\ objs \subseteq objs' /\ req[r].pc = "upload"
    BY <1>3 DEF Stored, At, aside
  <2> QED
    BY <1>2, <2>1, <2>2, FrameStep DEF Removing, Threatens
<1>4. CASE StoreFails(r)
  <2>1. req'[r] = Idle /\ \A s \in Procs \ {r} : req'[s] = req[s]
    BY <1>1, <1>4 DEF StoreFails, Finish
  <2>2. /\ tree' = tree /\ stranded' = stranded /\ copied' = copied
        /\ objs = objs' /\ req[r].pc = "upload"
    BY <1>4 DEF StoreFails, At, store, aside
  <2> QED
    BY <2>1, <2>2, IdleFields, FrameStep DEF Removing, Threatens
<1>5. CASE Renaming(r)
  <2>1. /\ req'[r].pc \notin {"delete", "walk", "drop"}
        /\ req'[r].objs \subseteq req[r].objs /\ \A s \in Procs \ {r} : req'[s] = req[s]
        /\ \A d \in req'[r].dirs : d \in req[r].dirs /\ req'[r].to = req[r].to
    BY <1>1, <1>5, RenameLabel
  <2>2. \A s \in Procs : \A n : Threatens(s, n)' => Threatens(s, n)
    BY <2>1 DEF Threatens
  <2>3. Owned(tree') \subseteq Owned(tree) \cup copied'
    BY <1>5, RenameTree DEF VInv, TreeKept
  <2>4. WalksBelow'
    BY <1>2, <2>1 DEF DInv, WalksBelow, Target
  <2>5. Strands /\ objs' = objs /\ copied \subseteq copied'
    BY <1>1, <1>5, RenameFacts
  <2>6. Unique(tree', copied')
    BY DEF VInv, UniqueOwner, Unique
  <2> QED
    BY <2>2, <2>3, <2>4, <2>5, <2>6, StrandsStep
<1> QED
  BY <1>3, <1>4, <1>5, RemovalExplained, DropExplained, SaveExplained DEF Proceed

\* A request that begins threatens nothing yet.
LEMMA ArriveExplained ==
    ASSUME VInv, DInv, NEW r \in Procs, Arrive(r)
    PROVE  WalksBelow' /\ Explained'
<1>1. Begins(r) /\ objs' = objs /\ stranded' = stranded /\ copied' = copied
  BY ArriveStep DEF VInv, Arrive, Put, PutEmpty, Mkdir, Delete, MoveTo, store, aside
<1>2. tree'.files = tree.files
  BY SaveDirTree, PathTypes
  DEF VInv, TypeOK, Shape, Arrive, Put, PutEmpty, Mkdir, Delete, MoveTo, store
<1>3. req[r].pc = "idle"
  BY DEF Arrive, Put, PutEmpty, Mkdir, Delete, MoveTo, CanBegin
<1>4. req' = req \/ (Starts(r) /\ req'[r].dirs = {})
  <2>1. \A k, p, d, l, n : req' = [req EXCEPT ![r] = Opened(k, p, d, l, n)]
                             => req'[r].dirs = {}
    BY DEF VInv, TypeOK, Opened, Idle
  <2>2. \/ req' = req
        \/ \E k, p, d, l, n : Begin(r, k, p, d, l, n)
    BY DEF Arrive, Put, PutEmpty, Mkdir, Delete, MoveTo
  <2> QED
    BY <1>1, <2>1, <2>2 DEF Begins, Begin, Opened
<1>5. \A s \in Procs : /\ req'[s] = req[s] \/ (req'[s].dirs = {} /\ s = r)
                       /\ \A n : Threatens(s, n)' => Threatens(s, n)
  BY <1>4 DEF Starts, Threatens
<1>6. WalksBelow'
  BY <1>5 DEF DInv, WalksBelow, Target
<1>7. ASSUME NEW f \in DOMAIN tree.files, Shielded(f)
      PROVE  Shielded(f)'
  BY <1>3, <1>5, <1>7 DEF Shielded, Removing, Target
<1>8. ASSUME NEW f \in DOMAIN tree'.files, NEW n, n = tree'.files[f], Doomed(n)'
      PROVE  n \in stranded' \cup copied' \/ Shielded(f)'
  <2>1. Doomed(n)
    BY <1>1, <1>5, <1>8 DEF Doomed
  <2> QED
    BY <1>1, <1>2, <1>7, <1>8, <2>1 DEF DInv, Explained
<1>9. Explained'
  BY <1>8 DEF Explained, Doomed, Threatens
<1> QED
  BY <1>6, <1>9

\* Every step keeps the explanations.
LEMMA DInvStep ==
    ASSUME KindsByName
    PROVE  VInv /\ VInv' /\ Guarded /\ DInv /\ [Next]_vars => DInv'
<1> SUFFICES ASSUME VInv, VInv', Guarded, DInv, [Next]_vars PROVE DInv'
  OBVIOUS
<1>1. Named(tree') /\ Rooted(tree')
  BY ArrangedStep DEF Arranged
<1>2. CASE Restart
  <2>1. req' = [r \in Procs |-> Idle] /\ tree' = tree /\ objs' = objs /\ Strands
    BY <1>2 DEF Restart
  <2>2. \A s \in Procs : req'[s] = Idle
    BY <2>1
  <2>3. \A s \in Procs : \A n : ~Threatens(s, n)'
    BY <2>2, IdleFields DEF Threatens
  <2>4. Explained'
    <3>1. copied' = copied /\ Unique(tree', copied') /\ Owned(tree') = Owned(tree)
      BY <1>2 DEF Restart, VInv, UniqueOwner, Unique, Owned
    <3> QED
      BY <2>1, <2>3, <3>1, StrandsStep
  <2>5. WalksBelow' /\ \A r \in Procs : KindOf(req'[r])
    BY <2>2, IdleFields DEF WalksBelow, KindOf
  <2> QED
    BY <1>1, <2>4, <2>5 DEF DInv
<1>3. CASE UNCHANGED <<tree, objs, req, stranded, copied>>
  BY <1>1, <1>3 DEF DInv, WalksBelow, Explained, Doomed, Threatens, Shielded, Removing,
                    Target
<1>4. ASSUME NEW r \in Procs, Proceed(r) PROVE DInv'
  BY <1>1, <1>4, ProceedExplained, KindsProceed DEF DInv
<1>5. ASSUME NEW r \in Procs, Arrive(r) PROVE DInv'
  BY <1>1, <1>5, ArriveExplained, KindsArrive DEF DInv
<1> QED
  BY <1>2, <1>3, <1>4, <1>5 DEF Next, Expire, vars, store, aside

\* It holds of an empty vault.
LEMMA DInvInit == Init => DInv
<1> SUFFICES ASSUME Init PROVE DInv
  OBVIOUS
<1>1. tree.dirs = {} /\ DOMAIN tree.files = {} /\ \A r \in Procs : req[r] = Idle
  BY DEF Init, EmptyTree
<1> QED
  BY <1>1, IdleFields DEF DInv, Named, Rooted, KindOf, WalksBelow, Explained

\* Clients tell files from directories by name: then metadata without its
\* object is where a DELETE is at work, or a MOVE or a restart has come between
\* its steps, or a rename had copied it, however requests overlap.
THEOREM DanglingExplained ==
    ASSUME KindsByName
    PROVE  Spec => []DanglingIsExplained
<1>1. DInv => DanglingIsExplained
  BY DEF DInv, Explained, Doomed, Shielded, DanglingIsExplained
<1> QED
  BY <1>1, VInvInit, VInvStep, GuardedInit, GuardedStep, DInvInit, DInvStep, PTL DEF Spec
=============================================================================
