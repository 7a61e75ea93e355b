------------------------- MODULE SharePackageProofs -------------------------
(***************************************************************************)
(* For any vaults, share keys and exports, with failing disks, crashes and *)
(* a new master key: a package holds nothing its vault has not had, and    *)
(* nothing reaches the other vault but from a package that is whole.       *)
(***************************************************************************)
EXTENDS SharePackage, SequenceTheorems, TLAPS

Path == Seq(STRING) \ {Root}

\* The directories above each file are there.
Rooted(t) == \A f \in DOMAIN t.files : Ancestors(f) \subseteq t.dirs

\* A metadata directory that holds names of N.
Sound(t, N) == IsTree(t, N) /\ DOMAIN t = {"dirs", "files"} /\ Rooted(t)

-----------------------------------------------------------------------------
(* Paths *)

\* Being below is to begin with the same names.
LEMMA UnderNames ==
    ASSUME NEW d \in Seq(STRING), NEW p \in Seq(STRING)
    PROVE  Under(d, p) <=> Len(d) <= Len(p) /\ \A i \in 1..Len(d) : d[i] = p[i]
<1>1. CASE Len(d) <= Len(p)
  <2>1. /\ Len(SubSeq(d, 1, Len(d))) = Len(d) /\ Len(SubSeq(p, 1, Len(d))) = Len(d)
        /\ \A i \in 1..Len(d) : /\ SubSeq(d, 1, Len(d))[i] = d[i]
                                /\ SubSeq(p, 1, Len(d))[i] = p[i]
        /\ SubSeq(d, 1, Len(d)) \in Seq(STRING) /\ SubSeq(p, 1, Len(d)) \in Seq(STRING)
    BY <1>1
  <2>2. (\A i \in 1..Len(d) : d[i] = p[i]) => SubSeq(d, 1, Len(d)) = SubSeq(p, 1, Len(d))
    BY <2>1, SeqEqual
  <2> QED
    BY <1>1, <2>1, <2>2 DEF Under, IsPrefix
<1>2. CASE ~(Len(d) <= Len(p))
  BY <1>2 DEF Under, IsPrefix
<1> QED
  BY <1>1, <1>2

\* What is below something below d is below d.
LEMMA UnderTransitive ==
    ASSUME NEW c \in Seq(STRING), NEW d \in Seq(STRING), NEW p \in Seq(STRING),
           Under(c, d), Under(d, p)
    PROVE  Under(c, p)
BY UnderNames

\* Two paths above the same one: the shorter is above the longer.
LEMMA UnderBoth ==
    ASSUME NEW c \in Seq(STRING), NEW d \in Seq(STRING), NEW p \in Seq(STRING),
           Under(c, p), Under(d, p), Len(c) <= Len(d)
    PROVE  Under(c, d)
BY UnderNames

\* Paths of one length are apart or the same.
LEMMA UnderSameLength ==
    ASSUME NEW d \in Seq(STRING), NEW p \in Seq(STRING), Under(d, p), Len(p) <= Len(d)
    PROVE  d = p
<1>1. Len(d) = Len(p) /\ \A i \in 1..Len(d) : d[i] = p[i]
  BY UnderNames
<1> QED
  BY <1>1, SeqEqual

\* The way down from d to p begins in a directory of d, or is p.
LEMMA FirstStep ==
    ASSUME NEW d \in Seq(STRING), NEW p \in Path, Under(d, p), d # p
    PROVE  \E c \in Path : /\ Len(c) = Len(d) + 1 /\ Under(d, c) /\ Under(c, p)
                           /\ c = p \/ c \in Ancestors(p)
<1> DEFINE c == SubSeq(p, 1, Len(d) + 1)
<1>1. Len(d) + 1 \in 1..Len(p) /\ p \in Seq(STRING)
  <2>1. ~(Len(p) <= Len(d))
    BY UnderSameLength DEF Path
  <2> QED
    BY <2>1, UnderNames DEF Path
<1>2. c \in Seq(STRING) /\ Len(c) = Len(d) + 1 /\ \A i \in 1..Len(c) : c[i] = p[i]
  BY <1>1
<1>3. Under(c, p)
  <2> HIDE DEF c
  <2> QED
    BY <1>1, <1>2, UnderNames
<1>4. Under(d, c)
  <2> HIDE DEF c
  <2>1. Len(d) <= Len(p) /\ \A i \in 1..Len(d) : d[i] = p[i]
    BY <1>1, UnderNames
  <2> QED
    BY <1>2, <2>1, UnderNames
<1>5. c # Root
  <2> HIDE DEF c
  <2> QED
    BY <1>2 DEF Root
<1>6. c \in Prefixes(p)
  BY <1>1 DEF Prefixes
<1> HIDE DEF c
<1>7. c = p \/ c \in Ancestors(p)
  BY <1>5, <1>6 DEF Ancestors
<1> QED
  BY <1>2, <1>3, <1>4, <1>5, <1>7 DEF Path

\* The directories above a path are paths above it.
LEMMA AboveIt ==
    ASSUME NEW p \in Seq(STRING), NEW a \in Ancestors(p)
    PROVE  a \in Path /\ Under(a, p)
<1>1. PICK l \in 0..Len(p) : a = SubSeq(p, 1, l)
  BY DEF Ancestors, Prefixes
<1>2. a \in Seq(STRING) /\ Len(a) = l /\ \A i \in 1..l : a[i] = p[i]
  BY <1>1
<1>3. Under(a, p)
  BY <1>2, UnderNames
<1> QED
  BY <1>2, <1>3 DEF Ancestors, Path

\* A path is its directory and its name.
LEMMA FrontLast ==
    ASSUME NEW p \in Path
    PROVE  Front(p) \in Seq(STRING) /\ Last(p) \in STRING /\ Append(Front(p), Last(p)) = p
<1>1. Len(p) \in Nat \ {0} /\ p \in Seq(STRING)
  BY DEF Path, Root
<1>2. Front(p) \in Seq(STRING) /\ Len(Front(p)) = Len(p) - 1
      /\ \A i \in 1..(Len(p) - 1) : Front(p)[i] = p[i]
  <2>0. Len(p) - 1 \in 0..Len(p)
    BY <1>1
  <2>1. PICK l \in 0..Len(p) : l = Len(p) - 1
    BY <2>0, Zenon
  <2>2. Front(p) = SubSeq(p, 1, l)
    BY <2>1 DEF Front
  <2>3. SubSeq(p, 1, l) \in Seq(STRING) /\ Len(SubSeq(p, 1, l)) = l
        /\ \A i \in 1..l : SubSeq(p, 1, l)[i] = p[i]
    BY <1>1, <2>1
  <2> QED
    BY <2>1, <2>2, <2>3
<1>3. Last(p) = p[Len(p)] /\ Last(p) \in STRING
  BY <1>1 DEF Last
<1> DEFINE r == Append(Front(p), Last(p))
<1>4. r \in Seq(STRING) /\ Len(r) = Len(p) /\ \A i \in 1..Len(p) : r[i] = p[i]
  BY <1>1, <1>2, <1>3
<1>5. r = p
  <2> HIDE DEF r
  <2> QED
    BY <1>1, <1>4, SeqEqual
<1> QED
  BY <1>2, <1>3, <1>5

\* What Append makes of a sequence.
LEMMA AppendFacts ==
    ASSUME NEW S, NEW d \in Seq(S), NEW name \in S
    PROVE  /\ Append(d, name) \in Seq(S) /\ Append(d, name) # << >>
           /\ Len(Append(d, name)) = Len(d) + 1
           /\ \A i \in 1..Len(d) : Append(d, name)[i] = d[i]
BY AppendProperties

\* A directory and a name are a path in the directory.
LEMMA FrontAppend ==
    ASSUME NEW d \in Seq(STRING), NEW name \in STRING
    PROVE  Append(d, name) \in Path /\ Front(Append(d, name)) = d
<1> DEFINE r == Append(d, name)
<1>1. r \in Seq(STRING) /\ Len(r) = Len(d) + 1 /\ r # << >>
      /\ \A i \in 1..Len(d) : r[i] = d[i]
  BY AppendFacts, Zenon
<1> HIDE DEF r
<1> DEFINE s == Front(r)
<1>2. s \in Seq(STRING) /\ Len(s) = Len(d) /\ \A i \in 1..Len(d) : s[i] = d[i]
  <2>1. s = SubSeq(r, 1, Len(d))
    BY <1>1 DEF Front
  <2>2. Len(d) \in 0..Len(r)
    BY <1>1
  <2> QED
    BY <1>1, <2>1, <2>2
<1> HIDE DEF s
<1>3. s = d
  BY <1>2, SeqEqual
<1> QED
  BY <1>1, <1>3 DEF r, s, Path, Root

-----------------------------------------------------------------------------
(* What users do to a vault *)

\* A path and the directories above it are saved.
LEMMA SaveFileEffect ==
    ASSUME NEW N, NEW t, Sound(t, N), NEW p \in Path, NEW n \in N
    PROVE  LET u == SaveFile(t, p, n)
           IN  /\ Sound(u, N)
               /\ t.dirs \subseteq u.dirs /\ DOMAIN u.files = DOMAIN t.files \cup {p}
               /\ u.files[p] = n /\ \A f \in DOMAIN t.files \ {p} : u.files[f] = t.files[f]
<1> DEFINE u == SaveFile(t, p, n)
<1>1. /\ u.dirs = t.dirs \cup Ancestors(p) /\ DOMAIN u = {"dirs", "files"}
      /\ u.files = [q \in DOMAIN t.files \cup {p} |-> IF q = p THEN n ELSE t.files[q]]
  BY DEF SaveFile
<1> HIDE DEF u
<1>2. DOMAIN u.files = DOMAIN t.files \cup {p}
  BY <1>1
<1>3. u.files[p] = n /\ \A f \in DOMAIN t.files \ {p} : u.files[f] = t.files[f]
  BY <1>1
<1>4. Ancestors(p) \subseteq Path
  BY AboveIt DEF Path
<1>5. Rooted(u)
  BY <1>1, <1>2 DEF Sound, Rooted
<1>6. IsTree(u, N)
  BY <1>1, <1>2, <1>3, <1>4 DEF Sound, IsTree, Path
<1> QED
  BY <1>1, <1>2, <1>3, <1>5, <1>6 DEF Sound, u

\* A file goes, or a directory with all below it.
LEMMA RemoveEffect ==
    ASSUME NEW N, NEW t, Sound(t, N), NEW p \in Path, Get(t, p) # "none"
    PROVE  LET u == RemoveAll(t, p)
           IN  /\ Sound(u, N)
               /\ DOMAIN u.files \subseteq DOMAIN t.files
               /\ \A f \in DOMAIN u.files :
                    u.files[f] = t.files[f] /\ (f \in t.dirs => f \in u.dirs)
<1> DEFINE u == RemoveAll(t, p)
<1>0. /\ t.dirs \subseteq Path /\ DOMAIN t.files \subseteq Path
      /\ DOMAIN t = {"dirs", "files"}
      /\ \A f \in DOMAIN t.files : t.files[f] \in N
  BY DEF Sound, IsTree, Path
<1>1. CASE HasJson(t, p)
  <2>1. /\ u.dirs = t.dirs /\ DOMAIN u = {"dirs", "files"}
        /\ u.files = Restrict(t.files, DOMAIN t.files \ {p})
    BY <1>0, <1>1 DEF RemoveAll, RemoveJson
  <2> HIDE DEF u
  <2>2. /\ DOMAIN u.files \subseteq DOMAIN t.files
        /\ \A f \in DOMAIN u.files : u.files[f] = t.files[f]
        /\ u.files = [f \in DOMAIN u.files |-> u.files[f]]
    BY <2>1 DEF Restrict
  <2>3. Sound(u, N)
    BY <1>0, <2>1, <2>2 DEF Sound, IsTree, Rooted, Path
  <2> QED
    BY <2>1, <2>2, <2>3 DEF u
<1>2. CASE ~HasJson(t, p) /\ p \in t.dirs
  <2>1. /\ u.dirs = {d \in t.dirs : ~Under(p, d)} /\ DOMAIN u = {"dirs", "files"}
        /\ u.files = Restrict(t.files, {f \in DOMAIN t.files : ~Under(p, f)})
    BY <1>2 DEF RemoveAll, DropTree
  <2> HIDE DEF u
  <2>2. /\ DOMAIN u.files = {f \in DOMAIN t.files : ~Under(p, f)}
        /\ \A f \in DOMAIN u.files : u.files[f] = t.files[f]
        /\ u.files = [f \in DOMAIN u.files |-> u.files[f]]
    BY <2>1 DEF Restrict
  <2>3. Rooted(u)
    <3> SUFFICES ASSUME NEW f \in DOMAIN u.files, NEW a \in Ancestors(f)
                 PROVE  a \in t.dirs /\ ~Under(p, a)
      BY <2>1 DEF Rooted
    <3>1. f \in DOMAIN t.files /\ ~Under(p, f) /\ f \in Seq(STRING) /\ p \in Seq(STRING)
      BY <1>0, <2>2 DEF Path
    <3>2. a \in Seq(STRING) /\ Under(a, f)
      BY <3>1, AboveIt DEF Path
    <3> QED
      BY <3>1, <3>2, UnderTransitive DEF Sound, Rooted
  <2>4. Sound(u, N)
    BY <1>0, <2>1, <2>2, <2>3 DEF Sound, IsTree, Path
  <2> QED
    BY <2>1, <2>2, <2>4 DEF u
<1> QED
  BY <1>1, <1>2 DEF Get, HasDir, Path

\* The file is at its new path; every other is where it was.
LEMMA RenameEffect ==
    ASSUME NEW N, NEW t, Sound(t, N), NEW from \in DOMAIN t.files,
           NEW to \in Path \ {from}
    PROVE  LET u == RenameFile(t, from, to)
           IN  /\ Sound(u, N) /\ t.dirs \subseteq u.dirs
               /\ DOMAIN u.files = (DOMAIN t.files \ {from}) \cup {to}
               /\ \A f \in DOMAIN u.files \ {to} : u.files[f] = t.files[f]
<1> DEFINE s == SaveFile(t, to, t.files[from])
           u == RenameFile(t, from, to)
<1>1. t.files[from] \in N
  BY DEF Sound, IsTree
<1>2. /\ Sound(s, N) /\ t.dirs \subseteq s.dirs /\ DOMAIN s.files = DOMAIN t.files \cup {to}
      /\ \A f \in DOMAIN t.files \ {to} : s.files[f] = t.files[f]
  BY <1>1, SaveFileEffect
<1>3. u = RemoveJson(s, from)
  BY DEF RenameFile
<1> HIDE DEF s, u
<1>4. /\ u.dirs = s.dirs /\ DOMAIN u = {"dirs", "files"}
      /\ u.files = Restrict(s.files, DOMAIN s.files \ {from})
  BY <1>2, <1>3 DEF RemoveJson, Sound
<1>5. /\ DOMAIN u.files = DOMAIN s.files \ {from}
      /\ \A f \in DOMAIN u.files : u.files[f] = s.files[f]
      /\ u.files = [f \in DOMAIN u.files |-> u.files[f]]
  BY <1>4 DEF Restrict
<1>6. Sound(u, N)
  <2>1. DOMAIN u.files \subseteq DOMAIN s.files
    BY <1>5
  <2>2. \A f \in DOMAIN u.files : u.files[f] \in N
    BY <1>2, <1>5, <2>1 DEF Sound, IsTree
  <2>3. IsTree(u, N)
    BY <1>2, <1>4, <1>5, <2>1, <2>2 DEF Sound, IsTree
  <2>4. Rooted(u)
    BY <1>2, <1>4, <2>1 DEF Sound, Rooted
  <2> QED
    BY <1>4, <2>3, <2>4 DEF Sound
<1> QED
  BY <1>2, <1>4, <1>5, <1>6 DEF u

\* No files, no directories.
LEMMA EmptySound ==
    ASSUME NEW N
    PROVE  Sound(EmptyTree, N) /\ DOMAIN EmptyTree.files = {}
BY DEF EmptyTree, Sound, IsTree, Rooted

-----------------------------------------------------------------------------
(* What is seen and what is whole *)

\* What is in a package can be saved: the path of an entry is a file's.
FileEntries == Path \X Names

ExFields == {"pc", "asked", "roots", "dirs", "skipped", "changed", "seen", "misnamed"}
Fields ==
    /\ Sound(src, Names) /\ Sound(dst, Names)
    /\ DOMAIN ex = ExFields
    /\ DOMAIN pkg = {"stage", "entries", "key"}
    /\ DOMAIN im = {"pc", "all", "todo", "changed"}

\* Files of which Names are left are files the vault has.
LateNames ==
    late \in [DOMAIN late -> STRING] /\ DOMAIN late \subseteq DOMAIN src.files

\* An entry is seen, or one of a file that had another Name.
Explained(e, seen, misnamed) ==
    e \in seen \/ \E p \in misnamed : Front(p) = Front(e[1]) /\ <<p, e[2]>> \in seen

\* A walk has noted all its vault has had, and of it come the entries.
Seen ==
    ex.pc = "walk" =>
        /\ Contents(src) \subseteq ex.seen /\ Misnamed(late) \subseteq ex.misnamed
        /\ \A e \in pkg.entries : Explained(e, ex.seen, ex.misnamed)

\* Once its walk has ended a package is whole; only then it opens.
Whole ==
    /\ pkg.stage \in {"closed", "cut", "keyed"} => pkg.entries \in walked
    /\ ex.pc = "append" => pkg.stage = "closed"
    /\ ex.pc = "key" => pkg.stage = "cut"
    /\ ex.pc = "sync" => pkg.stage = "keyed"
    /\ ex.pc = "walk" => pkg.stage = "entries"
    /\ im.pc # "idle" => im.all \in walked

ShareParts ==
    /\ Fields /\ LateNames /\ Seen /\ Whole
    /\ pkg.entries \subseteq FileEntries /\ im.all \subseteq FileEntries
    /\ walked \subseteq SUBSET FileEntries

SInv == TypeOK /\ ShareParts

-----------------------------------------------------------------------------
\* A file has a name, and an entry can be saved; it goes by its path or, where
\* its Name is late, by another in the same directory.
LEMMA EntryType ==
    ASSUME SInv, NEW p \in DOMAIN src.files
    PROVE  /\ p \in Path /\ NameOf(p) \in STRING /\ Entry(p) \in FileEntries
           /\ Explained(Entry(p), Contents(src), Misnamed(late))
<1>1. p \in Path /\ src.files[p] \in Names
  BY DEF SInv, ShareParts, Fields, Sound, IsTree, Path
<1>2. NameOf(p) \in STRING
  BY <1>1, FrontLast DEF NameOf, SInv, ShareParts, LateNames
<1>3. /\ Entry(p) = <<Append(Front(p), NameOf(p)), src.files[p]>>
      /\ Append(Front(p), NameOf(p)) \in Path /\ Entry(p) \in FileEntries
      /\ Front(Append(Front(p), NameOf(p))) = Front(p)
  BY <1>1, <1>2, FrontLast, FrontAppend DEF Entry, FileEntries
<1>4. <<p, src.files[p]>> \in Contents(src)
  BY DEF Contents
<1>5. CASE NameOf(p) = Last(p)
  BY <1>1, <1>3, <1>4, <1>5, FrontLast DEF Explained
<1>6. CASE NameOf(p) # Last(p)
  <2>1. p \in Misnamed(late)
    BY <1>6 DEF NameOf, Misnamed
  <2>2. Front(Entry(p)[1]) = Front(p) /\ Entry(p)[2] = src.files[p]
    BY <1>3
  <2> QED
    <3> DEFINE e == Entry(p)
    <3>1. Front(p) = Front(e[1]) /\ <<p, e[2]>> \in Contents(src)
      BY <1>4, <2>2
    <3> HIDE DEF e
    <3>2. Explained(e, Contents(src), Misnamed(late))
      BY <2>1, <3>1 DEF Explained
    <3> QED
      BY <1>1, <1>2, <1>3, <3>2 DEF e
<1> QED
  BY <1>1, <1>2, <1>3, <1>5, <1>6

\* Names are drawn by uploads only.
LEMMA NamesGrow ==
    ASSUME SInv, [Next]_vars
    PROVE  nextName' \in {nextName, nextName + 1} /\ nextName' \in Nat \ {0} /\ Names \subseteq Names'
<1>1. nextName \in Nat \ {0}
  BY DEF SInv, TypeOK
<1>2. nextName' \in {nextName, nextName + 1}
  BY DEF Next, vars, SrcPut, SrcRename, SrcNamed, SrcRemove, DstPut, Rekey, ExportBegins,
         EntersRoot, Walks, WritesManifest, CutsTrailer, AppendsKey, ExportAnswers,
         ExportFails, ImportBegins, ImportSaves, ImportAnswers, ImportFails
<1>3. Names \subseteq Names'
  <2>1. \A n \in Nat : \A m \in {n, n + 1} : 1..(n - 1) \subseteq 1..(m - 1)
    OBVIOUS
  <2> QED
    BY <1>1, <1>2, <2>1 DEF Names
<1>4. nextName' \in Nat \ {0}
  BY <1>1, <1>2
<1> QED
  BY <1>2, <1>3, <1>4

\* A vault that has more names to use is as sound as before.
LEMMA StaysSound ==
    ASSUME NEW N, NEW M, N \subseteq M, NEW t, Sound(t, N)
    PROVE  Sound(t, M)
BY DEF Sound, IsTree

\* What users do to the exporting vault.
SrcChanges ==
    \/ \E p \in SrcPaths : SrcPut(p) \/ SrcNamed(p) \/ \E q \in SrcPaths : SrcRename(p, q)
    \/ \E p \in SrcPaths \cup src.dirs : SrcRemove(p)

\* What a running export notes of it leaves alone what it does not name.
Untouched(changed) ==
    \A f \in DOMAIN src'.files \ changed :
        f \notin src'.dirs =>
            f \in DOMAIN src.files \ src.dirs /\ Entry(f)' = Entry(f)

LEMMA SrcSteps ==
    ASSUME SInv, [Next]_vars, SrcChanges
    PROVE  /\ Sound(src', Names') /\ LateNames'
           /\ UNCHANGED <<dst, exports, pkg, im, walked>>
           /\ \E changed : Note(changed, src', late') /\ Untouched(changed)
<1>1. Names \subseteq Names' /\ nextName \in Nat \ {0} /\ Sound(src, Names') /\ LateNames
  BY NamesGrow, StaysSound DEF SInv, TypeOK, ShareParts, Fields
<1>2. SrcPaths \subseteq Path
  BY PathAssumption DEF Path
<1>3. ASSUME NEW p \in SrcPaths, SrcPut(p)
      PROVE  /\ Sound(src', Names') /\ LateNames' /\ Note({p}, src', late')
             /\ UNCHANGED <<dst, exports, pkg, im, walked>> /\ Untouched({p})
  <2>1. src' = SaveFile(src, p, nextName) /\ Note({p}, src', late')
        /\ nextName' = nextName + 1 /\ late' = Restrict(late, DOMAIN late \ {p})
        /\ UNCHANGED <<dst, exports, pkg, im, walked>>
    BY <1>3 DEF SrcPut
  <2>2. nextName \in Names'
    BY <1>1, <2>1 DEF Names
  <2>3. /\ Sound(src', Names') /\ src.dirs \subseteq src'.dirs
        /\ DOMAIN src'.files = DOMAIN src.files \cup {p}
        /\ \A f \in DOMAIN src.files \ {p} : src'.files[f] = src.files[f]
    BY <1>1, <1>2, <2>1, <2>2, SaveFileEffect
  <2>4. /\ late' = [r \in DOMAIN late' |-> late'[r]] /\ DOMAIN late' = DOMAIN late \ {p}
        /\ \A r \in DOMAIN late' : late'[r] = late[r]
    BY <2>1 DEF Restrict
  <2>5. LateNames'
    BY <1>1, <2>3, <2>4 DEF LateNames
  <2>6. Untouched({p})
    BY <2>3, <2>4 DEF Untouched, Entry, NameOf
  <2> QED
    BY <2>1, <2>3, <2>5, <2>6
<1>4. ASSUME NEW p \in SrcPaths, NEW q \in SrcPaths, SrcRename(p, q)
      PROVE  /\ Sound(src', Names') /\ LateNames' /\ Note({p, q}, src', late')
             /\ UNCHANGED <<dst, exports, pkg, im, walked>> /\ Untouched({p, q})
  <2>1. /\ src' = RenameFile(src, p, q) /\ Note({p, q}, src', late')
        /\ p \in DOMAIN src.files /\ p # q
        /\ late' = [r \in (DOMAIN late \ {p}) \cup {q} |-> IF r = q THEN NameOf(p) ELSE late[r]]
        /\ UNCHANGED <<dst, exports, pkg, im, walked>>
    BY <1>4 DEF SrcRename, HasJson
  <2>2. /\ Sound(src', Names') /\ src.dirs \subseteq src'.dirs
        /\ DOMAIN src'.files = (DOMAIN src.files \ {p}) \cup {q}
        /\ \A f \in DOMAIN src'.files \ {q} : src'.files[f] = src.files[f]
    BY <1>1, <1>2, <2>1, RenameEffect
  <2>3. LateNames'
    <3>1. NameOf(p) \in STRING
      BY <2>1, EntryType
    <3> QED
      BY <1>1, <2>1, <2>2, <3>1 DEF LateNames
  <2>4. Untouched({p, q})
    BY <2>1, <2>2 DEF Untouched, Entry, NameOf
  <2> QED
    BY <2>1, <2>2, <2>3, <2>4
<1>5. ASSUME NEW p \in SrcPaths \cup src.dirs, SrcRemove(p)
      PROVE  /\ Sound(src', Names') /\ LateNames'
             /\ UNCHANGED <<dst, exports, pkg, im, walked>>
             /\ \E changed : Note(changed, src', late') /\ Untouched(changed)
  <2>1. p \in Path
    BY <1>1, <1>2 DEF Sound, IsTree, Path
  <2>2. /\ src' = RemoveAll(src, p) /\ Get(src, p) # "none"
        /\ late' = Restrict(late, DOMAIN late \cap DOMAIN src'.files)
        /\ Note({q \in SrcPaths : Under(p, q)}, src', late')
        /\ UNCHANGED <<dst, exports, pkg, im, walked>>
    BY <1>5 DEF SrcRemove
  <2>3. /\ Sound(src', Names') /\ DOMAIN src'.files \subseteq DOMAIN src.files
        /\ \A f \in DOMAIN src'.files :
             src'.files[f] = src.files[f] /\ (f \in src.dirs => f \in src'.dirs)
    BY <1>1, <2>1, <2>2, RemoveEffect
  <2>4. /\ late' = [r \in DOMAIN late' |-> late'[r]]
        /\ DOMAIN late' = DOMAIN late \cap DOMAIN src'.files
        /\ \A r \in DOMAIN late' : late'[r] = late[r]
    BY <2>2 DEF Restrict
  <2>5. LateNames'
    BY <1>1, <2>4 DEF LateNames
  <2>6. \A changed : Untouched(changed)
    BY <2>3, <2>4 DEF Untouched, Entry, NameOf
  <2> QED
    BY <2>2, <2>3, <2>5, <2>6
<1>6. ASSUME NEW q \in SrcPaths, SrcNamed(q)
      PROVE  /\ Sound(src', Names') /\ LateNames' /\ Note({q}, src', late')
             /\ UNCHANGED <<dst, exports, pkg, im, walked>> /\ Untouched({q})
  <2>1. /\ src' = src /\ Note({q}, src', late') /\ late' = Restrict(late, DOMAIN late \ {q})
        /\ UNCHANGED <<dst, exports, pkg, im, walked>>
    BY <1>6 DEF SrcNamed
  <2>2. /\ late' = [r \in DOMAIN late' |-> late'[r]] /\ DOMAIN late' = DOMAIN late \ {q}
        /\ \A r \in DOMAIN late' : late'[r] = late[r]
    BY <2>1 DEF Restrict
  <2>3. LateNames'
    BY <1>1, <2>1, <2>2 DEF LateNames
  <2>4. Untouched({q})
    BY <2>1, <2>2 DEF Untouched, Entry, NameOf
  <2> QED
    BY <1>1, <2>1, <2>3, <2>4
<1> QED
  BY <1>3, <1>4, <1>5, <1>6 DEF SrcChanges

\* Both vaults stay trees, and late Names are names of files.
LEMMA TreesStep ==
    ASSUME SInv, [Next]_vars
    PROVE  Sound(src', Names') /\ Sound(dst', Names') /\ LateNames'
<1>1. /\ Names \subseteq Names' /\ nextName \in Nat \ {0} /\ LateNames
      /\ Sound(src, Names') /\ Sound(dst, Names')
  BY NamesGrow, StaysSound DEF SInv, TypeOK, ShareParts, Fields
<1>2. DstPaths \subseteq Path
  BY PathAssumption DEF Path
<1>3. ASSUME NEW p \in DstPaths, DstPut(p)
      PROVE  Sound(dst', Names') /\ UNCHANGED <<src, late>>
  <2>1. /\ dst' = SaveFile(dst, p, nextName) /\ UNCHANGED <<src, late>>
        /\ nextName' = nextName + 1
    BY <1>3 DEF DstPut
  <2>2. nextName \in Names'
    BY <1>1, <2>1 DEF Names
  <2> QED
    BY <1>1, <1>2, <2>1, <2>2, SaveFileEffect
<1>4. ASSUME NEW e \in im.todo, ImportSaves(e)
      PROVE  Sound(dst', Names') /\ UNCHANGED <<src, late>>
  <2>1. e[1] \in Path /\ e[2] \in Names'
    BY <1>1 DEF SInv, TypeOK, ShareParts, FileEntries
  <2>2. dst' = SaveFile(dst, e[1], e[2]) /\ UNCHANGED <<src, late>>
    BY <1>4 DEF ImportSaves
  <2> QED
    BY <1>1, <2>1, <2>2, SaveFileEffect
<1>5. CASE UNCHANGED <<src, dst, late>>
  BY <1>1, <1>5 DEF LateNames
<1>6. CASE SrcChanges
  BY <1>1, <1>6, SrcSteps
<1> QED
  BY <1>1, <1>3, <1>4, <1>5, <1>6
  DEF Next, vars, SrcChanges, LateNames, Rekey, ExportBegins, EntersRoot, Walks,
      WritesManifest, CutsTrailer, AppendsKey, ExportAnswers, ExportFails, ImportBegins,
      ImportAnswers, ImportFails

-----------------------------------------------------------------------------
\* The parts of the invariant that tell the export, the package and the import.
Steps ==
    /\ DOMAIN ex' = ExFields
    /\ DOMAIN pkg' = {"stage", "entries", "key"}
    /\ DOMAIN im' = {"pc", "all", "todo", "changed"}
    /\ Seen' /\ Whole'
    /\ pkg'.entries \subseteq FileEntries /\ im'.all \subseteq FileEntries
    /\ walked' \subseteq SUBSET FileEntries
    /\ ex'.pc \in {"idle", "walk", "append", "key", "sync"} /\ exports' \in 0..MaxExports
    /\ pkg'.stage \in {"none", "entries", "closed", "cut", "keyed"}
    /\ pkg'.stage = "keyed" => pkg'.key \in ShareKeys
    /\ im'.pc \in {"idle", "save"} /\ im'.todo \subseteq im'.all

\* What a tool that does not run, and a missing tar file, look like.
LEMMA IdleParts ==
    /\ DOMAIN NoExport = ExFields /\ NoExport.pc = "idle"
    /\ DOMAIN NoPackage = {"stage", "entries", "key"} /\ NoPackage.entries = {}
    /\ NoPackage.stage = "none"
    /\ DOMAIN NoImport = {"pc", "all", "todo", "changed"} /\ NoImport.pc = "idle"
    /\ NoImport.all = {} /\ NoImport.todo = {}
BY DEF NoExport, NoPackage, NoImport, ExFields

\* What is explained stays so when more has been seen.
LEMMA StillExplained ==
    ASSUME NEW e, NEW A, NEW B, NEW C, NEW D, A \subseteq B, C \subseteq D, Explained(e, A, C)
    PROVE  Explained(e, B, D)
BY DEF Explained

\* What users do to the exporting vault.
LEMMA SrcChangeSteps ==
    ASSUME SInv, NEW changed, Note(changed, src', late'), UNCHANGED <<exports, pkg, im, walked>>
    PROVE  Steps
<1> USE DEF SInv, TypeOK, ShareParts, Fields
<1>1. /\ DOMAIN ex' = DOMAIN ex /\ ex'.pc = ex.pc
      /\ ex.pc = "walk" => /\ ex'.seen = ex.seen \cup Contents(src')
                           /\ ex'.misnamed = ex.misnamed \cup Misnamed(late')
  BY DEF Note, ExFields
<1>2. Seen'
  <2> SUFFICES ASSUME ex'.pc = "walk"
               PROVE  /\ Contents(src') \subseteq ex'.seen /\ Misnamed(late') \subseteq ex'.misnamed
                      /\ \A e \in pkg'.entries : Explained(e, ex'.seen, ex'.misnamed)
    BY DEF Seen, Contents, Misnamed, Explained
  <2>1. ex.seen \subseteq ex'.seen /\ ex.misnamed \subseteq ex'.misnamed /\ ex.pc = "walk"
    BY <1>1
  <2>2. \A e \in pkg'.entries : Explained(e, ex'.seen, ex'.misnamed)
    BY <2>1, StillExplained DEF Seen
  <2> QED
    BY <1>1, <2>2
<1>3. Whole'
  BY <1>1 DEF Whole
<1> QED
  BY <1>1, <1>2, <1>3 DEF Steps

\* What users of the importing vault do, and a new master key.
LEMMA OtherUserSteps ==
    ASSUME SInv, Rekey \/ \E p \in DstPaths : DstPut(p)
    PROVE  Steps
<1> USE DEF SInv, TypeOK, ShareParts, Fields
<1>1. UNCHANGED <<src, late, ex, pkg, walked, exports>>
  BY DEF DstPut, Rekey
<1>2. /\ DOMAIN im' = DOMAIN im /\ im'.pc = im.pc /\ im'.all = im.all /\ im'.todo = im.todo
  BY DEF DstPut, Rekey
<1>3. Seen' /\ Whole'
  BY <1>1, <1>2 DEF Seen, Whole, Contents, Misnamed, Explained
<1> QED
  BY <1>1, <1>2, <1>3 DEF Steps

\* CreateSharePackage starts with an empty package.
LEMMA ExportBeginSteps ==
    ASSUME SInv, NEW paths, ExportBegins(paths)
    PROVE  Steps
<1>1. /\ DOMAIN ex' = ExFields
      /\ ex'.pc = "walk" /\ ex'.seen = Contents(src) /\ ex'.misnamed = Misnamed(late)
  BY DEF ExportBegins, NoExport, ExFields
<1>2. /\ DOMAIN pkg' = {"stage", "entries", "key"}
      /\ pkg'.stage = "entries" /\ pkg'.entries = {}
  BY DEF ExportBegins, NoPackage
<1>3. UNCHANGED <<src, late, im, walked>>
  BY DEF ExportBegins
<1>4. exports' \in 0..MaxExports
  BY BoundAssumption DEF ExportBegins, SInv, TypeOK
<1>5. Seen' /\ Whole'
  BY <1>1, <1>2, <1>3 DEF SInv, ShareParts, Seen, Whole, Contents, Misnamed
<1> QED
  BY <1>1, <1>2, <1>3, <1>4, <1>5 DEF Steps, SInv, TypeOK, ShareParts, Fields

\* A walk adds entries of files the vault has.
LEMMA AddingSteps ==
    ASSUME SInv, NEW files, files \subseteq {Entry(p) : p \in DOMAIN src.files}, AddsFiles(files),
           UNCHANGED <<src, late, exports, im, walked>>, ex.pc = "walk",
           DOMAIN ex' = DOMAIN ex, ex'.pc = "walk", ex'.seen = ex.seen,
           ex'.misnamed = ex.misnamed
    PROVE  Steps
<1> USE DEF SInv, TypeOK, ShareParts, Fields
<1>1. /\ files \subseteq FileEntries
      /\ \A e \in files : Explained(e, Contents(src), Misnamed(late))
  BY EntryType
<1>2. /\ DOMAIN pkg' = DOMAIN pkg /\ pkg'.stage = pkg.stage /\ pkg'.key = pkg.key
      /\ pkg'.entries = pkg.entries \cup files
  BY DEF AddsFiles
<1>3. Seen'
  <2>1. Contents(src) \subseteq ex.seen /\ Misnamed(late) \subseteq ex.misnamed
        /\ \A e \in pkg.entries : Explained(e, ex.seen, ex.misnamed)
    BY DEF Seen
  <2>2. \A e \in files : Explained(e, ex.seen, ex.misnamed)
    BY <1>1, <2>1, StillExplained
  <2>3. \A e \in pkg'.entries : Explained(e, ex'.seen, ex'.misnamed)
    BY <1>2, <2>1, <2>2
  <2>4. Contents(src)' = Contents(src) /\ Misnamed(late)' = Misnamed(late)
    BY DEF Contents, Misnamed
  <2>5. Contents(src)' \subseteq ex'.seen /\ Misnamed(late)' \subseteq ex'.misnamed
    BY <2>1, <2>4
  <2> QED
    BY <2>3, <2>5 DEF Seen, Explained
<1>4. Whole'
  BY <1>2 DEF Whole
<1> QED
  BY <1>1, <1>2, <1>3, <1>4 DEF Steps

\* Entries come from the vault; the package opens when it is whole.
LEMMA ExportSteps ==
    ASSUME SInv,
           \/ \E root \in ex.roots : EntersRoot(root)
           \/ \E d \in ex.dirs : Walks(d)
           \/ WritesManifest \/ CutsTrailer \/ ExportAnswers \/ ExportFails
           \/ \E k \in ShareKeys : AppendsKey(k)
    PROVE  Steps
<1> USE DEF SInv, TypeOK, ShareParts, Fields
<1>0. UNCHANGED <<src, late, exports, im>> /\ ex.pc # "idle"
  BY DEF EntersRoot, Walks, WritesManifest, CutsTrailer, ExportAnswers, ExportFails, AppendsKey
<1>1. ASSUME NEW root \in ex.roots, EntersRoot(root)
      PROVE  Steps
  <2>1. RootFile(root) \subseteq {Entry(p) : p \in DOMAIN src.files}
    BY DEF RootFile, Get, HasJson
  <2>2. /\ DOMAIN ex' = DOMAIN ex /\ ex'.pc = ex.pc /\ ex.pc = "walk" /\ ex'.seen = ex.seen
        /\ ex'.misnamed = ex.misnamed /\ AddsFiles(RootFile(root)) /\ walked' = walked
    BY <1>1 DEF EntersRoot, ExFields
  <2> QED
    BY <1>0, <2>1, <2>2, AddingSteps
<1>2. ASSUME NEW d \in ex.dirs, Walks(d)
      PROVE  Steps
  <2>1. PICK passed : /\ AddsFiles(Listed(d, passed)) /\ ex.pc = "walk" /\ walked' = walked
                      /\ ex' = [ex EXCEPT !.dirs = (@ \ {d}) \cup (ReadDirs(src, d) \ passed),
                                          !.skipped = @ \cup passed]
    BY <1>2 DEF Walks
  <2>2. Listed(d, passed) \subseteq {Entry(p) : p \in DOMAIN src.files}
    BY DEF Listed, Children
  <2>3. DOMAIN ex' = DOMAIN ex /\ ex'.pc = ex.pc /\ ex'.seen = ex.seen
        /\ ex'.misnamed = ex.misnamed
    BY <2>1 DEF ExFields
  <2> QED
    BY <1>0, <2>1, <2>2, <2>3, AddingSteps
<1>3. CASE WritesManifest
  <2>1. /\ DOMAIN ex' = DOMAIN ex /\ ex'.pc = "append" /\ DOMAIN pkg' = DOMAIN pkg
        /\ pkg'.stage = "closed" /\ pkg'.entries = pkg.entries
        /\ walked' = walked \cup {pkg.entries}
    BY <1>3 DEF WritesManifest, ExFields
  <2>2. Seen' /\ Whole'
    BY <1>0, <2>1 DEF Seen, Whole
  <2> QED
    BY <1>0, <2>1, <2>2 DEF Steps
<1>4. CASE CutsTrailer
  <2>1. /\ DOMAIN ex' = DOMAIN ex /\ ex'.pc = "key" /\ DOMAIN pkg' = DOMAIN pkg
        /\ pkg'.stage = "cut" /\ pkg'.entries = pkg.entries /\ walked' = walked
        /\ ex.pc = "append"
    BY <1>4 DEF CutsTrailer, ExFields
  <2>2. Seen' /\ Whole'
    BY <1>0, <2>1 DEF Seen, Whole
  <2> QED
    BY <1>0, <2>1, <2>2 DEF Steps
<1>5. CASE ExportAnswers \/ ExportFails
  <2>1. ex' = NoExport /\ UNCHANGED <<pkg, walked>>
    BY <1>5 DEF ExportAnswers, ExportFails
  <2>2. Seen' /\ Whole'
    BY <1>0, <2>1, IdleParts DEF Seen, Whole
  <2> QED
    BY <1>0, <2>1, <2>2, IdleParts DEF Steps
<1>6. ASSUME NEW k \in ShareKeys, AppendsKey(k)
      PROVE  Steps
  <2>1. /\ DOMAIN ex' = ExFields /\ ex'.pc = "sync" /\ ex.pc = "key" /\ walked' = walked
        /\ DOMAIN pkg' = DOMAIN pkg /\ pkg'.stage = "keyed" /\ pkg'.key = k
        /\ pkg'.entries = pkg.entries
    BY <1>6 DEF AppendsKey, NoExport, ExFields
  <2>2. Seen' /\ Whole'
    BY <1>0, <2>1 DEF Seen, Whole
  <2> QED
    BY <1>0, <2>1, <2>2 DEF Steps
<1> QED
  BY <1>1, <1>2, <1>3, <1>4, <1>5, <1>6

\* ReceiveSharePackage takes what the package has.
LEMMA ImportSteps ==
    ASSUME SInv,
           \/ \E k \in ShareKeys : ImportBegins(k)
           \/ \E e \in im.todo : ImportSaves(e)
           \/ ImportAnswers \/ ImportFails
    PROVE  Steps
<1> USE DEF SInv, TypeOK, ShareParts, Fields
<1>0. UNCHANGED <<src, late, ex, exports, pkg, walked>>
  BY DEF ImportBegins, ImportSaves, ImportAnswers, ImportFails
<1>1. Seen'
  BY <1>0 DEF Seen, Contents, Misnamed, Explained
<1>2. ASSUME NEW k \in ShareKeys, ImportBegins(k)
      PROVE  Steps
  <2>1. /\ DOMAIN im' = DOMAIN im /\ im'.pc = "save" /\ im'.all = pkg.entries
        /\ im'.todo = pkg.entries /\ pkg.stage = "keyed"
    BY <1>2, IdleParts DEF ImportBegins, OpensPackage, NoImport
  <2>2. Whole'
    BY <1>0, <2>1 DEF Whole
  <2> QED
    BY <1>0, <1>1, <2>1, <2>2 DEF Steps
<1>3. ASSUME NEW e \in im.todo, ImportSaves(e)
      PROVE  Steps
  <2>1. /\ DOMAIN im' = DOMAIN im /\ im'.pc = im.pc /\ im'.all = im.all
        /\ im'.todo = im.todo \ {e}
    BY <1>3 DEF ImportSaves
  <2>2. Whole'
    BY <1>0, <2>1 DEF Whole
  <2> QED
    BY <1>0, <1>1, <2>1, <2>2 DEF Steps
<1>4. CASE ImportAnswers \/ ImportFails
  <2>1. im' = NoImport
    BY <1>4 DEF ImportAnswers, ImportFails
  <2>2. Whole'
    BY <1>0, <2>1, IdleParts DEF Whole
  <2> QED
    BY <1>0, <1>1, <2>1, <2>2, IdleParts DEF Steps
<1> QED
  BY <1>2, <1>3, <1>4

-----------------------------------------------------------------------------
\* SInv holds of two empty vaults.
LEMMA SInvInit == Init => SInv
<1> SUFFICES ASSUME Init PROVE SInv
  OBVIOUS
<1>1. Sound(src, Names) /\ Sound(dst, Names) /\ exports \in 0..MaxExports
      /\ DOMAIN src.files = {} /\ LateNames
  BY EmptySound, BoundAssumption DEF Init, LateNames
<1> QED
  BY <1>1, IdleParts DEF Init, SInv, TypeOK, ShareParts, Fields, Seen, Whole, Sound, LateNames

\* Users, exports and imports keep it.
LEMMA SInvStep == SInv /\ [Next]_vars => SInv'
<1> SUFFICES ASSUME SInv, [Next]_vars PROVE SInv'
  OBVIOUS
<1>1. Steps
  <2>1. CASE UNCHANGED vars
    BY <2>1 DEF vars, Steps, SInv, TypeOK, ShareParts, Fields, Seen, Whole, Contents, Misnamed,
                Explained
  <2>2. CASE SrcChanges
    BY <2>2, SrcSteps, SrcChangeSteps
  <2> QED
    BY <2>1, <2>2, OtherUserSteps, ExportBeginSteps, ExportSteps, ImportSteps
    DEF Next, SrcChanges
<1>2. Names \subseteq Names' /\ nextName' \in Nat \ {0}
  BY NamesGrow
<1>3. FileEntries \subseteq FileEntries' /\ FileEntries' \subseteq Entries'
  BY <1>2 DEF FileEntries, Entries, Path
<1>4. stale' \subseteq Names'
  BY <1>2 DEF SInv, TypeOK, Next, vars, SrcPut, SrcRename, SrcNamed, SrcRemove, DstPut, Rekey,
              ExportBegins, EntersRoot, Walks, WritesManifest, CutsTrailer, AppendsKey,
              ExportAnswers, ExportFails, ImportBegins, ImportSaves, ImportAnswers,
              ImportFails
<1>5. TypeOK'
  BY <1>1, <1>2, <1>3, <1>4, TreesStep DEF Steps, TypeOK, Sound, LateNames
<1>6. ShareParts'
  BY <1>1, <1>3, TreesStep DEF Steps, ShareParts, Fields
<1> QED
  BY <1>5, <1>6 DEF SInv

\* In every reachable state: types, what was seen, what is whole.
THEOREM ShareInductive == Spec => []SInv
BY SInvInit, SInvStep, PTL DEF Spec

\* Both vaults, the package and the tools keep their types.
THEOREM ShareTypeCorrect == Spec => []TypeOK
<1>1. SInv => TypeOK
  BY DEF SInv
<1> QED
  BY <1>1, ShareInductive, PTL

\* A package holds nothing its vault has not had: of each entry the vault had
\* the content at that very path during the walk, or at a path of the same
\* directory whose Name a rename had not updated.
THEOREM PackagesAreTrue == Spec => []NothingInvented
<1>1. SInv => NothingInvented
  BY DEF SInv, ShareParts, Seen, Explained, NothingInvented
<1> QED
  BY <1>1, ShareInductive, PTL

\* Nothing is imported but the whole package of a walk that came to its end,
\* whether or not the export then failed.
THEOREM ImportsAreWhole == Spec => []OnlyWholePackages
<1>1. SInv => OnlyWholePackages
  BY DEF SInv, ShareParts, Whole, OnlyWholePackages
<1> QED
  BY <1>1, ShareInductive, PTL

-----------------------------------------------------------------------------
(* What a walk meets *)

\* What is still ahead are paths, and nothing is once the walk has ended.
Ahead ==
    /\ ex.dirs \subseteq Seq(STRING) /\ ex.roots \subseteq Seq(STRING)
    /\ ex.pc \in {"append", "key"} => ex.dirs = {} /\ ex.roots = {}

\* A file below a path asked for that nobody has touched has its entry, or is
\* below what is still to be read, or below what was passed over.
Covered ==
    ex.pc \in {"walk", "append", "key"} =>
        \A root \in ex.asked : \A p \in FilesBelow(src, root) \ (ex.changed \cup src.dirs) :
            \/ Entry(p) \in pkg.entries
            \/ \E d \in ex.dirs \cup ex.roots \cup ex.skipped : Under(d, p)

\* What has been saved is there, but where a user has written.
Brought ==
    \A e \in im.all \ im.todo :
        e[1] \notin im.changed =>
            e[1] \in DOMAIN dst.files /\ <<e[1], dst.files[e[1]]>> \in im.all

WInv == Ahead /\ Covered /\ (im.pc = "save" => Brought)

\* The walk reads a directory: its directories take its place, and all of it
\* that is a file has its entry, but for what is passed over.
LEMMA WalkKeeps ==
    ASSUME SInv, WInv, NEW d \in ex.dirs, Walks(d)
    PROVE  Ahead' /\ Covered'
<1>0. PICK passed \in SUBSET Children(src.dirs \cup DOMAIN src.files, d) :
        /\ ex.pc = "walk" /\ HasDir(src, d) /\ AddsFiles(Listed(d, passed))
        /\ ex' = [ex EXCEPT !.dirs = (@ \ {d}) \cup (ReadDirs(src, d) \ passed),
                            !.skipped = @ \cup passed]
        /\ UNCHANGED <<src, late>>
  BY DEF Walks
<1>1. /\ ex'.pc = "walk" /\ ex'.asked = ex.asked /\ ex'.changed = ex.changed
      /\ ex'.roots = ex.roots
      /\ ex'.dirs = (ex.dirs \ {d}) \cup (ReadDirs(src, d) \ passed)
      /\ ex'.skipped = ex.skipped \cup passed
      /\ pkg'.entries = pkg.entries \cup Listed(d, passed)
  BY <1>0 DEF AddsFiles, SInv, ShareParts, Fields, ExFields
<1>2. /\ src.dirs \subseteq Path /\ DOMAIN src.files \subseteq Path /\ Rooted(src)
      /\ d \in Seq(STRING)
  BY DEF SInv, ShareParts, Fields, Sound, IsTree, Path, WInv, Ahead
<1>3. Ahead'
  <2>1. ReadDirs(src, d) \subseteq Seq(STRING)
    BY <1>2 DEF ReadDirs, Children, Path
  <2> QED
    BY <1>1, <2>1 DEF WInv, Ahead
<1>4. Covered'
  <2> SUFFICES ASSUME NEW root \in ex.asked,
                      NEW p \in FilesBelow(src, root) \ (ex.changed \cup src.dirs)
               PROVE  \/ Entry(p) \in pkg'.entries
                      \/ \E b \in ex'.dirs \cup ex'.roots \cup ex'.skipped : Under(b, p)
    BY <1>0, <1>1 DEF Covered, Entry, NameOf
  <2>1. p \in DOMAIN src.files /\ p \in Path /\ p \in Seq(STRING) /\ p \notin src.dirs
    BY <1>2 DEF FilesBelow, Path
  <2>2. CASE \/ Entry(p) \in pkg.entries
             \/ \E b \in (ex.dirs \ {d}) \cup ex.roots \cup ex.skipped : Under(b, p)
    BY <1>1, <2>2
  <2>3. CASE Under(d, p)
    <3>1. d # p
      BY <1>0, <2>1 DEF HasDir, Path
    <3>2. PICK c \in Path : /\ Len(c) = Len(d) + 1 /\ Under(d, c) /\ Under(c, p)
                            /\ c = p \/ c \in Ancestors(p)
      BY <1>2, <2>1, <2>3, <3>1, FirstStep
    <3>3. CASE c \in passed
      BY <1>1, <3>2, <3>3
    <3>4. CASE c = p /\ c \notin passed
      BY <1>1, <2>1, <3>2, <3>4 DEF Listed, Children
    <3>5. CASE c \in Ancestors(p) /\ c \notin passed
      <4>1. c \in ReadDirs(src, d)
        BY <1>0, <1>2, <2>1, <3>2, <3>5 DEF Rooted, ReadDirs, Children
      <4> QED
        BY <1>1, <3>2, <3>5, <4>1
    <3> QED
      BY <3>2, <3>3, <3>4, <3>5
  <2> QED
    BY <1>0, <2>2, <2>3 DEF WInv, Covered
<1> QED
  BY <1>3, <1>4

\* The walk of a path begins with it, below which everything is, or is over
\* with its one file.
LEMMA EntersRootKeeps ==
    ASSUME SInv, WInv, NEW root \in ex.roots, EntersRoot(root)
    PROVE  Ahead' /\ Covered'
<1>1. /\ UNCHANGED <<src, late>> /\ ex.pc = "walk" /\ ex'.pc = "walk"
      /\ ex'.asked = ex.asked /\ ex'.changed = ex.changed /\ ex'.skipped = ex.skipped
      /\ ex'.roots = ex.roots \ {root} /\ ex.dirs = {}
      /\ ex'.dirs = IF Get(src, root) = "dir" THEN {root} ELSE {}
      /\ pkg'.entries = pkg.entries \cup RootFile(root) /\ Get(src, root) # "none"
  BY DEF EntersRoot, AddsFiles, SInv, ShareParts, Fields, ExFields
<1>2. root \in Seq(STRING) /\ DOMAIN src.files \subseteq Path /\ Rooted(src)
  BY DEF SInv, ShareParts, Fields, Sound, IsTree, Path, WInv, Ahead
<1>3. Ahead'
  BY <1>1, <1>2 DEF WInv, Ahead
<1>4. ASSUME NEW p \in DOMAIN src.files \ src.dirs, Under(root, p)
      PROVE  Entry(p) \in pkg'.entries \/ root \in ex'.dirs
  <2>1. CASE Get(src, root) = "dir"
    BY <1>1, <2>1
  <2>2. CASE Get(src, root) # "dir"
    <3>1. root \in DOMAIN src.files /\ root \in Path /\ ~HasDir(src, root)
          /\ RootFile(root) = {Entry(root)}
      BY <1>1, <1>2, <2>2 DEF RootFile, Get, HasJson
    <3>2. CASE root # p
      <4>1. p \in Path
        BY <1>2
      <4>2. Len(root) <= Len(p) /\ \A i \in 1..Len(root) : root[i] = p[i]
        BY <1>2, <1>4, <4>1, UnderNames DEF Path
      <4>3. root = SubSeq(p, 1, Len(root))
        <5>1. /\ SubSeq(p, 1, Len(root)) \in Seq(STRING)
              /\ Len(SubSeq(p, 1, Len(root))) = Len(root)
              /\ \A i \in 1..Len(root) : SubSeq(p, 1, Len(root))[i] = root[i]
          BY <1>2, <4>1, <4>2 DEF Path
        <5> QED
          BY <1>2, <5>1, SeqEqual
      <4>4. root \in Prefixes(p)
        <5>1. Len(root) \in 0..Len(p)
          BY <1>2, <4>1, <4>2 DEF Path
        <5>2. \A l \in 0..Len(p) : SubSeq(p, 1, l) \in Prefixes(p)
          BY DEF Prefixes
        <5> QED
          BY <4>3, <5>1, <5>2
      <4>5. root \in Ancestors(p)
        BY <3>1, <3>2, <4>4 DEF Ancestors, Path
      <4> QED
        BY <1>2, <3>1, <4>5 DEF Rooted, HasDir
    <3> QED
      BY <1>1, <3>1, <3>2
  <2> QED
    BY <2>1, <2>2
<1>5. Covered'
  <2> SUFFICES ASSUME NEW r \in ex.asked,
                      NEW p \in FilesBelow(src, r) \ (ex.changed \cup src.dirs)
               PROVE  \/ Entry(p) \in pkg'.entries
                      \/ \E b \in ex'.dirs \cup ex'.roots \cup ex'.skipped : Under(b, p)
    BY <1>1 DEF Covered, Entry, NameOf
  <2>1. CASE Under(root, p)
    BY <1>4, <2>1 DEF FilesBelow
  <2>2. CASE ~Under(root, p)
    BY <1>1, <2>2 DEF WInv, Covered
  <2> QED
    BY <2>1, <2>2
<1> QED
  BY <1>3, <1>5

\* An export begins with all its paths ahead.
LEMMA ExportBeginKeeps ==
    ASSUME SInv, NEW paths \in ExportRoots, ExportBegins(paths)
    PROVE  Ahead' /\ Covered'
<1>1. /\ ex'.pc = "walk" /\ ex'.asked = paths /\ ex'.roots = paths /\ ex'.dirs = {}
  BY DEF ExportBegins, NoExport
<1>2. paths \subseteq Seq(STRING)
  BY PathAssumption
<1>3. Covered'
  BY <1>1 DEF Covered, FilesBelow
<1> QED
  BY <1>1, <1>2, <1>3 DEF Ahead

\* What users change is noted; the rest is where it was.
LEMMA UsersKeep ==
    ASSUME SInv, WInv, NEW changed, Note(changed, src', late'), Untouched(changed), pkg' = pkg
    PROVE  Ahead' /\ Covered'
<1>1. /\ ex'.pc = ex.pc /\ ex'.asked = ex.asked /\ ex'.roots = ex.roots
      /\ ex'.dirs = ex.dirs /\ ex'.skipped = ex.skipped
      /\ ex.pc \in {"walk", "append", "key"} => ex'.changed = ex.changed \cup changed
  BY DEF Note, SInv, ShareParts, Fields, ExFields
<1>2. Covered'
  <2> SUFFICES ASSUME ex.pc \in {"walk", "append", "key"}, NEW root \in ex.asked,
                      NEW p \in DOMAIN src'.files, Under(root, p),
                      p \notin ex.changed, p \notin changed, p \notin src'.dirs
               PROVE  \/ Entry(p)' \in pkg.entries
                      \/ \E d \in ex.dirs \cup ex.roots \cup ex.skipped : Under(d, p)
    BY <1>1 DEF Covered, FilesBelow
  <2>1. p \in DOMAIN src.files \ src.dirs /\ Entry(p)' = Entry(p)
    BY DEF Untouched
  <2> QED
    BY <2>1 DEF WInv, Covered, FilesBelow
<1> QED
  BY <1>1, <1>2 DEF WInv, Ahead

\* An import saves an entry; what another has saved at its path makes way.
LEMMA ImportKeeps ==
    ASSUME SInv, WInv, NEW e \in im.todo, ImportSaves(e)
    PROVE  Brought'
<1>1. /\ im'.all = im.all /\ im'.todo = im.todo \ {e} /\ im'.changed = im.changed
      /\ dst' = SaveFile(dst, e[1], e[2]) /\ im.pc = "save"
  BY DEF ImportSaves, SInv, ShareParts, Fields
<1>2. e \in im.all /\ e[1] \in Path /\ e[2] \in Names /\ e = <<e[1], e[2]>>
  BY DEF SInv, TypeOK, ShareParts, FileEntries
<1>3. /\ DOMAIN dst'.files = DOMAIN dst.files \cup {e[1]} /\ dst'.files[e[1]] = e[2]
      /\ \A f \in DOMAIN dst.files \ {e[1]} : dst'.files[f] = dst.files[f]
  BY <1>1, <1>2, SaveFileEffect DEF SInv, ShareParts, Fields
<1>4. ASSUME NEW f \in im.all \ im'.todo, f[1] \notin im.changed
      PROVE  f[1] \in DOMAIN dst'.files /\ <<f[1], dst'.files[f[1]]>> \in im.all
  <2>1. CASE f[1] = e[1]
    BY <1>2, <1>3, <2>1
  <2>2. CASE f[1] # e[1]
    BY <1>1, <1>3, <1>4, <2>2 DEF WInv, Brought
  <2> QED
    BY <2>1, <2>2
<1> QED
  BY <1>1, <1>4 DEF Brought

\* A user of the importing vault writes a path, which is noted.
LEMMA DstPutKeeps ==
    ASSUME SInv, WInv, NEW p \in DstPaths, DstPut(p)
    PROVE  (im.pc = "save" => Brought)'
<1>1. /\ im'.all = im.all /\ im'.todo = im.todo /\ im'.pc = im.pc
      /\ im.pc # "idle" => im'.changed = im.changed \cup {p}
      /\ dst' = SaveFile(dst, p, nextName)
  BY DEF DstPut, SInv, ShareParts, Fields
<1>2. Sound(dst, Names \cup {nextName}) /\ p \in Path
  BY PathAssumption, StaysSound DEF SInv, ShareParts, Fields, Path
<1>3. /\ DOMAIN dst'.files = DOMAIN dst.files \cup {p}
      /\ \A f \in DOMAIN dst.files \ {p} : dst'.files[f] = dst.files[f]
  BY <1>1, <1>2, SaveFileEffect
<1> QED
  BY <1>1, <1>3 DEF WInv, Brought

LEMMA WInvInit == Init => WInv
BY DEF Init, WInv, Ahead, Covered, NoExport, NoImport

\* What the walk relies on reads src, late, the package and these.
LEMMA WalkSame ==
    ASSUME WInv, UNCHANGED <<src, late>>, pkg'.entries = pkg.entries,
           ex'.asked = ex.asked, ex'.roots = ex.roots, ex'.dirs = ex.dirs,
           ex'.skipped = ex.skipped, ex'.changed = ex.changed,
           \/ ex'.pc = ex.pc
           \/ ex.pc \in {"walk", "append"} /\ ex.dirs = {} /\ ex.roots = {}
    PROVE  Ahead' /\ Covered'
<1>1. \A p : Entry(p)' = Entry(p)
  BY DEF Entry, NameOf
<1> QED
  BY <1>1 DEF WInv, Ahead, Covered, FilesBelow

\* No export relies on anything.
LEMMA WalkOver ==
    ASSUME ex' = NoExport \/ ex' = [NoExport EXCEPT !.pc = "sync"]
    PROVE  Ahead' /\ Covered'
<1>1. ex'.dirs = {} /\ ex'.roots = {} /\ ex'.pc \in {"idle", "sync"}
  BY DEF NoExport
<1> QED
  BY <1>1 DEF Ahead, Covered

\* Every step keeps what the walk and the import rely on.
LEMMA WInvStep == SInv /\ WInv /\ [Next]_vars => WInv'
<1> SUFFICES ASSUME SInv, WInv, [Next]_vars PROVE WInv'
  OBVIOUS
<1>1. CASE UNCHANGED <<dst, im>> /\ Ahead' /\ Covered'
  BY <1>1 DEF WInv, Brought
<1>2. CASE UNCHANGED vars
  BY <1>1, <1>2, WalkSame DEF vars
<1>3. CASE SrcChanges
  BY <1>1, <1>3, SrcSteps, UsersKeep
<1>4. ASSUME NEW p \in DstPaths, DstPut(p) PROVE WInv'
  BY <1>4, WalkSame, DstPutKeeps DEF DstPut, WInv
<1>5. ASSUME Rekey PROVE WInv'
  BY <1>1, <1>5, WalkSame DEF Rekey
<1>6. ASSUME NEW paths \in ExportRoots, ExportBegins(paths) PROVE WInv'
  BY <1>1, <1>6, ExportBeginKeeps DEF ExportBegins
<1>7. ASSUME NEW root \in ex.roots, EntersRoot(root) PROVE WInv'
  BY <1>1, <1>7, EntersRootKeeps DEF EntersRoot
<1>8. ASSUME NEW d \in ex.dirs, Walks(d) PROVE WInv'
  BY <1>1, <1>8, WalkKeeps DEF Walks
<1>9. CASE WritesManifest
  <2>1. /\ UNCHANGED <<src, late, dst, im>> /\ pkg'.entries = pkg.entries
        /\ ex.pc = "walk" /\ ex.roots = {} /\ ex.dirs = {}
        /\ ex'.asked = ex.asked /\ ex'.roots = ex.roots /\ ex'.dirs = ex.dirs
        /\ ex'.skipped = ex.skipped /\ ex'.changed = ex.changed
    BY <1>9 DEF WritesManifest, SInv, ShareParts, Fields, ExFields
  <2> QED
    BY <1>1, <2>1, WalkSame
<1>10. CASE CutsTrailer
  <2>1. /\ UNCHANGED <<src, late, dst, im>> /\ pkg'.entries = pkg.entries
        /\ ex.pc = "append" /\ ex'.asked = ex.asked /\ ex'.roots = ex.roots
        /\ ex'.dirs = ex.dirs /\ ex'.skipped = ex.skipped /\ ex'.changed = ex.changed
    BY <1>10 DEF CutsTrailer, SInv, ShareParts, Fields, ExFields
  <2>2. ex.roots = {} /\ ex.dirs = {}
    BY <2>1 DEF WInv, Ahead
  <2> QED
    BY <1>1, <2>1, <2>2, WalkSame
<1>11. CASE ExportAnswers \/ ExportFails \/ \E k \in ShareKeys : AppendsKey(k)
  BY <1>1, <1>11, WalkOver DEF ExportAnswers, ExportFails, AppendsKey
<1>12. ASSUME NEW k \in ShareKeys, ImportBegins(k) PROVE WInv'
  <2>1. UNCHANGED <<src, late, ex, pkg>> /\ im'.all = pkg.entries /\ im'.todo = pkg.entries
    BY <1>12 DEF ImportBegins, NoImport
  <2> QED
    BY <2>1, WalkSame DEF WInv, Brought
<1>13. ASSUME NEW e \in im.todo, ImportSaves(e) PROVE WInv'
  BY <1>13, WalkSame, ImportKeeps DEF ImportSaves, WInv
<1>14. CASE ImportAnswers \/ ImportFails
  <2>1. UNCHANGED <<src, late, ex, pkg>> /\ im' = NoImport
    BY <1>14 DEF ImportAnswers, ImportFails
  <2> QED
    BY <2>1, WalkSame, IdleParts DEF WInv
<1> QED
  BY <1>2, <1>3, <1>4, <1>5, <1>6, <1>7, <1>8, <1>9, <1>10, <1>11, <1>12, <1>13, <1>14
  DEF Next, SrcChanges

\* In every reachable state: what a walk has ahead and what it has passed over
\* account for all that it has not written, and an import for what it saved.
THEOREM WalkInductive == Spec => []WInv
BY WInvInit, WInvStep, ShareInductive, PTL DEF Spec

\* A package that opens has all that nobody has touched and no directory
\* listing has passed over.
THEOREM ExportsAreComplete == Spec => ExportComplete
<1>1. SInv /\ WInv /\ [Next]_vars =>
        [pkg.stage # "keyed" /\ pkg'.stage = "keyed" =>
          \A root \in ex.asked : \A p \in FilesBelow(src, root) \ ex.changed :
              \/ Get(src, p) = "dir"
              \/ \E q \in ex.skipped : Under(q, p)
              \/ Entry(p) \in pkg'.entries]_vars
  <2> SUFFICES ASSUME SInv, WInv, [Next]_vars, pkg.stage # "keyed", pkg'.stage = "keyed",
                      NEW root \in ex.asked, NEW p \in FilesBelow(src, root) \ ex.changed,
                      Get(src, p) # "dir"
               PROVE  (\E q \in ex.skipped : Under(q, p)) \/ Entry(p) \in pkg'.entries
    OBVIOUS
  <2>1. \E k \in ShareKeys : AppendsKey(k)
    BY DEF Next, vars, SrcPut, SrcRename, SrcNamed, SrcRemove, DstPut, Rekey, ExportBegins,
           NoPackage, EntersRoot, Walks, AddsFiles, WritesManifest, CutsTrailer,
           ExportAnswers, ExportFails, ImportBegins, ImportSaves, ImportAnswers,
           ImportFails, SInv, ShareParts, Fields
  <2>2. ex.pc = "key" /\ pkg'.entries = pkg.entries
    BY <2>1 DEF AppendsKey, SInv, ShareParts, Fields
  <2>3. p \notin src.dirs /\ ex.dirs = {} /\ ex.roots = {}
    BY <2>2 DEF Get, HasDir, WInv, Ahead
  <2> QED
    BY <2>2, <2>3 DEF WInv, Covered
<1> QED
  BY <1>1, ShareInductive, WalkInductive, PTL DEF Spec, ExportComplete

\* An import that reports success has brought all of the package.
THEOREM ImportsAreComplete == Spec => ImportComplete
<1>1. WInv =>
        [im.pc = "save" /\ im'.pc = "idle" /\ im.todo = {} =>
          \A e \in im.all : e[1] \in im.changed \/ <<e[1], dst.files[e[1]]>> \in im.all]_vars
  BY DEF WInv, Brought
<1> QED
  BY <1>1, WalkInductive, PTL DEF ImportComplete
=============================================================================
