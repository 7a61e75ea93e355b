------------------------------ MODULE MetaTree ------------------------------
(***************************************************************************)
(* The metadata directory as metadata.LocalStorage keeps it.  A virtual    *)
(* directory /d is the directory base/d; a virtual file /f is the JSON     *)
(* file base/f.json, so that /d and /d.json are two disk entries and both  *)
(* may exist.  A tree is a record                                          *)
(*    dirs    the virtual paths whose directory exists, without the root   *)
(*    files   from the virtual paths whose JSON file exists to the remote  *)
(*            name it records                                              *)
(* and a path is the sequence of its names.  Names ending in ".json" are   *)
(* not used by clients here: their disk entries would collide.             *)
(***************************************************************************)
EXTENDS SequencesExt, Integers

Root == <<>>
EmptyTree == [dirs |-> {}, files |-> <<>>]

\* p is d or lies below it.
Under(d, p) == IsPrefix(d, p)

\* The directories MkdirAll(filepath.Dir(p)) makes sure of.
Ancestors(p) == Prefixes(p) \ {Root, p}

Move(p, from, to) == to \o SubSeq(p, Len(from) + 1, Len(p))

IsTree(t, Names) ==
    /\ t.dirs \subseteq Seq(STRING) \ {Root}
    /\ t.files \in [DOMAIN t.files -> Names]
    /\ DOMAIN t.files \subseteq Seq(STRING) \ {Root}

HasDir(t, p) == p = Root \/ p \in t.dirs
HasJson(t, p) == p \in DOMAIN t.files

\* LocalStorage.Get: a directory hides the JSON file of the same name.
Get(t, p) == IF HasDir(t, p) THEN "dir" ELSE IF HasJson(t, p) THEN "file" ELSE "none"

\* LocalStorage.Save of a file and of a directory.
SaveFile(t, p, remote) ==
    [dirs  |-> t.dirs \cup Ancestors(p),
     files |-> [q \in DOMAIN t.files \cup {p} |-> IF q = p THEN remote ELSE t.files[q]]]
SaveDir(t, p) == [t EXCEPT !.dirs = @ \cup Ancestors(p) \cup ({p} \ {Root})]

Children(S, d) == {p \in S : Len(p) = Len(d) + 1 /\ Under(d, p)}

\* LocalStorage.ReadDir, which looks each entry up with Get: directories, and
\* the remote names of files that no directory hides.
ReadDirs(t, d) == IF HasDir(t, d) THEN Children(t.dirs, d) ELSE {}
ReadFiles(t, d) ==
    IF HasDir(t, d) THEN {t.files[p] : p \in Children(DOMAIN t.files, d) \ t.dirs} ELSE {}

\* LocalStorage.RemoveAll: the JSON file if there is one, else the directory
\* with all it holds; if neither exists the target is empty, which is handled
\* like the base directory: every child of it is removed.
DropTree(t, p) ==
    [dirs  |-> {d \in t.dirs : ~Under(p, d)},
     files |-> Restrict(t.files, {f \in DOMAIN t.files : ~Under(p, f)})]
RemoveJson(t, p) == [t EXCEPT !.files = Restrict(@, DOMAIN @ \ {p})]
RemoveAll(t, p) ==
    IF HasJson(t, p) THEN RemoveJson(t, p)
    ELSE IF p \in t.dirs THEN DropTree(t, p)
    ELSE EmptyTree

\* LocalStorage.Rename.  The JSON file is looked for first, and the directory
\* of the destination is made.  os.Rename replaces a file; it moves a directory
\* neither into itself nor onto one that is there.
CanRename(t, from) == HasJson(t, from) \/ from \in t.dirs
MakeParents(t, to) == [t EXCEPT !.dirs = @ \cup Ancestors(to)]
Movable(t, from, to) == ~Under(from, to) /\ to \notin t.dirs
RenameFileCopy(t, from, to) == SaveFile(t, to, t.files[from])
RenameFile(t, from, to) ==
    LET saved == SaveFile(t, to, t.files[from])
    IN  RemoveJson(saved, from)
RenameDir(t, from, to) ==
    LET moved == {f \in DOMAIN t.files : Under(from, f)}
        rest  == DropTree(t, from)
        image == [f \in {Move(g, from, to) : g \in moved} |->
                     t.files[CHOOSE g \in moved : Move(g, from, to) = f]]
    IN  [dirs  |-> rest.dirs \cup Ancestors(to)
                     \cup {Move(d, from, to) : d \in {e \in t.dirs : Under(from, e)}},
         files |-> [f \in DOMAIN image \cup DOMAIN rest.files |->
                       IF f \in DOMAIN image THEN image[f] ELSE rest.files[f]]]

\* copyDir, in the place of os.Rename: what lies below the source is copied
\* entry by entry, a directory before what it holds; a JSON file in the way is
\* overwritten.  (Bound: of the copies that a directory copied into itself gets
\* on every level of the nesting, those on the first.)
Below(t, from, to) ==
    {p \in t.dirs \cup DOMAIN t.files :
        Under(from, p) /\ ~(Under(from, to) /\ Under(to, p))}
Parts(t, from, to) ==
    {S \in SUBSET Below(t, from, to) :
        \A p \in S : {a \in Ancestors(p) : Under(from, a)} \subseteq S}
CopyTree(t, from, to, S) ==
    LET files == S \cap DOMAIN t.files
        image == [f \in {Move(g, from, to) : g \in files} |->
                     t.files[CHOOSE g \in files : Move(g, from, to) = f]]
    IN  [dirs  |-> t.dirs \cup (IF S = {} THEN {} ELSE Ancestors(to))
                     \cup {Move(d, from, to) : d \in S \cap t.dirs},
         files |-> [f \in DOMAIN image \cup DOMAIN t.files |->
                       IF f \in DOMAIN image THEN image[f] ELSE t.files[f]]]
=============================================================================
