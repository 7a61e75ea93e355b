---------------------------- MODULE SharePackage ----------------------------
(***************************************************************************)
(* Share packages: the metadata below a path of one vault is exported to a *)
(* tar file, which another vault that uses the same remote storage         *)
(* imports with the share key.  Both vaults go on serving requests         *)
(* meanwhile; the tools take a lock that the servers do not.               *)
(*                                                                         *)
(* A vault is a MetaTree, the content of a file the name of its remote     *)
(* object.  An entry of the package holds path, content and the file key   *)
(* in the clear (encrypted as a whole with the session key of the          *)
(* package); sealing the file key with the other vault's master key is     *)
(* left out.  A listing of one directory is taken as one step, directories *)
(* are not moved.                                                          *)
(*                                                                         *)
(* A JSON file also holds the file's Name, which a rename updates after    *)
(* os.Rename: until then, or for good when it is cut short, the file has   *)
(* the name it had before, and that name is what an export makes an        *)
(* entry's path of.                                                        *)
(***************************************************************************)
EXTENDS MetaTree, FiniteSets

CONSTANTS SrcPaths,   \* files of the exporting vault
          DstPaths,   \* files that users of the importing vault write
          ExportRoots, \* lists of paths that are exported, as sets
          ShareKeys,  \* share keys in use
          MaxNames,   \* bound: remote names drawn in a behaviour
          MaxExports, \* bound: exports begun in a behaviour
          Faults      \* "disk": reading or writing fails; "crash"; "rekey": the
                      \* exporting vault gets another master key

ASSUME PathAssumption ==
    /\ SrcPaths \cup DstPaths \cup UNION ExportRoots \subseteq Seq(STRING)
    /\ Root \notin SrcPaths \cup DstPaths
ASSUME BoundAssumption == MaxNames \in Nat /\ MaxExports \in Nat
ASSUME FaultAssumption == Faults \subseteq {"disk", "crash", "rekey"}

VARIABLES src, dst,   \* the metadata of the two vaults
          late,       \* from files whose Name a rename has not updated to that Name
          nextName,   \* remote names below it have been drawn
          stale,      \* names whose file key is sealed with a former master key
          ex, exports, \* the export that is running; exports begun
          pkg,        \* the tar file
          im,         \* the import that is running
          walked      \* the contents of the packages whose walk has ended

vars == <<src, dst, late, nextName, stale, ex, exports, pkg, im, walked>>

Names == 1..(nextName - 1)
Entries == Seq(STRING) \X Names

\* asked: the paths to export; roots: those not begun with; dirs: directories
\* still to be read; skipped: what ReadDir passed over; changed: paths that
\* users have changed since the start.  Over the walk, seen: paths and contents
\* the vault has had; misnamed: paths whose Name was another.
NoExport == [pc |-> "idle", asked |-> {}, roots |-> {}, dirs |-> {}, skipped |-> {},
             changed |-> {}, seen |-> {}, misnamed |-> {}]
NoImport == [pc |-> "idle", all |-> {}, todo |-> {}, changed |-> {}]

\* stage: nothing but entries yet, closed with its manifest, the end of
\* archive cut off, or private_key.enc written.
NoPackage == [stage |-> "none", entries |-> {}, key |-> "none"]

TypeOK ==
    /\ nextName \in Nat \ {0} /\ stale \subseteq Names
    /\ IsTree(src, Names) /\ IsTree(dst, Names)
    /\ late \in [DOMAIN late -> STRING] /\ DOMAIN late \subseteq DOMAIN src.files
    /\ ex.pc \in {"idle", "walk", "append", "key", "sync"} /\ exports \in 0..MaxExports
    /\ pkg.stage \in {"none", "entries", "closed", "cut", "keyed"}
    /\ pkg.entries \subseteq Entries
    /\ pkg.stage = "keyed" => pkg.key \in ShareKeys
    /\ im.pc \in {"idle", "save"} /\ im.todo \subseteq im.all /\ im.all \subseteq Entries
    /\ walked \subseteq SUBSET Entries

Init ==
    /\ src = EmptyTree /\ dst = EmptyTree /\ late = <<>> /\ nextName = 1 /\ stale = {}
    /\ ex = NoExport /\ exports = 0 /\ pkg = NoPackage
    /\ im = NoImport /\ walked = {}

-----------------------------------------------------------------------------
\* Files of a tree at or below a path, and what they hold.
FilesBelow(t, root) == {p \in DOMAIN t.files : Under(root, p)}
Contents(t) == {<<p, t.files[p]>> : p \in DOMAIN t.files}

\* The Name in the metadata of a file, and the entry an export makes of both.
NameOf(p) == IF p \in DOMAIN late THEN late[p] ELSE Last(p)
Entry(p) == <<Append(Front(p), NameOf(p)), src.files[p]>>
Misnamed(l) == {p \in DOMAIN l : l[p] # Last(p)}

\* What users do to the exporting vault, noted by a running export.
Note(changed, t, l) ==
    ex' = CASE ex.pc = "walk" -> [ex EXCEPT !.changed = @ \cup changed,
                                            !.seen = @ \cup Contents(t),
                                            !.misnamed = @ \cup Misnamed(l)]
            [] ex.pc \in {"append", "key"} -> [ex EXCEPT !.changed = @ \cup changed]
            [] OTHER -> ex

SrcPut(p) ==
    /\ nextName <= MaxNames
    /\ src' = SaveFile(src, p, nextName) /\ nextName' = nextName + 1
    /\ late' = Restrict(late, DOMAIN late \ {p})
    /\ Note({p}, src', late')
    /\ UNCHANGED <<dst, stale, exports, pkg, im, walked>>

SrcRemove(p) ==
    /\ Get(src, p) # "none" /\ p # Root
    /\ src' = RemoveAll(src, p)
    /\ late' = Restrict(late, DOMAIN late \cap DOMAIN src'.files)
    /\ Note({q \in SrcPaths : Under(p, q)}, src', late')
    /\ UNCHANGED <<dst, nextName, stale, exports, pkg, im, walked>>

\* os.Rename, or the copy that takes its place ...
SrcRename(p, q) ==
    /\ p # q /\ HasJson(src, p)
    /\ src' = RenameFile(src, p, q)
    /\ late' = [r \in (DOMAIN late \ {p}) \cup {q} |-> IF r = q THEN NameOf(p) ELSE late[r]]
    /\ Note({p, q}, src', late')
    /\ UNCHANGED <<dst, nextName, stale, exports, pkg, im, walked>>

\* ... and updateMetadataName, which a failing disk or the end of the server
\* leaves undone.
SrcNamed(q) ==
    /\ q \in DOMAIN late
    /\ late' = Restrict(late, DOMAIN late \ {q})
    /\ Note({q}, src, late')
    /\ UNCHANGED <<src, dst, nextName, stale, exports, pkg, im, walked>>

DstPut(p) ==
    /\ nextName <= MaxNames
    /\ dst' = SaveFile(dst, p, nextName) /\ nextName' = nextName + 1
    /\ im' = IF im.pc = "idle" THEN im ELSE [im EXCEPT !.changed = @ \cup {p}]
    /\ UNCHANGED <<src, late, stale, ex, exports, pkg, walked>>

\* The exporting vault gets another master key, and its server is restarted;
\* file keys sealed before cannot be opened any more.
Rekey ==
    /\ "rekey" \in Faults /\ ex.pc = "idle" /\ stale # Names
    /\ stale' = Names
    /\ UNCHANGED <<src, dst, late, nextName, ex, exports, pkg, im, walked>>

-----------------------------------------------------------------------------
(* CreateSharePackage *)

\* addFileToTar writes an entry for each file; the first whose file key does
\* not open ends the export.
AddsFiles(files) == pkg' = [pkg EXCEPT !.entries = @ \cup files]
Opens(files) == \A e \in files : e[2] \notin stale

ExportBegins(paths) ==
    /\ ex.pc = "idle" /\ exports < MaxExports
    /\ ex' = [NoExport EXCEPT !.pc = "walk", !.asked = paths, !.roots = paths,
                              !.seen = Contents(src), !.misnamed = Misnamed(late)]
    /\ pkg' = [NoPackage EXCEPT !.stage = "entries"]
    /\ exports' = exports + 1
    /\ UNCHANGED <<src, dst, late, nextName, stale, im, walked>>

\* One path after the other: a directory is walked, a file added.  (A path
\* without metadata is a nil dereference: see ExportFails.)
RootFile(root) == IF Get(src, root) = "file" THEN {Entry(root)} ELSE {}
EntersRoot(root) ==
    /\ ex.pc = "walk" /\ ex.dirs = {} /\ root \in ex.roots
    /\ Get(src, root) # "none" /\ Opens(RootFile(root))
    /\ ex' = [ex EXCEPT !.roots = @ \ {root},
                        !.dirs = IF Get(src, root) = "dir" THEN {root} ELSE {}]
    /\ AddsFiles(RootFile(root))
    /\ UNCHANGED <<src, dst, late, nextName, stale, exports, im, walked>>

\* addDirectoryToTar reads a directory.  ReadDir logs and passes over a child
\* that cannot be read, or whose JSON is cut off, as while a save is under way.
ListedAtTop(d, passed) ==
    {<<<<NameOf(p)>>, src.files[p]>> : p \in Children(DOMAIN src.files, d) \ (src.dirs \cup passed)}
Listed(d, passed) ==
    {Entry(p) : p \in Children(DOMAIN src.files, d) \ (src.dirs \cup passed)}
WalksFilesOnly(d) ==
    \E passed \in SUBSET Children(src.dirs \cup DOMAIN src.files, d) :
        /\ ex.pc = "walk" /\ HasDir(src, d) /\ Opens(Listed(d, passed))
        /\ ex' = [ex EXCEPT !.dirs = @ \ {d}, !.skipped = @ \cup passed]
        /\ AddsFiles(Listed(d, passed))
        /\ UNCHANGED <<src, dst, late, nextName, stale, exports, im, walked>>
Walks(d) ==
    \E passed \in SUBSET Children(src.dirs \cup DOMAIN src.files, d) :
        /\ ex.pc = "walk" /\ HasDir(src, d) /\ Opens(Listed(d, passed))
        /\ ex' = [ex EXCEPT !.dirs = (@ \ {d}) \cup (ReadDirs(src, d) \ passed),
                            !.skipped = @ \cup passed]
        /\ AddsFiles(Listed(d, passed))
        /\ UNCHANGED <<src, dst, late, nextName, stale, exports, im, walked>>

\* The manifest, which holds the sealed session key, and the end of archive.
WritesManifest ==
    /\ ex.pc = "walk" /\ ex.roots = {} /\ ex.dirs = {}
    /\ pkg' = [pkg EXCEPT !.stage = "closed"]
    /\ ex' = [ex EXCEPT !.pc = "append", !.seen = {}, !.misnamed = {}]
    /\ walked' = walked \cup {pkg.entries}
    /\ UNCHANGED <<src, dst, late, nextName, stale, exports, im>>

\* appendEncryptedKey cuts the end of archive off ...
CutsTrailer ==
    /\ ex.pc = "append"
    /\ pkg' = [pkg EXCEPT !.stage = "cut"] /\ ex' = [ex EXCEPT !.pc = "key"]
    /\ UNCHANGED <<src, dst, late, nextName, stale, exports, im, walked>>

AppendsKeyUnset(k) ==
    /\ ex.pc = "key" /\ k \in ShareKeys
    /\ pkg' = [pkg EXCEPT !.stage = "keyed"] /\ ex' = [NoExport EXCEPT !.pc = "sync"]
    /\ UNCHANGED <<src, dst, late, nextName, stale, exports, im, walked>>
\* ... writes the private key, sealed with the share key: from here on the
\* package opens (a tar reader takes the missing end of archive for the end) ...
AppendsKey(k) ==
    /\ ex.pc = "key"
    /\ pkg' = [pkg EXCEPT !.stage = "keyed", !.key = k]
    /\ ex' = [NoExport EXCEPT !.pc = "sync"]
    /\ UNCHANGED <<src, dst, late, nextName, stale, exports, im, walked>>

\* ... and closes and syncs the file.
ExportAnswers ==
    /\ ex.pc = "sync"
    /\ ex' = NoExport
    /\ UNCHANGED <<src, dst, late, nextName, stale, exports, pkg, im, walked>>

\* A path or directory that is gone, a file key that does not open, a failing
\* disk or the end of the process: the tar file stays as it is then.
ExportFails ==
    /\ ex.pc # "idle"
    /\ \/ {"disk", "crash"} \cap Faults # {}
       \/ ex.dirs = {} /\ \E root \in ex.roots :
                             Get(src, root) = "none" \/ ~Opens(RootFile(root))
       \/ \E d \in ex.dirs : ~HasDir(src, d) \/ ~Opens(Listed(d, {}))
    /\ ex' = NoExport
    /\ UNCHANGED <<src, dst, late, nextName, stale, exports, pkg, im, walked>>

-----------------------------------------------------------------------------
(* ReceiveSharePackage *)

\* extractEncryptedKey and decryptPrivateKeyWithKey: private_key.enc has to be
\* there and to open with the share key given.
OpensUnkeyed(k) == pkg.stage # "none"
OpensPackage(k) == pkg.stage = "keyed" /\ pkg.key = k

\* ExtractTarPackage has read the whole file and opened the session key.
ImportBegins(k) ==
    /\ im.pc = "idle" /\ OpensPackage(k)
    /\ im' = [NoImport EXCEPT !.pc = "save", !.all = pkg.entries, !.todo = pkg.entries]
    /\ UNCHANGED <<src, dst, late, nextName, stale, ex, exports, pkg, walked>>

\* Each entry of the manifest is saved, over whatever its path had.
ImportSkipsExisting(e) ==
    /\ im.pc = "save" /\ e \in im.todo
    /\ dst' = IF HasJson(dst, e[1]) THEN dst ELSE SaveFile(dst, e[1], e[2])
    /\ im' = [im EXCEPT !.todo = @ \ {e}]
    /\ UNCHANGED <<src, late, nextName, stale, ex, exports, pkg, walked>>
ImportSaves(e) ==
    /\ im.pc = "save" /\ e \in im.todo
    /\ dst' = SaveFile(dst, e[1], e[2])
    /\ im' = [im EXCEPT !.todo = @ \ {e}]
    /\ UNCHANGED <<src, late, nextName, stale, ex, exports, pkg, walked>>

ImportAnswers ==
    /\ im.pc = "save" /\ im.todo = {}
    /\ im' = NoImport
    /\ UNCHANGED <<src, dst, late, nextName, stale, ex, exports, pkg, walked>>

\* An error or a crash: what has been saved stays.
ImportFails ==
    /\ im.pc = "save" /\ {"disk", "crash"} \cap Faults # {}
    /\ im' = NoImport
    /\ UNCHANGED <<src, dst, late, nextName, stale, ex, exports, pkg, walked>>

-----------------------------------------------------------------------------
Next ==
    \/ \E p \in SrcPaths : SrcPut(p) \/ SrcNamed(p) \/ \E q \in SrcPaths : SrcRename(p, q)
    \/ \E p \in SrcPaths \cup src.dirs : SrcRemove(p)
    \/ \E p \in DstPaths : DstPut(p)
    \/ Rekey
    \/ \E paths \in ExportRoots : ExportBegins(paths)
    \/ \E root \in ex.roots : EntersRoot(root)
    \/ \E d \in ex.dirs : Walks(d)
    \/ WritesManifest \/ CutsTrailer \/ ExportAnswers \/ ExportFails
    \/ \E k \in ShareKeys : AppendsKey(k) \/ ImportBegins(k)
    \/ \E e \in im.todo : ImportSaves(e)
    \/ ImportAnswers \/ ImportFails

Spec == Init /\ [][Next]_vars

-----------------------------------------------------------------------------
\* A package that opens (so one whose export reports success) has every file
\* below the paths asked for that nobody touched while it was made, in whatever
\* order directories were read and changed; but the code also reports success
\* where reading a directory passed over a file, or a directory above it.
ExportComplete ==
    [][pkg.stage # "keyed" /\ pkg'.stage = "keyed" =>
          \A root \in ex.asked : \A p \in FilesBelow(src, root) \ ex.changed :
              \/ Get(src, p) = "dir"
              \/ \E q \in ex.skipped : Under(q, p)
              \/ Entry(p) \in pkg'.entries]_vars

\* It has nothing that was not, at some time while it was made, the content of
\* that very path; or of a file in its directory whose Name a rename had yet to
\* update, or will never update: that file goes by its former name.
NothingInvented ==
    ex.pc = "walk" => \A e \in pkg.entries :
        \/ e \in ex.seen
        \/ \E p \in ex.misnamed : Front(p) = Front(e[1]) /\ <<p, e[2]>> \in ex.seen

\* What reaches the other vault comes from an export that had walked all paths
\* to the end: a package left behind by one that failed before, or one that is
\* still being written, is of no use.  (One whose export failed after the key
\* was written, closing or syncing, does open.)
OnlyWholePackages ==
    im.pc # "idle" => im.all \in walked

\* An import that reports success has brought every entry of the package, but
\* where a user of the importing vault has written the path meanwhile; of
\* several entries of one path it is one.
ImportComplete ==
    [][im.pc = "save" /\ im'.pc = "idle" /\ im.todo = {} =>
          \A e \in im.all : e[1] \in im.changed \/ <<e[1], dst.files[e[1]]>> \in im.all]_vars
=============================================================================
