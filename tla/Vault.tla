-------------------------------- MODULE Vault --------------------------------
(***************************************************************************)
(* The proxy under concurrent WebDAV requests: metadata tree, remote       *)
(* objects and the cache of 0-byte placeholders, changed by request        *)
(* goroutines that take several steps each.                                *)
(*                                                                         *)
(* A request first takes the temporary locks of x/net/webdav (the request  *)
(* path, for MOVE also the destination; zero depth, so a lock on /d says   *)
(* nothing of /d/x) and answers 423 if one is held: no step here.  Between *)
(* two steps of a request any step of another may come.  The proxy itself  *)
(* has no lock around metadata and remote.                                 *)
(***************************************************************************)
EXTENDS MetaTree, FiniteSets

CONSTANTS Procs,       \* request goroutines
          FilePaths,   \* paths clients use as files
          Usages,      \* ways in which the server is used
          MaxUploads,  \* bound: uploads started in a behaviour
          MaxDepth     \* bound: names in a path that a MOVE makes

OpKinds == {"put", "empty", "mkcol", "delete", "move"}

\* A usage says whether requests come one at a time or overlap, the paths
\* clients use as directories (the root may be one), the kinds of requests they
\* send, and what may go wrong: "remote", the remote fails; "disk", a call of
\* the file system in a rename does; "crash", the server is restarted.
ASSUME UsageAssumption ==
    \A u \in Usages :
        /\ u.serial \in BOOLEAN /\ u.dirs \subseteq Seq(STRING)
        /\ u.ops \subseteq OpKinds /\ u.faults \subseteq {"remote", "disk", "crash"}
ASSUME PathAssumption == FilePaths \subseteq Seq(STRING) /\ Root \notin FilePaths
ASSUME BoundAssumption == MaxUploads \in Nat /\ MaxDepth \in Nat

VARIABLES
    usage,         \* how the server is used, which does not change
    tree,          \* LocalStorage on disk
    objs,          \* names of the complete objects the remote holds
    placeholders,  \* pendingCache: paths with an entry that has not expired
    nextName,      \* generateRemoteName: names below it have been drawn
    req,           \* the request each goroutine is serving
    stranded,      \* history: objects whose path left a directory while it was
                   \* being deleted, by a MOVE or as a restart ended the DELETE
    copied         \* history: objects whose metadata LocalStorage.Rename has
                   \* written a second time, by its fallback or late

serial == usage.serial
DirPaths == usage.dirs
Faults == usage.faults
Paths == FilePaths \cup DirPaths

aside == <<usage, stranded, copied>>
store == <<tree, objs, placeholders, nextName, aside>>
vars == <<store, req>>

Names == 1..(nextName - 1)

\* A request: where it is, method, path and destination (the path itself but
\* for MOVE), the remote name drawn by an upload or found in metadata, what
\* recursiveRemoteDelete has still to read and to delete, and whether a rename
\* has fallen back to copying.
Idle == [pc |-> "idle", op |-> "none", path |-> Root, to |-> Root,
         name |-> 0, dirs |-> {}, objs |-> {}, copying |-> FALSE]
RenamePcs == {"rename", "copyfile", "copydir", "name", "rewrite", "remove"}
Request == [pc   : {"idle", "upload", "save", "get", "delete", "walk", "drop"} \cup RenamePcs,
            op   : OpKinds \cup {"none"},
            path : Seq(STRING), to : Seq(STRING),
            name : Names \cup {0},
            dirs : SUBSET Seq(STRING), objs : SUBSET Names,
            copying : BOOLEAN]

TypeOK ==
    /\ usage \in Usages
    /\ nextName \in Nat \ {0}
    /\ IsTree(tree, Names)
    /\ objs \subseteq Names
    /\ placeholders \subseteq Seq(STRING)
    /\ req \in [Procs -> Request]
    /\ stranded \subseteq Names /\ copied \subseteq Names

Init ==
    /\ usage \in Usages
    /\ tree = EmptyTree /\ objs = {} /\ placeholders = {} /\ nextName = 1
    /\ req = [r \in Procs |-> Idle] /\ stranded = {} /\ copied = {}

-----------------------------------------------------------------------------
\* The lock system: a path is locked while a request on it is running.
Locked(p) == \E r \in Procs : req[r].pc # "idle" /\ p \in {req[r].path, req[r].to}

CanBegin(r, kind, p, dst) ==
    /\ req[r].pc = "idle" /\ kind \in usage.ops /\ ~Locked(p) /\ ~Locked(dst)
    /\ serial => \A s \in Procs : req[s].pc = "idle"

Begin(r, kind, p, dst, label, name) ==
    req' = [req EXCEPT ![r] = [Idle EXCEPT !.pc = label, !.op = kind, !.path = p,
                                           !.to = dst, !.name = name]]
At(r, label) == req[r].pc = label
Goto(r, label) == req' = [req EXCEPT ![r].pc = label]
Finish(r) == req' = [req EXCEPT ![r] = Idle]

\* FileSystem.Stat: a placeholder or an entry of the metadata tree.
Exists(p) == p \in placeholders \/ Get(tree, p) # "none"

-----------------------------------------------------------------------------
(* PUT *)

\* OpenFile, first Write, and UploadFile up to remote.Upload: the placeholder
\* of the path goes, a fresh remote name is drawn.
PutKeepingPlaceholder(r, p) ==
    /\ CanBegin(r, "put", p, p) /\ nextName <= MaxUploads
    /\ Begin(r, "put", p, p, "upload", nextName)
    /\ nextName' = nextName + 1
    /\ UNCHANGED <<tree, objs, placeholders, aside>>
PutReusingName(r, p) ==
    /\ CanBegin(r, "put", p, p) /\ nextName <= MaxUploads
    /\ Begin(r, "put", p, p, "upload", nextName)
    /\ placeholders' = placeholders \ {p}
    /\ UNCHANGED <<tree, objs, nextName, aside>>
Put(r, p) ==
    /\ CanBegin(r, "put", p, p) /\ nextName <= MaxUploads
    /\ Begin(r, "put", p, p, "upload", nextName)
    /\ placeholders' = placeholders \ {p}
    /\ nextName' = nextName + 1
    /\ UNCHANGED <<tree, objs, aside>>

\* remote.Upload returned: the object is complete at the remote.
Stored(r) ==
    /\ At(r, "upload")
    /\ objs' = objs \cup {req[r].name}
    /\ Goto(r, "save")
    /\ UNCHANGED <<tree, placeholders, nextName, aside>>

\* remote.Upload failed; the metadata is left as it was.
StoreFails(r) ==
    /\ At(r, "upload") /\ "remote" \in Faults
    /\ Finish(r)
    /\ UNCHANGED store

\* meta.Save, and the answer 201.  The object an overwritten path had stays
\* at the remote.
SaveMeta(r) ==
    /\ At(r, "save")
    /\ tree' = SaveFile(tree, req[r].path, req[r].name)
    /\ Finish(r)
    /\ UNCHANGED <<objs, placeholders, nextName, aside>>

\* PUT without a body: Close saves a placeholder.
PutEmpty(r, p) ==
    /\ CanBegin(r, "empty", p, p)
    /\ placeholders' = placeholders \cup {p}
    /\ UNCHANGED <<tree, objs, nextName, req, aside>>

\* The 30 seconds of a placeholder are over.
Expire(p) ==
    /\ p \in placeholders
    /\ placeholders' = placeholders \ {p}
    /\ UNCHANGED <<tree, objs, nextName, req, aside>>

\* MKCOL
Mkdir(r, p) ==
    /\ CanBegin(r, "mkcol", p, p)
    /\ tree' = SaveDir(tree, p)
    /\ UNCHANGED <<objs, placeholders, nextName, req, aside>>

-----------------------------------------------------------------------------
(* DELETE, and MOVE onto an existing destination *)

\* handleDelete answers 404 unless Stat finds the path.
Delete(r, p) ==
    /\ CanBegin(r, "delete", p, p) /\ Exists(p)
    /\ Begin(r, "delete", p, p, "get", 0)
    /\ UNCHANGED store

\* handleCopyMove refuses no destination but the source itself, and moveFiles
\* removes an existing one first.  The source is not looked at before the rename.
MoveTo(r, src, dst) ==
    /\ src # dst
    /\ {src, dst} \subseteq FilePaths \/ {src, dst} \subseteq DirPaths \ {Root}
    /\ CanBegin(r, "move", src, dst)
    /\ \A p \in tree.dirs \cup DOMAIN tree.files :
          Under(src, p) => Len(Move(p, src, dst)) <= MaxDepth
    /\ Begin(r, "move", src, dst, IF Exists(dst) THEN "get" ELSE "rename", 0)
    /\ UNCHANGED store

Target(r) == req[r].to

\* Objects at whose path a DELETE is at work.
Removing(r) == req[r].pc \in {"get", "delete", "walk", "drop"}
Exposed == {tree.files[f] : f \in {p \in DOMAIN tree.files :
               \E r \in Procs : Removing(r) /\ Under(Target(r), p)}}
Strands == stranded' = stranded \cup (Exposed \ Exposed')

\* RemoveAll has ended: DELETE answers, MOVE goes on to the rename.
Removed(r) == IF req[r].op = "move" THEN Goto(r, "rename") ELSE Finish(r)

\* Proxy.RemoveAll reads the metadata of the target.
GetFile(r) ==
    /\ At(r, "get") /\ Get(tree, Target(r)) = "file"
    /\ req' = [req EXCEPT ![r].pc = "delete", ![r].name = tree.files[Target(r)]]
    /\ UNCHANGED store

GetDir(r) ==
    /\ At(r, "get") /\ Get(tree, Target(r)) = "dir"
    /\ req' = [req EXCEPT ![r].pc = "walk", ![r].dirs = {Target(r)}]
    /\ UNCHANGED store

GetNothingDrops(r) ==
    /\ At(r, "get") /\ Get(tree, Target(r)) = "none"
    /\ Goto(r, "drop")
    /\ placeholders' = placeholders \ {Target(r)}
    /\ UNCHANGED <<tree, objs, nextName, aside>>
\* No metadata: a placeholder is removed, anything else is ErrNotExist.
GetNothing(r) ==
    /\ At(r, "get") /\ Get(tree, Target(r)) = "none"
    /\ \/ /\ Target(r) \in placeholders
          /\ placeholders' = placeholders \ {Target(r)}
          /\ Removed(r)
       \/ /\ Target(r) \notin placeholders
          /\ Finish(r)
          /\ UNCHANGED placeholders
    /\ UNCHANGED <<tree, objs, nextName, aside>>

\* remote.Delete, whose error is only logged.
RemoteDelete(n) ==
    \/ objs' = objs \ {n}
    \/ "remote" \in Faults /\ UNCHANGED objs

DeleteFile(r) ==
    /\ At(r, "delete")
    /\ RemoteDelete(req[r].name)
    /\ Goto(r, "drop")
    /\ UNCHANGED <<tree, placeholders, nextName, aside>>

\* recursiveRemoteDelete reads a directory; its entries are taken as they are
\* then.  (The code visits entries in name order; here in any order.)
WalkDirs(r) ==
    /\ At(r, "walk")
    /\ \E d \in req[r].dirs :
         req' = [req EXCEPT ![r].dirs = (@ \ {d}) \cup ReadDirs(tree, d),
                            ![r].objs = @ \cup ReadFiles(tree, d)]
    /\ UNCHANGED store

WalkObjs(r) ==
    /\ At(r, "walk")
    /\ \E n \in req[r].objs :
         /\ RemoteDelete(n)
         /\ req' = [req EXCEPT ![r].objs = @ \ {n}]
    /\ UNCHANGED <<tree, placeholders, nextName, aside>>

WalkEndsDone(r) ==
    /\ At(r, "walk") /\ req[r].dirs = {} /\ req[r].objs = {}
    /\ Removed(r)
    /\ UNCHANGED store

WalkEnds(r) ==
    /\ At(r, "walk") /\ req[r].dirs = {} /\ req[r].objs = {}
    /\ Goto(r, "drop")
    /\ UNCHANGED store

\* meta.RemoveAll
DropMeta(r) ==
    /\ At(r, "drop")
    /\ tree' = RemoveAll(tree, Target(r))
    /\ Removed(r)
    /\ UNCHANGED <<objs, placeholders, nextName, aside>>

-----------------------------------------------------------------------------
(* MOVE: Proxy.RenameFile *)

\* LocalStorage.Rename has failed: a placeholder is moved in its place, and the
\* MOVE is answered.
RenameFails(r) ==
    /\ placeholders' = IF req[r].path \in placeholders
                       THEN (placeholders \ {req[r].path}) \cup {req[r].to}
                       ELSE placeholders
    /\ Finish(r)

\* What a rename leaves alone; it may strand what a DELETE is at work on.
RenameFrame == UNCHANGED <<usage, objs, nextName>> /\ Strands

\* Stat of the source, MkdirAll for the destination and os.Rename.  A JSON file
\* has still its name to be updated.  (Another request between them can make
\* os.Rename fail: that is RenameRefused.)
RenameEntry(r) ==
    /\ At(r, "rename")
    /\ LET src == req[r].path  dst == req[r].to
       IN \/ /\ HasJson(tree, src)
             /\ tree' = RenameFile(tree, src, dst)
             /\ Goto(r, "name") /\ UNCHANGED placeholders
          \/ /\ ~HasJson(tree, src) /\ src \in tree.dirs /\ Movable(tree, src, dst)
             /\ tree' = RenameDir(tree, src, dst)
             /\ Finish(r) /\ UNCHANGED placeholders
          \/ /\ ~CanRename(tree, src)
             /\ RenameFails(r) /\ UNCHANGED tree
    /\ UNCHANGED copied
    /\ RenameFrame

\* os.Rename fails, and the rename falls back to copying.
RenameRefused(r) ==
    /\ At(r, "rename") /\ CanRename(tree, req[r].path)
    /\ LET src == req[r].path  dst == req[r].to
       IN /\ \/ "disk" \in Faults
             \/ ~HasJson(tree, src) /\ ~Movable(tree, src, dst)
          /\ tree' = MakeParents(tree, dst)
          /\ Goto(r, IF HasJson(tree, src) THEN "copyfile" ELSE "copydir")
    /\ UNCHANGED <<placeholders, copied>>
    /\ RenameFrame

\* copyFile of the JSON file.
CopyFile(r) ==
    /\ At(r, "copyfile")
    /\ LET src == req[r].path  dst == req[r].to
       IN \/ /\ HasJson(tree, src) /\ HasDir(tree, Front(dst))
             /\ tree' = SaveFile(tree, dst, tree.files[src])
             /\ copied' = copied \cup {tree.files[src]}
             /\ req' = [req EXCEPT ![r].pc = "name", ![r].copying = TRUE]
             /\ UNCHANGED placeholders
          \/ /\ "disk" \in Faults \/ ~HasJson(tree, src) \/ ~HasDir(tree, Front(dst))
             /\ RenameFails(r)
             /\ UNCHANGED <<tree, copied>>
    /\ RenameFrame

\* copyDir of a directory: all of it, or a part and an error.  Into itself it
\* never comes to an end but by an error, when the paths get too long.
CopyDir(r) ==
    /\ At(r, "copydir")
    /\ LET src == req[r].path  dst == req[r].to
       IN \/ \E S \in Parts(tree, src, dst) :
               /\ src \in tree.dirs
               /\ tree' = CopyTree(tree, src, dst, S)
               /\ copied' = copied \cup {tree.files[f] : f \in S \cap DOMAIN tree.files}
               /\ \/ /\ S = Below(tree, src, dst) /\ ~Under(src, dst)
                     /\ Goto(r, "remove") /\ UNCHANGED placeholders
                  \/ /\ Under(src, dst) \/ "disk" \in Faults
                     /\ RenameFails(r)
          \/ /\ src \notin tree.dirs
             /\ RenameFails(r)
             /\ UNCHANGED <<tree, copied>>
    /\ RenameFrame

\* updateMetadataName is over: a rename is answered, and fails if that has; one
\* that copies logs the error and goes on to remove the source.
Renamed(r) ==
    /\ IF req[r].copying THEN Goto(r, "remove") ELSE Finish(r)
    /\ UNCHANGED placeholders
NotRenamed(r) ==
    \/ req[r].copying /\ Goto(r, "remove") /\ UNCHANGED placeholders
    \/ ~req[r].copying /\ RenameFails(r)

\* It reads the JSON file at the destination,
ReadName(r) ==
    /\ At(r, "name")
    /\ \/ /\ HasJson(tree, req[r].to)
          /\ req' = [req EXCEPT ![r].pc = "rewrite", ![r].name = tree.files[req[r].to]]
          /\ UNCHANGED placeholders
       \/ /\ ~HasJson(tree, req[r].to) \/ "disk" \in Faults
          /\ NotRenamed(r)
    /\ UNCHANGED <<tree, copied>>
    /\ RenameFrame

\* and writes what it has read back with the new name, wherever the file has
\* gone meanwhile.
WriteName(r) ==
    /\ At(r, "rewrite")
    /\ LET dst == req[r].to  name == req[r].name
       IN \/ /\ HasDir(tree, Front(dst))
             /\ tree' = SaveFile(tree, dst, name)
             /\ copied' = IF HasJson(tree, dst) /\ tree.files[dst] = name
                          THEN copied ELSE copied \cup {name}
             /\ Renamed(r)
          \/ /\ ~HasDir(tree, Front(dst)) \/ "disk" \in Faults
             /\ NotRenamed(r)
             /\ UNCHANGED <<tree, copied>>
    /\ RenameFrame

\* The source of a copy is removed by RemoveAll, whose error is only logged.
RemoveSource(r) ==
    /\ At(r, "remove")
    /\ \/ tree' = RemoveAll(tree, req[r].path)
       \/ "disk" \in Faults /\ UNCHANGED tree
    /\ Finish(r)
    /\ UNCHANGED <<placeholders, copied>>
    /\ RenameFrame

-----------------------------------------------------------------------------
\* The server stops and is started again: requests, locks and placeholders
\* are gone, metadata and remote objects stay.
Restart ==
    /\ "crash" \in Faults
    /\ \E r \in Procs : req[r].pc # "idle"
    /\ req' = [r \in Procs |-> Idle] /\ placeholders' = {}
    /\ UNCHANGED <<usage, tree, objs, nextName, copied>>
    /\ Strands

Renaming(r) ==
    \/ RenameEntry(r) \/ RenameRefused(r) \/ CopyFile(r) \/ CopyDir(r)
    \/ ReadName(r) \/ WriteName(r) \/ RemoveSource(r)

Proceed(r) ==
    \/ Stored(r) \/ StoreFails(r) \/ SaveMeta(r)
    \/ GetFile(r) \/ GetDir(r) \/ GetNothing(r) \/ DeleteFile(r)
    \/ WalkDirs(r) \/ WalkObjs(r) \/ WalkEnds(r) \/ DropMeta(r) \/ Renaming(r)

Arrive(r) ==
    \/ \E p \in FilePaths : Put(r, p) \/ PutEmpty(r, p)
    \/ \E p \in DirPaths : Mkdir(r, p)
    \/ \E p \in Paths : Delete(r, p)
    \/ \E p, q \in Paths : MoveTo(r, p, q)

Next == \/ \E r \in Procs : Proceed(r) \/ Arrive(r)
        \/ \E p \in Paths : Expire(p)
        \/ Restart

Spec == Init /\ [][Next]_vars

\* Clients that tell files from directories by the name: no name that ends the
\* path of a file is used for a directory.
FileNames == {Last(p) : p \in FilePaths}
FilePath(p) ==
    /\ p # Root /\ p[Len(p)] \in FileNames
    /\ \A i \in 1..(Len(p) - 1) : p[i] \notin FileNames
DirPath(p) == \A i \in 1..Len(p) : p[i] \notin FileNames
KindsByName ==
    /\ \A p \in FilePaths : FilePath(p)
    /\ \A u \in Usages : \A p \in u.dirs : DirPath(p)

-----------------------------------------------------------------------------
InFlight(r) == req[r].pc \in {"upload", "save"}

\* A remote object has one owner, whatever uploads, renames and deletions
\* overlap: two paths share a remote name, and deleting one takes the other
\* one's content, only where a rename that could not use os.Rename has copied the
\* metadata (MOVE of a directory into itself, a copy or a removal that fails, a
\* restart between them) or has written it back after it was moved away.
\* An upload under way shares its object with no path and no other upload.
UniqueOwner ==
    /\ \A f, g \in DOMAIN tree.files :
          tree.files[f] = tree.files[g] => f = g \/ tree.files[f] \in copied
    /\ \A r \in Procs : InFlight(r) =>
         /\ \A f \in DOMAIN tree.files : tree.files[f] # req[r].name
         /\ \A s \in Procs : InFlight(s) /\ req[s].name = req[r].name => s = r

\* Metadata whose remote object is gone exists only where a DELETE is still
\* at work, or if a MOVE or a restart has come between its steps
\* (Proxy.RemoveAll deletes objects first), or if a rename had copied or written
\* it back.  No other request leaves a path behind that cannot be read,
\* overlapping or not, where no path is used for a file and for a directory
\* (KindsByName; else DELETE takes the objects of what the directory holds and
\* then the JSON file of the same name, and leaves the directory).
DanglingIsExplained ==
    \A f \in DOMAIN tree.files :
        tree.files[f] \notin objs =>
            \/ tree.files[f] \in stranded \cup copied
            \/ \E r \in Procs : Removing(r) /\ Under(Target(r), f)

\* Metadata disappears from a path only when that path, or a directory above
\* it, is being deleted, overwritten by a MOVE, or moved away.
AskedFor(f) == \E r \in Procs :
    \/ At(r, "drop") /\ Under(Target(r), f)
    \/ (At(r, "rename") \/ At(r, "remove")) /\ Under(req[r].path, f)
RemovalsAreAskedFor ==
    [][\A f \in DOMAIN tree.files \ DOMAIN tree'.files : AskedFor(f)]_vars

\* Requests that come one at a time keep to that, restarts between them or not.
RemovesInTurn ==
    [][serial => \A f \in DOMAIN tree.files \ DOMAIN tree'.files : AskedFor(f)]_vars

\* The moment a PUT is answered, its path shows the new content: no
\* placeholder in front of it, and the object is there.
AckedPutVisible ==
    [][\A r \in Procs : At(r, "save") /\ tree' # tree /\ req'[r].pc = "idle" =>
          /\ req[r].path \notin placeholders'
          /\ tree'.files[req[r].path] = req[r].name
          /\ req[r].name \in objs']_vars
=============================================================================
