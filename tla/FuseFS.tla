------------------------------- MODULE FuseFS -------------------------------
(***************************************************************************)
(* Write handles of the FUSE mount (internal/fuse/fs.go): create or open,  *)
(* first write starting a streaming upload, release waiting for it, and    *)
(* renames that arrive while a handle is open and are put off until then.  *)
(*                                                                         *)
(* Content is named by the handle that wrote it: meta[p] is the number of  *)
(* that handle, 0 for no metadata.  The kernel looks a name up (Getattr)   *)
(* before it sends an operation on it, releases a handle after the last    *)
(* write to it, and lets one request at a time create, unlink or rename    *)
(* names of a directory; opening a file is not among these.  The upload of *)
(* a handle goes to h.path, which never changes: h.uploadPath is h.path    *)
(* once the upload has been started.                                       *)
(***************************************************************************)
EXTENDS Integers

CONSTANTS Paths,      \* names in the mounted directory
          TempPaths,  \* names with ".~#": placeholder candidates
          MaxFH,      \* bound: write handles opened in a behaviour
          MaxShared,  \* the same bound, for applications that share names
          Requests,   \* bound: Create, Open and Unlink at the same time
          NoPath,     \* h.renameTo = ""
          Usages,     \* FALSE: names are used in any way; TRUE: a name is
                      \* written through one handle at a time and meanwhile
                      \* only renamed, once
          Faults      \* "remote": uploads and deletions may fail

ASSUME PathAssumption == TempPaths \subseteq Paths /\ NoPath \notin Paths
ASSUME BoundAssumption == MaxFH \in Nat /\ MaxShared \in 0..MaxFH /\ Usages \subseteq BOOLEAN
ASSUME FaultAssumption == Faults \subseteq {"remote"}

FHs == 1..MaxFH

VARIABLES exclusive,     \* how the applications use names, a member of Usages
          meta,          \* metadata of each name
          placeholders,  \* pendingCache of the mount process
          nextFH,
          handle,        \* the write handles, also after their release
          removal,       \* Create, Open and Unlink in Proxy.RemoveAll
          deleted        \* contents whose remote object is deleted

removals == <<removal, deleted>>
vars == <<exclusive, meta, placeholders, nextFH, handle, removals>>

\* st: "open" while in fs.writers; then Release is "closing" (waits for the
\* upload), "emptying" (uploads an empty file) or "renaming", then "closed".
Handle == [st       : {"free", "open", "closing", "emptying", "renaming", "closed"},
           path     : Paths \cup {NoPath},
           renameTo : Paths \cup {NoPath},
           started  : BOOLEAN,
           upload   : {"none", "running", "ok", "err"},
           res      : {"none", "ok", "err"}]
Free == [st |-> "free", path |-> NoPath, renameTo |-> NoPath, started |-> FALSE,
         upload |-> "none", res |-> "none"]

\* at: "get" before RemoveAll has read the metadata, which names the content
\* found; then "delete" (its object), "remove" (the metadata) and "answer".
Removal == [op    : {"none", "create", "open", "unlink"},
            path  : Paths \cup {NoPath},
            at    : {"idle", "get", "delete", "remove", "answer"},
            found : FHs \cup {0}]
Idle == [op |-> "none", path |-> NoPath, at |-> "idle", found |-> 0]

TypeOK ==
    /\ exclusive \in Usages
    /\ meta \in [Paths -> FHs \cup {0}]
    /\ placeholders \subseteq Paths
    /\ nextFH \in 1..(MaxFH + 1)
    /\ handle \in [FHs -> Handle]
    /\ \A h \in FHs : handle[h].st = "free" <=> h >= nextFH
    /\ removal \in [Requests -> Removal] /\ deleted \subseteq FHs

Init ==
    /\ exclusive \in Usages
    /\ meta = [p \in Paths |-> 0] /\ placeholders = {} /\ nextFH = 1
    /\ handle = [h \in FHs |-> Free]
    /\ removal = [r \in Requests |-> Idle] /\ deleted = {}

-----------------------------------------------------------------------------
InWriters(h) == handle[h].st = "open"

\* pendingSize: a handle being written answers for its path and for the name
\* it will be renamed to.
Pending(p) == \E h \in FHs : InWriters(h) /\ p \in {handle[h].path, handle[h].renameTo}

\* Getattr and Access
Visible(p) == meta[p] # 0 \/ Pending(p) \/ p \in placeholders

\* Applications that leave a name alone while it is being opened, written or
\* removed, but for renaming it once.
Active(h) == handle[h].st \notin {"free", "closed"}
On(h, p) == Active(h) /\ p \in {handle[h].path, handle[h].renameTo}
UnderWay(r) == removal[r].at # "idle"
Removing(p) == \E r \in Requests : UnderWay(r) /\ removal[r].path = p
Undisturbed(p) == exclusive => ~Removing(p) /\ \A h \in FHs : ~On(h, p)
NotYetRenamed(p) ==
    exclusive => ~Removing(p) /\ \A h \in FHs : On(h, p) => handle[h].renameTo = NoPath

\* The directory is free for a Create, Unlink or Rename.
DirectoryFree == \A r \in Requests : removal[r].op \notin {"create", "unlink"}

-----------------------------------------------------------------------------
(* Create, Open and Unlink, all by Proxy.RemoveAll *)

Begin(r, op, p) ==
    /\ ~UnderWay(r) /\ Undisturbed(p)
    /\ removal' = [removal EXCEPT ![r] = [Idle EXCEPT !.op = op, !.path = p, !.at = "get"]]
    /\ UNCHANGED <<meta, placeholders, nextFH, handle, deleted>>

Create(r, p) == ~Visible(p) /\ DirectoryFree /\ Begin(r, "create", p)

\* Open for writing: O_TRUNC of a file, or a placeholder.  A name known only
\* from an open handle gets no write handle.
OpenWrite(r, p) ==
    /\ meta[p] # 0 \/ (~Pending(p) /\ p \in placeholders)
    /\ Begin(r, "open", p)

\* Unlink, also Rmdir.
Unlink(r, p) == Visible(p) /\ DirectoryFree /\ Begin(r, "unlink", p)

\* RemoveAll is through, and whatever it answered Create and Open go on.
Removed(r) == IF removal[r].op = "unlink" THEN Idle
              ELSE [removal[r] EXCEPT !.at = "answer", !.found = 0]

\* Without metadata only a placeholder is taken away.
Get(r) ==
    LET p == removal[r].path
    IN  /\ removal[r].at = "get"
        /\ removal' = [removal EXCEPT ![r] =
                          IF meta[p] = 0 THEN Removed(r)
                          ELSE [@ EXCEPT !.at = "delete", !.found = meta[p]]]
        /\ placeholders' = IF meta[p] = 0 THEN placeholders \ {p} ELSE placeholders
        /\ UNCHANGED <<meta, nextFH, handle, deleted>>

\* remote.Delete; a failure is only logged.
DeleteObject(r) ==
    /\ removal[r].at = "delete"
    /\ \/ deleted' = deleted \cup {removal[r].found}
       \/ "remote" \in Faults /\ UNCHANGED deleted
    /\ removal' = [removal EXCEPT ![r].at = "remove"]
    /\ UNCHANGED <<meta, placeholders, nextFH, handle>>

\* meta.RemoveAll: what is under the name now; if nothing is, everything.
MetaRemoved(p) ==
    IF meta[p] = 0 THEN [q \in Paths |-> 0] ELSE [meta EXCEPT ![p] = 0]
RemoveMeta(r) ==
    /\ removal[r].at = "remove"
    /\ meta' = MetaRemoved(removal[r].path)
    /\ removal' = [removal EXCEPT ![r] = Removed(r)]
    /\ UNCHANGED <<placeholders, nextFH, handle, deleted>>

\* newWriteHandle
MayOpen == nextFH <= IF exclusive THEN MaxFH ELSE MaxShared
NewWriteHandleSameNumber(p) ==
    /\ MayOpen /\ UNCHANGED nextFH
    /\ handle' = [handle EXCEPT ![nextFH] = [Free EXCEPT !.st = "open", !.path = p]]
NewWriteHandle(p) ==
    /\ MayOpen
    /\ nextFH' = nextFH + 1
    /\ handle' = [handle EXCEPT ![nextFH] = [Free EXCEPT !.st = "open", !.path = p]]

Answer(r) ==
    /\ removal[r].at = "answer"
    /\ NewWriteHandle(removal[r].path)
    /\ removal' = [removal EXCEPT ![r] = Idle]
    /\ UNCHANGED <<meta, placeholders, deleted>>

-----------------------------------------------------------------------------
(* Write *)

\* The first Write starts Proxy.UploadFile, which takes the placeholder away
\* before it reads what is being written.
WriteRemoves(h) ==
    /\ InWriters(h) /\ ~handle[h].started
    /\ handle' = [handle EXCEPT ![h].started = TRUE, ![h].upload = "running"]
    /\ meta' = [meta EXCEPT ![handle[h].path] = 0]
    /\ UNCHANGED <<placeholders, nextFH, removals>>
Write(h) ==
    /\ InWriters(h) /\ ~handle[h].started
    /\ handle' = [handle EXCEPT ![h].started = TRUE, ![h].upload = "running"]
    /\ placeholders' = placeholders \ {handle[h].path}
    /\ UNCHANGED <<meta, nextFH, removals>>

\* The upload goroutine ends: with an error at any time, with success after
\* the write end was closed.
Upload(h, committed) ==
    /\ handle[h].upload = "running"
    /\ handle' = [handle EXCEPT ![h].upload = IF committed THEN "ok" ELSE "err"]
    /\ meta' = IF committed THEN [meta EXCEPT ![handle[h].path] = h] ELSE meta
    /\ UNCHANGED <<placeholders, nextFH, removals>>
UploadEnds(h) == handle[h].st \in {"closing", "emptying"} /\ Upload(h, TRUE)
UploadFails(h) == "remote" \in Faults /\ Upload(h, FALSE)

-----------------------------------------------------------------------------
(* Release *)

\* What Release does first: the handle leaves fs.writers.
ReleaseStarted(h) ==
    /\ InWriters(h) /\ handle[h].started
    /\ handle' = [handle EXCEPT ![h].st = "closing"]
    /\ UNCHANGED <<meta, placeholders, nextFH, removals>>

\* Nothing was written to a temporary name: only a placeholder, under the
\* name the handle was renamed to.
ReleaseAtOldName(h) ==
    /\ InWriters(h) /\ ~handle[h].started /\ handle[h].path \in TempPaths
    /\ placeholders' = placeholders \cup {handle[h].path}
    /\ handle' = [handle EXCEPT ![h].st = "closed", ![h].res = "ok"]
    /\ UNCHANGED <<meta, nextFH, removals>>
ReleasePlaceholder(h) ==
    /\ InWriters(h) /\ ~handle[h].started /\ handle[h].path \in TempPaths
    /\ placeholders' = placeholders \cup
           {IF handle[h].renameTo = NoPath THEN handle[h].path ELSE handle[h].renameTo}
    /\ handle' = [handle EXCEPT ![h].st = "closed", ![h].res = "ok"]
    /\ UNCHANGED <<meta, nextFH, removals>>

\* Nothing was written to any other name: an empty file is uploaded to the
\* path of the handle; a rename that was put off is not looked at.
ReleaseEmpty(h) ==
    /\ InWriters(h) /\ ~handle[h].started /\ handle[h].path \notin TempPaths
    /\ handle' = [handle EXCEPT ![h].st = "emptying", ![h].upload = "running"]
    /\ placeholders' = placeholders \ {handle[h].path}
    /\ UNCHANGED <<meta, nextFH, removals>>

\* <-h.uploadCh, or the return of UploadFile.
NeedsRename(h) == handle[h].st = "closing" /\ handle[h].renameTo \notin {NoPath, handle[h].path}

ReleaseEndsUnrenamed(h) ==
    /\ handle[h].st \in {"closing", "emptying"} /\ handle[h].upload \in {"ok", "err"}
    /\ handle' = [handle EXCEPT ![h].st = "closed", ![h].res = handle[h].upload]
    /\ UNCHANGED <<meta, placeholders, nextFH, removals>>
ReleaseEnds(h) ==
    /\ handle[h].st \in {"closing", "emptying"} /\ handle[h].upload \in {"ok", "err"}
    /\ handle' = IF handle[h].upload = "ok" /\ NeedsRename(h)
                 THEN [handle EXCEPT ![h].st = "renaming"]
                 ELSE [handle EXCEPT ![h].st = "closed", ![h].res = handle[h].upload]
    /\ UNCHANGED <<meta, placeholders, nextFH, removals>>

\* Proxy.RenameFile: metadata replaces what the new name had, else the
\* placeholder moves, else nothing.
MetaCopied(old, new) == [meta EXCEPT ![new] = meta[old]]
MetaRenamed(old, new) == [meta EXCEPT ![new] = meta[old], ![old] = 0]
RenameWorks(old) == meta[old] # 0 \/ old \in placeholders
RenameFile(old, new) ==
    \/ /\ meta[old] # 0
       /\ meta' = MetaRenamed(old, new) /\ UNCHANGED placeholders
    \/ /\ meta[old] = 0 /\ old \in placeholders
       /\ placeholders' = (placeholders \ {old}) \cup {new} /\ UNCHANGED meta
    \/ ~RenameWorks(old) /\ UNCHANGED <<meta, placeholders>>

\* The rename that was put off, from uploadPath to renameTo.
ReleaseRenames(h) ==
    /\ handle[h].st = "renaming"
    /\ RenameFile(handle[h].path, handle[h].renameTo)
    /\ handle' = [handle EXCEPT ![h].st = "closed",
                     ![h].res = IF RenameWorks(handle[h].path) THEN "ok" ELSE "err"]
    /\ UNCHANGED <<nextFH, removals>>

-----------------------------------------------------------------------------
\* Rename while a handle is open on the old name: noted in the handle (in any
\* of them, the map is visited in random order) and reported as done.
DeferRename(old, new) ==
    /\ old # new /\ Visible(old) /\ DirectoryFree
    /\ NotYetRenamed(old) /\ Undisturbed(new)
    /\ \E h \in FHs :
         /\ InWriters(h) /\ handle[h].path = old
         /\ handle' = [handle EXCEPT ![h].renameTo = new]
    /\ UNCHANGED <<meta, placeholders, nextFH, removals>>

RenameNow(old, new) ==
    /\ old # new /\ Visible(old) /\ DirectoryFree
    /\ ~ \E h \in FHs : InWriters(h) /\ handle[h].path = old
    /\ NotYetRenamed(old) /\ Undisturbed(new)
    /\ RenameFile(old, new)
    /\ UNCHANGED <<nextFH, handle, removals>>

\* Truncate of a name to zero, without a handle: an empty file is uploaded.
\* The request counts as a handle that never was in fs.writers.
Truncate(p) ==
    /\ Visible(p) /\ Undisturbed(p) /\ MayOpen
    /\ nextFH' = nextFH + 1
    /\ handle' = [handle EXCEPT ![nextFH] =
                     [Free EXCEPT !.st = "emptying", !.path = p, !.upload = "running"]]
    /\ placeholders' = placeholders \ {p}
    /\ UNCHANGED <<meta, removals>>

Expire(p) ==
    /\ p \in placeholders
    /\ placeholders' = placeholders \ {p}
    /\ UNCHANGED <<meta, nextFH, handle, removals>>

Background(h) ==
    \/ UploadEnds(h) \/ UploadFails(h) \/ ReleaseEnds(h) \/ ReleaseRenames(h)

Remove(r) == Get(r) \/ DeleteObject(r) \/ RemoveMeta(r) \/ Answer(r)

Next ==
    /\ \/ \E r \in Requests, p \in Paths : Create(r, p) \/ OpenWrite(r, p) \/ Unlink(r, p)
       \/ \E r \in Requests : Remove(r)
       \/ \E p \in Paths : Truncate(p) \/ Expire(p)
       \/ \E p, q \in Paths : DeferRename(p, q) \/ RenameNow(p, q)
       \/ \E h \in FHs : Write(h) \/ ReleaseStarted(h) \/ ReleasePlaceholder(h)
                           \/ ReleaseEmpty(h) \/ Background(h)
    /\ UNCHANGED exclusive

Spec == Init /\ [][Next]_vars

-----------------------------------------------------------------------------
\* What one handle wrote is under one name at most: a temporary name does not
\* stay behind next to the final one.
OnePlace == \A p, q \in Paths : meta[p] = meta[q] /\ meta[p] # 0 => p = q

\* A rename that was put off arrives as Release reports success: what was
\* written is under the final name and no longer under the temporary one, when
\* names are not shared; a temporary file that was never written is a
\* placeholder under its new name.
WrittenArrives(h) ==
    exclusive /\ handle[h].started
        => /\ meta'[handle[h].renameTo] = h
           /\ \A p \in Paths : meta'[p] = h => p = handle[h].renameTo
UnwrittenArrives(h) ==
    ~handle[h].started /\ handle[h].path \in TempPaths
        => handle[h].renameTo \in placeholders'
RenameArrives ==
    [][\A h \in FHs :
          handle[h].res = "none" /\ handle'[h].res = "ok" /\ handle[h].renameTo # NoPath
          => WrittenArrives(h) /\ UnwrittenArrives(h)]_vars

\* Stored content, its metadata or its object, is lost in four ways only.  A
\* Create, Open or Unlink that found it under its name removes it, or one that
\* was removing that name as it came there; another content is renamed over
\* it; a later upload is saved under its name; or, but only where applications
\* share names, the metadata a RemoveAll was about to remove has vanished and
\* it empties the whole mount instead.
Stored(c) == c \notin deleted /\ \E p \in Paths : meta[p] = c
RemovedBy(r, c) ==
    /\ removal'[r] # removal[r] /\ removal[r].at \in {"delete", "remove"}
    /\ LET there == meta[removal[r].path]
       IN  \/ c \in {removal[r].found, there}
           \/ ~exclusive /\ there = 0
RenamedOver(p) == meta'[p] # 0 /\ \E q \in Paths : meta'[q] = 0 /\ meta[q] = meta'[p]
SavedOver(p) == \E h \in FHs : handle[h].path = p /\ meta'[p] = h
LossIsAskedFor ==
    [][\A c \in FHs : Stored(c) /\ ~Stored(c)' =>
          \/ \E r \in Requests : RemovedBy(r, c)
          \/ \E p \in Paths : meta[p] = c /\ (RenamedOver(p) \/ SavedOver(p))]_vars
=============================================================================
