---------------------------- MODULE FuseFSProofs ----------------------------
(***************************************************************************)
(* For any names, handles and orders of requests: what a handle wrote is   *)
(* in one place, is lost to requests only, and gets where it was renamed   *)
(* to while it was being written.                                          *)
(***************************************************************************)
EXTENDS FuseFS, TLAPS

\* What can be said of a handle on its own.
Good(q) ==
    /\ q \in Handle
    /\ q.st = "free" => q = Free
    /\ q.st # "free" => q.path \in Paths
    /\ q.renameTo # NoPath => q.renameTo # q.path
    /\ q.st = "open" => q.upload # "ok" /\ (~q.started => q.upload = "none")
    /\ q.st \in {"closing", "renaming"} => q.started
    /\ q.st = "renaming" => q.upload = "ok" /\ q.renameTo # NoPath
    /\ q.st = "emptying" => ~q.started /\ (q.path \in TempPaths => q.renameTo = NoPath)
    /\ q.res # "none" => q.st = "closed"
    /\ q.st = "closed" => q.upload # "running"

Handles == \A h \in FHs : Good(handle[h])

\* Content belongs to a handle whose upload has succeeded.
Written == \A p \in Paths : meta[p] # 0 => handle[meta[p]].upload = "ok"

\* A removal that is under way has a name, and deletes what it has found.
Removals ==
    \A r \in Requests : UnderWay(r) => /\ removal[r].path \in Paths
                                      /\ (removal[r].at = "delete" => removal[r].found # 0)

\* Names that are not shared: each belongs to one active handle or one removal,
\* what a removal has found is there until it removes it, and what a renamed
\* handle has written stays where Release looks for it.
Separate ==
    \A g, h \in FHs, p \in Paths :
        g # h /\ Active(g) /\ Active(h) => ~(On(g, p) /\ On(h, p))
Alone ==
    \A r \in Requests : UnderWay(r) =>
        /\ \A h \in FHs : ~On(h, removal[r].path)
        /\ \A s \in Requests \ {r} : UnderWay(s) => removal[s].path # removal[r].path
Found == \A r \in Requests : removal[r].at \in {"delete", "remove"} => meta[removal[r].path] # 0
Waits(h) == /\ handle[h].st \in {"closing", "renaming"} /\ handle[h].upload = "ok"
            /\ handle[h].renameTo # NoPath
Stays == \A h \in FHs : Waits(h) => meta[handle[h].path] = h
XInv == exclusive => Separate /\ Alone /\ Found /\ Stays

FInv == TypeOK /\ Handles /\ Removals /\ Written /\ OnePlace /\ XInv

-----------------------------------------------------------------------------
\* The changes that are made to a handle.
Opened(p) == [Free EXCEPT !.st = "open", !.path = p]
Truncated(p) == [Free EXCEPT !.st = "emptying", !.path = p, !.upload = "running"]
Started(q) == [q EXCEPT !.started = TRUE, !.upload = "running"]
Uploaded(q, u) == [q EXCEPT !.upload = u]
Closing(q) == [q EXCEPT !.st = "closing"]
Emptying(q) == [q EXCEPT !.st = "emptying", !.upload = "running"]
Renaming(q) == [q EXCEPT !.st = "renaming"]
Closed(q, r) == [q EXCEPT !.st = "closed", !.res = r]
Named(q, n) == [q EXCEPT !.renameTo = n]

\* A new handle ...
Fresh(q) ==
    /\ Good(q) /\ q.st \in {"open", "emptying"} /\ q.renameTo = NoPath
    /\ q.res = "none" /\ q.upload # "ok"

\* ... and one that goes on.
GoesOn(o, q) ==
    /\ Good(q) /\ o.st \notin {"free", "closed"} /\ q.st # "free" /\ q.path = o.path
    /\ o.upload = "ok" => q.upload = "ok"
    /\ o.st = "emptying" => q.st \in {"emptying", "closed"}

\* newWriteHandle, and the request of a Truncate.
LEMMA FreshHandles ==
    ASSUME NEW p \in Paths
    PROVE  Fresh(Opened(p)) /\ Opened(p).path = p /\ Fresh(Truncated(p)) /\ Truncated(p).path = p
BY PathAssumption DEF Fresh, Good, Opened, Truncated, Free, Handle

\* The first Write of a handle.
LEMMA StartedHandle ==
    ASSUME NEW q, Good(q), q.st = "open", ~q.started
    PROVE  GoesOn(q, Started(q)) /\ Started(q).renameTo = q.renameTo /\ Started(q).res = q.res
BY DEF GoesOn, Good, Started, Handle, Free

\* The end of an upload; it succeeds only after Release closed its input.
LEMMA UploadedHandle ==
    ASSUME NEW q, Good(q), q.upload = "running", NEW u \in {"ok", "err"},
           u = "ok" => q.st \in {"closing", "emptying"}
    PROVE  /\ GoesOn(q, Uploaded(q, u)) /\ Uploaded(q, u).upload = u /\ Uploaded(q, u).st = q.st
           /\ Uploaded(q, u).renameTo = q.renameTo /\ Uploaded(q, u).res = q.res
BY DEF GoesOn, Good, Uploaded, Handle, Free

\* Release of a handle that was, or was not, written.
LEMMA ReleasedHandle ==
    ASSUME NEW q, Good(q), q.st = "open"
    PROVE  /\ q.started => GoesOn(q, Closing(q))
           /\ ~q.started /\ q.path \notin TempPaths => GoesOn(q, Emptying(q))
           /\ Closing(q).renameTo = q.renameTo /\ Closing(q).res = q.res
           /\ Emptying(q).renameTo = q.renameTo /\ Emptying(q).res = q.res
BY DEF GoesOn, Good, Closing, Emptying, Handle, Free

\* Release answers.
LEMMA EndedHandle ==
    ASSUME NEW q, Good(q), q.st \notin {"free", "closed"}, q.upload # "running",
           NEW r \in {"ok", "err"}
    PROVE  /\ GoesOn(q, Closed(q, r)) /\ Closed(q, r).renameTo = q.renameTo
           /\ Closed(q, r).st = "closed" /\ Closed(q, r).res = r
BY DEF GoesOn, Good, Closed, Handle, Free

\* Release goes on to the rename that was put off.
LEMMA RenamingHandle ==
    ASSUME NEW q, Good(q), q.st = "closing", q.upload = "ok", q.renameTo # NoPath
    PROVE  /\ GoesOn(q, Renaming(q)) /\ Renaming(q).renameTo = q.renameTo
           /\ Renaming(q).res = q.res /\ Renaming(q).st = "renaming"
BY DEF GoesOn, Good, Renaming, Handle, Free

\* A rename is noted in an open handle.
LEMMA NamedHandle ==
    ASSUME NEW q, Good(q), q.st = "open", NEW n \in Paths, n # q.path
    PROVE  /\ GoesOn(q, Named(q, n)) /\ Named(q, n).renameTo = n
           /\ Named(q, n).res = q.res /\ Named(q, n).st = "open"
BY DEF GoesOn, Good, Named, Handle, Free

-----------------------------------------------------------------------------
\* A step changes no handle, gives a new one away, or changes one.
NobodyOn(p) ==
    exclusive => /\ \A h \in FHs : ~On(h, p)
                 /\ \A r \in Requests : UnderWay(r)' => removal'[r].path # p
Same == UNCHANGED <<nextFH, handle>>
New(q) ==
    /\ nextFH \in FHs /\ nextFH' = nextFH + 1
    /\ Fresh(q) /\ NobodyOn(q.path)
    /\ handle' = [handle EXCEPT ![nextFH] = q]
Change(h, q) ==
    /\ nextFH' = nextFH
    /\ GoesOn(handle[h], q)
    /\ \/ q.renameTo = handle[h].renameTo
       \/ q.renameTo \in Paths /\ NobodyOn(q.renameTo) /\ q.st = "open"
    /\ handle' = [handle EXCEPT ![h] = q]

HandleStep ==
    \/ Same
    \/ \E q : New(q)
    \/ \E h \in FHs : \E q : Change(h, q)

\* A new handle has a number that nobody has had.
LEMMA MayOpenBound ==
    ASSUME TypeOK, MayOpen
    PROVE  nextFH \in FHs
<1>1. nextFH \in 1..(MaxFH + 1) /\ (nextFH <= MaxFH \/ nextFH <= MaxShared)
  BY DEF TypeOK, MayOpen
<1>2. MaxFH \in Nat /\ MaxShared \in Nat /\ MaxShared <= MaxFH
  BY BoundAssumption
<1> QED
  BY <1>1, <1>2 DEF FHs

\* A Truncate counts as a new handle.
LEMMA ArrivingSteps ==
    ASSUME FInv, NEW p \in Paths, Truncate(p) \/ Expire(p)
    PROVE  HandleStep
<1>1. CASE Truncate(p)
  <2>1. New(Truncated(p))
    <3>0. nextFH \in FHs
      BY <1>1, MayOpenBound DEF FInv, Truncate
    <3>1. nextFH' = nextFH + 1 /\ handle' = [handle EXCEPT ![nextFH] = Truncated(p)]
      BY <1>1 DEF Truncate, Truncated
    <3>2. NobodyOn(p)
      BY <1>1 DEF Truncate, Undisturbed, NobodyOn, Removing, removals, UnderWay
    <3>3. Fresh(Truncated(p)) /\ Truncated(p).path = p
      BY FreshHandles
    <3> QED
      BY <3>0, <3>1, <3>2, <3>3 DEF New
  <2> QED
    BY <2>1 DEF HandleStep
<1> QED
  BY <1>1 DEF HandleStep, Same, Expire

\* Create, Open and Unlink, from their start to their answer.
LEMMA RemovalSteps ==
    ASSUME FInv, NEW r \in Requests,
           Remove(r) \/ \E p \in Paths : Create(r, p) \/ OpenWrite(r, p) \/ Unlink(r, p)
    PROVE  HandleStep
<1>1. CASE Answer(r)
  <2> DEFINE p == removal[r].path
  <2>1. p \in Paths /\ NobodyOn(p)
    <3>1. /\ UnderWay(r) /\ removal \in [Requests -> Removal]
          /\ removal' = [removal EXCEPT ![r] = Idle]
      BY <1>1 DEF Answer, UnderWay, FInv, TypeOK
    <3>2. p \in Paths
      BY <3>1 DEF FInv, Removals
    <3>3. ~UnderWay(r)' /\ \A s \in Requests \ {r} : removal'[s] = removal[s]
      BY <3>1 DEF UnderWay, Idle
    <3> QED
      BY <3>1, <3>2, <3>3 DEF FInv, XInv, Alone, NobodyOn, UnderWay
  <2>2. New(Opened(p))
    <3>1. /\ nextFH \in FHs /\ nextFH' = nextFH + 1
          /\ handle' = [handle EXCEPT ![nextFH] = Opened(p)]
      BY <1>1, MayOpenBound DEF FInv, Answer, NewWriteHandle, Opened
    <3> HIDE DEF p
    <3> QED
      BY <2>1, <3>1, FreshHandles DEF New
  <2> QED
    BY <2>2 DEF HandleStep
<1> QED
  BY <1>1 DEF HandleStep, Same, Remove, Get, DeleteObject, RemoveMeta, Create, OpenWrite,
              Unlink, Begin

\* A rename changes one handle or none.
LEMMA RenameSteps ==
    ASSUME FInv, NEW old \in Paths, NEW new \in Paths,
           DeferRename(old, new) \/ RenameNow(old, new)
    PROVE  HandleStep
<1>1. CASE DeferRename(old, new)
  <2>1. PICK h \in FHs : /\ InWriters(h) /\ handle[h].path = old
                         /\ handle' = [handle EXCEPT ![h].renameTo = new]
    BY <1>1 DEF DeferRename
  <2>2. handle' = [handle EXCEPT ![h] = Named(handle[h], new)]
    BY <2>1 DEF Named
  <2>3. new # old /\ NobodyOn(new) /\ nextFH' = nextFH
    BY <1>1 DEF DeferRename, Undisturbed, NobodyOn, Removing, removals, UnderWay
  <2>4. Change(h, Named(handle[h], new))
    BY <2>1, <2>2, <2>3, NamedHandle DEF Change, InWriters, FInv, Handles
  <2> QED
    BY <2>4 DEF HandleStep
<1> QED
  BY <1>1 DEF RenameNow, HandleStep, Same

\* Write, Release and uploads change their own handle.
LEMMA HandleSteps ==
    ASSUME FInv, NEW h \in FHs,
           Write(h) \/ ReleaseStarted(h) \/ ReleasePlaceholder(h) \/ ReleaseEmpty(h)
             \/ Background(h)
    PROVE  \E q : Change(h, q)
<1> DEFINE o == handle[h]
<1>0. Good(o) /\ handle \in [FHs -> Handle]
  BY DEF FInv, Handles, TypeOK
<1>1. CASE Write(h)
  <2>1. handle' = [handle EXCEPT ![h] = Started(o)]
    BY <1>1 DEF Write, Started
  <2> QED
    BY <1>0, <1>1, <2>1, StartedHandle DEF Write, InWriters, Change
<1>2. CASE ReleaseStarted(h)
  <2>1. handle' = [handle EXCEPT ![h] = Closing(o)]
    BY <1>2 DEF ReleaseStarted, Closing
  <2> QED
    BY <1>0, <1>2, <2>1, ReleasedHandle DEF ReleaseStarted, InWriters, Change
<1>3. CASE ReleaseEmpty(h)
  <2>1. handle' = [handle EXCEPT ![h] = Emptying(o)]
    BY <1>3 DEF ReleaseEmpty, Emptying
  <2> QED
    BY <1>0, <1>3, <2>1, ReleasedHandle DEF ReleaseEmpty, InWriters, Change
<1>4. CASE ReleasePlaceholder(h)
  <2>1. handle' = [handle EXCEPT ![h] = Closed(o, "ok")]
    BY <1>4 DEF ReleasePlaceholder, Closed
  <2>2. o.upload # "running" /\ o.st = "open"
    BY <1>0, <1>4 DEF ReleasePlaceholder, InWriters, Good
  <2> QED
    BY <1>0, <1>4, <2>1, <2>2, EndedHandle DEF ReleasePlaceholder, Change
<1>5. ASSUME NEW c \in BOOLEAN, Upload(h, c), c => o.st \in {"closing", "emptying"}
      PROVE  \E q : Change(h, q)
  <2>1. PICK u \in {"ok", "err"} : /\ handle' = [handle EXCEPT ![h] = Uploaded(o, u)]
                                   /\ u = "ok" => c
    BY <1>5 DEF Upload, Uploaded
  <2>2. o.upload = "running" /\ nextFH' = nextFH
    BY <1>5 DEF Upload
  <2>3. /\ GoesOn(o, Uploaded(o, u))
        /\ Uploaded(o, u).renameTo = o.renameTo
    BY <1>0, <1>5, <2>1, <2>2, UploadedHandle
  <2> QED
    BY <2>1, <2>2, <2>3 DEF Change
<1>6. CASE ReleaseEnds(h)
  <2>1. CASE o.upload = "ok" /\ NeedsRename(h)
    <3>1. handle' = [handle EXCEPT ![h] = Renaming(o)]
      BY <1>6, <2>1 DEF ReleaseEnds, Renaming
    <3> QED
      BY <1>0, <1>6, <2>1, <3>1, RenamingHandle DEF ReleaseEnds, NeedsRename, Change
  <2>2. CASE ~(o.upload = "ok" /\ NeedsRename(h))
    <3>1. handle' = [handle EXCEPT ![h] = Closed(o, o.upload)]
      BY <1>6, <2>2 DEF ReleaseEnds, Closed
    <3>2. o.st \in {"closing", "emptying"} /\ o.upload \in {"ok", "err"} /\ nextFH' = nextFH
      BY <1>6 DEF ReleaseEnds
    <3>3. /\ GoesOn(o, Closed(o, o.upload))
          /\ Closed(o, o.upload).renameTo = o.renameTo
      BY <1>0, <3>2, EndedHandle
    <3> QED
      BY <3>1, <3>2, <3>3 DEF Change
  <2> QED
    BY <2>1, <2>2
<1>7. CASE ReleaseRenames(h)
  <2>1. PICK r \in {"ok", "err"} : handle' = [handle EXCEPT ![h] = Closed(o, r)]
    BY <1>7 DEF ReleaseRenames, Closed
  <2>2. o.upload # "running"
    BY <1>0, <1>7 DEF ReleaseRenames, Good
  <2>3. o.st = "renaming" /\ nextFH' = nextFH
    BY <1>7 DEF ReleaseRenames
  <2> QED
    BY <1>0, <2>1, <2>2, <2>3, EndedHandle DEF Change
<1> QED
  BY <1>1, <1>2, <1>3, <1>4, <1>5, <1>6, <1>7 DEF Background, UploadEnds, UploadFails

\* So every step changes one handle at most.
LEMMA NextHandles ==
    ASSUME FInv, Next
    PROVE  HandleStep
BY ArrivingSteps, RemovalSteps, RenameSteps, HandleSteps DEF Next, HandleStep

\* All handles stay good, and an upload that has succeeded has succeeded.
LEMMA HandlesKept ==
    ASSUME FInv, HandleStep
    PROVE  /\ Handles' /\ handle' \in [FHs -> Handle] /\ nextFH' \in 1..(MaxFH + 1)
           /\ \A h \in FHs : handle'[h].st = "free" <=> h >= nextFH'
           /\ \A h \in FHs : handle[h].upload = "ok" => handle'[h].upload = "ok"
<1>0. /\ handle \in [FHs -> Handle] /\ nextFH \in 1..(MaxFH + 1) /\ MaxFH \in Nat
      /\ \A h \in FHs : handle[h].st = "free" <=> h >= nextFH
      /\ \A h \in FHs : Good(handle[h])
  BY BoundAssumption DEF FInv, TypeOK, Handles
<1>1. CASE Same
  BY <1>0, <1>1 DEF Same, Handles
<1>2. ASSUME NEW q, New(q)
      PROVE  /\ Handles' /\ handle' \in [FHs -> Handle] /\ nextFH' \in 1..(MaxFH + 1)
             /\ \A h \in FHs : handle'[h].st = "free" <=> h >= nextFH'
             /\ \A h \in FHs : handle[h].upload = "ok" => handle'[h].upload = "ok"
  <2>1. handle'[nextFH] = q /\ \A h \in FHs \ {nextFH} : handle'[h] = handle[h]
    BY <1>0, <1>2 DEF New
  <2>2. Good(q) /\ q \in Handle /\ q.st # "free"
    BY <1>2 DEF New, Fresh, Good
  <2>3. handle[nextFH] = Free /\ nextFH' = nextFH + 1 /\ nextFH \in 1..MaxFH
    BY <1>0, <1>2 DEF New, Good, FHs
  <2>4. nextFH' \in 1..(MaxFH + 1) /\ \A h \in FHs : h >= nextFH' <=> h >= nextFH /\ h # nextFH
    BY <1>0, <2>3 DEF FHs
  <2>5. handle' \in [FHs -> Handle]
    BY <1>0, <1>2, <2>2 DEF New
  <2>6. Handles'
    BY <1>0, <2>1, <2>2 DEF Handles
  <2>7. \A h \in FHs : handle'[h].st = "free" <=> h >= nextFH'
    BY <1>0, <2>1, <2>2, <2>4
  <2>8. \A h \in FHs : handle[h].upload = "ok" => handle'[h].upload = "ok"
    <3>1. Free.upload = "none"
      BY DEF Free
    <3> QED
      BY <2>1, <2>3, <3>1
  <2> QED
    BY <2>4, <2>5, <2>6, <2>7, <2>8
<1>3. ASSUME NEW i \in FHs, NEW q, Change(i, q)
      PROVE  /\ Handles' /\ handle' \in [FHs -> Handle] /\ nextFH' \in 1..(MaxFH + 1)
             /\ \A h \in FHs : handle'[h].st = "free" <=> h >= nextFH'
             /\ \A h \in FHs : handle[h].upload = "ok" => handle'[h].upload = "ok"
  <2>1. handle'[i] = q /\ \A h \in FHs \ {i} : handle'[h] = handle[h]
    BY <1>0, <1>3 DEF Change
  <2>2. /\ Good(q) /\ q \in Handle /\ q.st # "free" /\ handle[i].st # "free"
        /\ handle[i].upload = "ok" => q.upload = "ok"
    BY <1>3 DEF Change, GoesOn, Good
  <2>3. nextFH' = nextFH /\ handle' \in [FHs -> Handle]
    BY <1>0, <1>3, <2>2 DEF Change
  <2> QED
    BY <1>0, <2>1, <2>2, <2>3 DEF Handles
<1> QED
  BY <1>1, <1>2, <1>3 DEF HandleStep

-----------------------------------------------------------------------------
\* What steps do to metadata.
Emptied(r) == removal[r].at = "remove" /\ meta' = MetaRemoved(removal[r].path)
Moved(old, new) == old # new /\ meta[old] # 0 /\ meta' = MetaRenamed(old, new)
Commits(h) ==
    /\ handle[h].upload = "running" /\ handle'[h].upload = "ok" /\ handle[h].path \in Paths
    /\ meta' = [meta EXCEPT ![handle[h].path] = h]
MetaStep ==
    \/ meta' = meta
    \/ \E r \in Requests : Emptied(r)
    \/ \E old, new \in Paths : Moved(old, new)
    \/ \E h \in FHs : Commits(h)

\* An upload that succeeds saves its metadata.
LEMMA UploadMeta ==
    ASSUME FInv, NEW h \in FHs, NEW c \in BOOLEAN, Upload(h, c),
           c => handle[h].st \in {"closing", "emptying"}
    PROVE  meta' = meta \/ Commits(h)
<1>1. Good(handle[h]) /\ handle \in [FHs -> Handle]
  BY DEF FInv, Handles, TypeOK
<1>2. handle[h].st # "free" /\ handle[h].path \in Paths
  BY <1>1 DEF Good, Upload, Free
<1>3. c => handle'[h].upload = "ok"
  <2> SUFFICES ASSUME c PROVE handle'[h].upload = "ok"
    OBVIOUS
  <2>1. handle' = [handle EXCEPT ![h] = Uploaded(handle[h], "ok")]
    BY DEF Upload, Uploaded
  <2> QED
    BY <1>1, <2>1, UploadedHandle DEF Upload
<1> QED
  BY <1>2, <1>3 DEF Upload, Commits

\* Proxy.RenameFile moves metadata or a placeholder.
LEMMA RenameMeta ==
    ASSUME TypeOK, NEW old \in Paths, NEW new \in Paths, old # new, RenameFile(old, new)
    PROVE  (meta' = meta \/ Moved(old, new)) /\ placeholders' \subseteq Paths
BY DEF TypeOK, RenameFile, Moved

\* The rename that Release does has two names.
LEMMA RenamingNames ==
    ASSUME FInv, NEW h \in FHs, handle[h].st = "renaming"
    PROVE  /\ handle[h].path \in Paths /\ handle[h].renameTo \in Paths
           /\ handle[h].path # handle[h].renameTo
<1>1. Good(handle[h])
  BY DEF FInv, Handles
<1> QED
  BY <1>1 DEF Good, Handle

\* So every step empties, moves or commits one name at most.
LEMMA NextMeta ==
    ASSUME FInv, Next
    PROVE  MetaStep /\ placeholders' \subseteq Paths
<1>0. placeholders \subseteq Paths /\ TypeOK
  BY DEF FInv, TypeOK
<1>1. ASSUME NEW p \in Paths, Truncate(p) \/ Expire(p)
      PROVE  MetaStep /\ placeholders' \subseteq Paths
  BY <1>0, <1>1 DEF Truncate, Expire, MetaStep
<1>6. ASSUME NEW r \in Requests, NEW p \in Paths, Create(r, p) \/ OpenWrite(r, p) \/ Unlink(r, p)
      PROVE  MetaStep /\ placeholders' \subseteq Paths
  BY <1>0, <1>6 DEF Create, OpenWrite, Unlink, Begin, MetaStep
<1>7. ASSUME NEW r \in Requests, Remove(r)
      PROVE  MetaStep /\ placeholders' \subseteq Paths
  <2>1. meta' = meta \/ Emptied(r)
    BY <1>7 DEF Remove, Get, DeleteObject, RemoveMeta, Answer, Emptied
  <2>2. placeholders' \subseteq placeholders
    BY <1>7 DEF Remove, Get, DeleteObject, RemoveMeta, Answer
  <2> QED
    BY <1>0, <2>1, <2>2 DEF MetaStep
<1>2. ASSUME NEW old \in Paths, NEW new \in Paths, DeferRename(old, new) \/ RenameNow(old, new)
      PROVE  MetaStep /\ placeholders' \subseteq Paths
  BY <1>0, <1>2, RenameMeta DEF DeferRename, RenameNow, MetaStep
<1>3. ASSUME NEW h \in FHs, Write(h) \/ ReleaseStarted(h) \/ ReleasePlaceholder(h)
                              \/ ReleaseEmpty(h) \/ ReleaseEnds(h)
      PROVE  MetaStep /\ placeholders' \subseteq Paths
  <2>1. meta' = meta
    BY <1>3 DEF Write, ReleaseStarted, ReleasePlaceholder, ReleaseEmpty, ReleaseEnds
  <2>2. \/ /\ handle[h].path \in Paths
           /\ handle[h].renameTo \in Paths \cup {NoPath}
        \/ handle[h].st # "open"
    BY DEF FInv, Handles, Good, Handle
  <2>3. placeholders' \subseteq Paths
    BY <1>0, <1>3, <2>2
    DEF Write, ReleaseStarted, ReleasePlaceholder, ReleaseEmpty, ReleaseEnds, InWriters
  <2> QED
    BY <2>1, <2>3 DEF MetaStep
<1>4. ASSUME NEW h \in FHs, UploadEnds(h) \/ UploadFails(h)
      PROVE  MetaStep /\ placeholders' \subseteq Paths
  <2>1. PICK c \in BOOLEAN : Upload(h, c) /\ (c => handle[h].st \in {"closing", "emptying"})
    BY <1>4 DEF UploadEnds, UploadFails
  <2>2. meta' = meta \/ Commits(h)
    BY <2>1, UploadMeta
  <2> QED
    BY <1>0, <2>1, <2>2 DEF Upload, MetaStep
<1>5. ASSUME NEW h \in FHs, ReleaseRenames(h)
      PROVE  MetaStep /\ placeholders' \subseteq Paths
  BY <1>0, <1>5, RenamingNames, RenameMeta DEF ReleaseRenames, MetaStep
<1> QED
  BY <1>1, <1>2, <1>3, <1>4, <1>5, <1>6, <1>7 DEF Next, Background

\* Content moves and goes; what is new comes from a handle that had none.
LEMMA MetaKept ==
    ASSUME FInv, HandleStep, MetaStep
    PROVE  meta' \in [Paths -> FHs \cup {0}] /\ Written' /\ OnePlace'
<1>0. /\ meta \in [Paths -> FHs \cup {0}] /\ 0 \notin FHs /\ Written /\ OnePlace
      /\ \A h \in FHs : handle[h].upload = "ok" => handle'[h].upload = "ok"
  BY HandlesKept DEF FInv, TypeOK, FHs
<1>1. CASE meta' = meta
  BY <1>0, <1>1 DEF Written, OnePlace
<1>2. ASSUME NEW r \in Requests, Emptied(r)
      PROVE  meta' \in [Paths -> FHs \cup {0}] /\ Written' /\ OnePlace'
  <2>1. /\ meta' \in [Paths -> FHs \cup {0}]
        /\ \A q \in Paths : meta'[q] \in {0, meta[q]}
    BY <1>0, <1>2 DEF Emptied, MetaRemoved
  <2> QED
    BY <1>0, <2>1 DEF Written, OnePlace
<1>3. ASSUME NEW old \in Paths, NEW new \in Paths, Moved(old, new)
      PROVE  meta' \in [Paths -> FHs \cup {0}] /\ Written' /\ OnePlace'
  <2>1. /\ meta' \in [Paths -> FHs \cup {0}] /\ old # new
        /\ meta'[old] = 0 /\ meta'[new] = meta[old]
        /\ \A q \in Paths \ {old, new} : meta'[q] = meta[q]
    BY <1>0, <1>3 DEF Moved, MetaRenamed
  <2>2. Written'
    BY <1>0, <2>1 DEF Written
  <2>3. OnePlace'
    BY <1>0, <2>1 DEF OnePlace
  <2> QED
    BY <2>1, <2>2, <2>3
<1>4. ASSUME NEW h \in FHs, Commits(h)
      PROVE  meta' \in [Paths -> FHs \cup {0}] /\ Written' /\ OnePlace'
  <2> DEFINE p == handle[h].path
  <2>1. /\ meta' \in [Paths -> FHs \cup {0}] /\ p \in Paths /\ meta'[p] = h
        /\ \A q \in Paths \ {p} : meta'[q] = meta[q]
    BY <1>0, <1>4 DEF Commits
  <2>2. \A q \in Paths : meta[q] # h
    BY <1>0, <1>4 DEF Written, Commits
  <2>3. Written'
    BY <1>0, <1>4, <2>1 DEF Written, Commits
  <2>4. OnePlace'
    BY <1>0, <2>1, <2>2 DEF OnePlace
  <2> QED
    BY <2>1, <2>3, <2>4
<1> QED
  BY <1>1, <1>2, <1>3, <1>4 DEF MetaStep

-----------------------------------------------------------------------------
(* Names that are not shared.                                              *)

\* What a step does to the removals: they go on or end, or one begins.
GoOn == \A r \in Requests : UnderWay(r)' => UnderWay(r) /\ removal'[r].path = removal[r].path
RemovalStep ==
    \/ GoOn
    \/ \E r \in Requests, p \in Paths, op \in {"create", "open", "unlink"} : Begin(r, op, p)

\* Removals keep their types and their names.
LEMMA NextRemovals ==
    ASSUME FInv, Next
    PROVE  RemovalStep /\ removal' \in [Requests -> Removal] /\ deleted' \subseteq FHs /\ Removals'
<1> DEFINE All == /\ RemovalStep /\ removal' \in [Requests -> Removal] /\ deleted' \subseteq FHs
                  /\ Removals'
<1>0. /\ removal \in [Requests -> Removal] /\ deleted \subseteq FHs /\ Removals
      /\ meta \in [Paths -> FHs \cup {0}]
  BY DEF FInv, TypeOK
<1>1. ASSUME NEW r \in Requests, NEW p \in Paths, NEW op \in {"create", "open", "unlink"},
             Begin(r, op, p)
      PROVE  All
  <2>1. /\ removal' = [removal EXCEPT ![r] = [Idle EXCEPT !.op = op, !.path = p, !.at = "get"]]
        /\ deleted' = deleted
    BY <1>1 DEF Begin
  <2>2. /\ removal' \in [Requests -> Removal] /\ removal'[r].path = p /\ removal'[r].at = "get"
        /\ \A s \in Requests \ {r} : removal'[s] = removal[s]
    BY <1>0, <2>1 DEF Removal, Idle
  <2>3. Removals'
    BY <1>0, <2>2 DEF Removals, UnderWay
  <2> QED
    BY <1>0, <1>1, <2>1, <2>2, <2>3 DEF RemovalStep
<1>2. ASSUME NEW r \in Requests, NEW x \in Removal, removal' = [removal EXCEPT ![r] = x],
             deleted' \subseteq FHs,
             x.at # "idle" => UnderWay(r) /\ x.path = removal[r].path,
             x.at = "delete" => x.found # 0
      PROVE  All
  <2>1. removal' \in [Requests -> Removal] /\ removal'[r] = x
        /\ \A s \in Requests \ {r} : removal'[s] = removal[s]
    BY <1>0, <1>2
  <2>2. GoOn
    BY <1>2, <2>1 DEF GoOn, UnderWay
  <2> QED
    BY <1>0, <1>2, <2>1, <2>2 DEF RemovalStep, GoOn, Removals, UnderWay
<1>3. ASSUME NEW r \in Requests, Remove(r)
      PROVE  All
  <2>0. removal[r] \in Removal /\ Idle \in Removal /\ Idle.at = "idle"
    BY <1>0 DEF Idle, Removal
  <2>1. ASSUME UnderWay(r) PROVE Removed(r) \in Removal
                                 /\ (Removed(r).at # "idle" => Removed(r).path = removal[r].path)
                                 /\ Removed(r).at # "delete"
    BY <2>0 DEF Removed, Removal, Idle
  <2>2. CASE Get(r)
    <3>1. UnderWay(r) /\ removal[r].path \in Paths /\ deleted' = deleted
      BY <1>0, <2>2 DEF Get, UnderWay, Removals
    <3> DEFINE x == [removal[r] EXCEPT !.at = "delete", !.found = meta[removal[r].path]]
    <3>2. x \in Removal /\ x.path = removal[r].path /\ x.found = meta[removal[r].path]
      BY <1>0, <2>0, <3>1 DEF Removal
    <3>3. \/ removal' = [removal EXCEPT ![r] = Removed(r)]
          \/ removal' = [removal EXCEPT ![r] = x] /\ meta[removal[r].path] # 0
      BY <2>2 DEF Get
    <3> HIDE DEF x
    <3>4. CASE removal' = [removal EXCEPT ![r] = x] /\ meta[removal[r].path] # 0
      BY <1>0, <1>2, <3>1, <3>2, <3>4
    <3>5. CASE removal' = [removal EXCEPT ![r] = Removed(r)]
      BY <1>0, <1>2, <2>1, <3>1, <3>5
    <3> QED
      BY <3>3, <3>4, <3>5
  <2>3. CASE DeleteObject(r)
    <3> DEFINE x == [removal[r] EXCEPT !.at = "remove"]
    <3>1. removal[r].found \in FHs \cup {0} /\ UnderWay(r) /\ removal[r].at = "delete"
      BY <2>0, <2>3 DEF DeleteObject, UnderWay, Removal
    <3>2. x \in Removal /\ x.path = removal[r].path /\ x.at = "remove"
      BY <2>0 DEF Removal
    <3>3. removal[r].found # 0
      BY <3>1 DEF FInv, Removals, UnderWay
    <3>4. removal' = [removal EXCEPT ![r] = x] /\ deleted' \subseteq FHs
      BY <1>0, <2>3, <3>1, <3>3 DEF DeleteObject
    <3> HIDE DEF x
    <3> QED
      BY <1>2, <3>1, <3>2, <3>4
  <2>4. CASE RemoveMeta(r)
    BY <1>0, <1>2, <2>1, <2>4 DEF RemoveMeta, UnderWay
  <2>5. CASE Answer(r)
    BY <1>0, <1>2, <2>0, <2>5 DEF Answer
  <2> QED
    BY <1>3, <2>2, <2>3, <2>4, <2>5 DEF Remove
<1>4. ASSUME UNCHANGED removals
      PROVE  All
  BY <1>0, <1>4 DEF removals, RemovalStep, GoOn, UnderWay, Removals
<1>5. ASSUME NEW r \in Requests, NEW p \in Paths, Create(r, p) \/ OpenWrite(r, p) \/ Unlink(r, p)
      PROVE  All
  BY <1>1, <1>5 DEF Create, OpenWrite, Unlink
<1>6. ASSUME NEW p \in Paths, Truncate(p) \/ Expire(p)
      PROVE  UNCHANGED removals
  BY <1>6 DEF Truncate, Expire
<1>7. ASSUME NEW p \in Paths, NEW q \in Paths, DeferRename(p, q) \/ RenameNow(p, q)
      PROVE  UNCHANGED removals
  BY <1>7 DEF DeferRename, RenameNow
<1>8. ASSUME NEW h \in FHs, Write(h) \/ ReleaseStarted(h) \/ ReleasePlaceholder(h)
                              \/ ReleaseEmpty(h) \/ Background(h)
      PROVE  UNCHANGED removals
  BY <1>8 DEF Write, ReleaseStarted, ReleasePlaceholder, ReleaseEmpty, Background, UploadEnds,
              UploadFails, Upload, ReleaseEnds, ReleaseRenames
<1> QED
  BY <1>3, <1>4, <1>5, <1>6, <1>7, <1>8 DEF Next

\* Names that are left alone stay with their handle.
LEMMA SeparateStep ==
    ASSUME FInv, HandleStep, exclusive
    PROVE  Separate'
<1>0. handle \in [FHs -> Handle] /\ Separate
  BY DEF FInv, TypeOK, XInv
<1>1. CASE Same
  BY <1>0, <1>1 DEF Same, Separate, Active, On
<1>2. ASSUME NEW q, New(q)
      PROVE  Separate'
  <2>1. handle'[nextFH] = q /\ \A h \in FHs \ {nextFH} : handle'[h] = handle[h]
    BY <1>0, <1>2 DEF New
  <2>2. q.renameTo = NoPath /\ \A h \in FHs : ~On(h, q.path)
    BY <1>2 DEF New, Fresh, NobodyOn
  <2>3. \A p \in Paths : p \in {q.path, q.renameTo} => p = q.path
    BY <2>2, PathAssumption
  <2> QED
    BY <1>0, <2>1, <2>2, <2>3 DEF Separate, Active, On
<1>3. ASSUME NEW i \in FHs, NEW q, Change(i, q)
      PROVE  Separate'
  <2>1. handle'[i] = q /\ \A h \in FHs \ {i} : handle'[h] = handle[h]
    BY <1>0, <1>3 DEF Change
  <2>2. /\ Active(i) /\ q.path = handle[i].path
        /\ \/ q.renameTo = handle[i].renameTo
           \/ \A h \in FHs : ~On(h, q.renameTo)
    BY <1>3 DEF Change, GoesOn, Active, NobodyOn
  <2> QED
    BY <1>0, <2>1, <2>2 DEF Separate, Active, On
<1> QED
  BY <1>1, <1>2, <1>3 DEF HandleStep

\* Names that are being removed are nobody else's.
LEMMA AloneStep ==
    ASSUME FInv, HandleStep, RemovalStep, exclusive, Removals'
    PROVE  Alone'
<1>0. /\ handle \in [FHs -> Handle] /\ removal \in [Requests -> Removal] /\ Alone
      /\ NoPath \notin Paths
  BY PathAssumption DEF FInv, TypeOK, XInv
<1>1. ASSUME NEW r \in Requests, NEW p \in Paths, NEW op, Begin(r, op, p)
      PROVE  Alone'
  <2>1. /\ removal'[r].path = p /\ \A s \in Requests \ {r} : removal'[s] = removal[s]
        /\ handle' = handle
    BY <1>0, <1>1 DEF Begin, Idle
  <2>2. /\ \A h \in FHs : ~On(h, p)
        /\ \A s \in Requests : UnderWay(s) => removal[s].path # p
    BY <1>1 DEF Begin, Undisturbed, Removing
  <2> QED
    BY <1>0, <2>1, <2>2 DEF Alone, UnderWay, On, Active
<1>2. CASE GoOn
  <2> SUFFICES ASSUME NEW r \in Requests, UnderWay(r)', NEW h \in FHs, On(h, removal[r].path)'
               PROVE  FALSE
    BY <1>0, <1>2 DEF Alone, GoOn
  <2> DEFINE p == removal[r].path
  <2>1. /\ UnderWay(r) /\ removal'[r].path = p /\ p \in Paths /\ ~On(h, p)
    BY <1>0, <1>2 DEF GoOn, Alone, FInv, Removals
  <2>2. handle'[h].st \notin {"free", "closed"} /\ p \in {handle'[h].path, handle'[h].renameTo}
    BY <2>1 DEF On, Active
  <2> HIDE DEF p
  <2>3. CASE Same
    BY <2>1, <2>2, <2>3 DEF Same, On, Active
  <2>4. ASSUME NEW q, New(q)
        PROVE  FALSE
    <3>1. handle'[nextFH] = q /\ \A g \in FHs \ {nextFH} : handle'[g] = handle[g]
      BY <1>0, <2>4 DEF New
    <3>2. q.renameTo = NoPath /\ p # q.path
      BY <2>1, <2>4 DEF New, Fresh, NobodyOn
    <3> QED
      BY <1>0, <2>1, <2>2, <3>1, <3>2 DEF On, Active
  <2>5. ASSUME NEW i \in FHs, NEW q, Change(i, q)
        PROVE  FALSE
    <3>1. handle'[i] = q /\ \A g \in FHs \ {i} : handle'[g] = handle[g]
      BY <1>0, <2>5 DEF Change
    <3>2. Active(i) /\ q.path = handle[i].path
          /\ (q.renameTo = handle[i].renameTo \/ p # q.renameTo)
      BY <2>1, <2>5 DEF Change, GoesOn, Active, NobodyOn
    <3> QED
      BY <1>0, <2>1, <2>2, <3>1, <3>2 DEF On, Active
  <2> QED
    BY <2>3, <2>4, <2>5 DEF HandleStep
<1> QED
  BY <1>1, <1>2 DEF RemovalStep

\* Nobody touches a name that is being removed, or whose handle waits for its
\* rename, but that removal and that handle.
LEMMA Untouched ==
    ASSUME FInv, Next, exclusive, NEW p \in Paths,
           \A g \in FHs : On(g, p) => ~UploadEnds(g) /\ ~ReleaseRenames(g),
           \A r \in Requests : RemoveMeta(r) => removal[r].path # p,
           Removing(p) \/ \E h \in FHs : On(h, p) /\ handle[h].renameTo # NoPath
    PROVE  meta'[p] = meta[p]
<1>0. /\ meta \in [Paths -> FHs \cup {0}] /\ Separate /\ Found
      /\ \A g \in FHs : Good(handle[g])
  BY DEF FInv, TypeOK, Handles, XInv
<1>1. ASSUME NEW q \in Paths, Truncate(q) \/ Expire(q)
      PROVE  meta'[p] = meta[p]
  BY <1>1 DEF Truncate, Expire
<1>2. ASSUME NEW r \in Requests, NEW q \in Paths, Create(r, q) \/ OpenWrite(r, q) \/ Unlink(r, q)
      PROVE  meta'[p] = meta[p]
  BY <1>2 DEF Create, OpenWrite, Unlink, Begin
<1>3. ASSUME NEW r \in Requests, Remove(r)
      PROVE  meta'[p] = meta[p]
  <2>1. CASE RemoveMeta(r)
    <3>1. removal[r].path # p /\ meta[removal[r].path] # 0
      BY <1>0, <2>1 DEF RemoveMeta, Found
    <3> QED
      BY <1>0, <2>1, <3>1 DEF RemoveMeta, MetaRemoved
  <2> QED
    BY <1>3, <2>1 DEF Remove, Get, DeleteObject, Answer
<1>4. ASSUME NEW old \in Paths, NEW new \in Paths, DeferRename(old, new) \/ RenameNow(old, new)
      PROVE  meta'[p] = meta[p]
  <2>1. CASE RenameNow(old, new)
    <3>1. old # p /\ new # p
      BY <2>1 DEF RenameNow, NotYetRenamed, Undisturbed
    <3> QED
      BY <1>0, <2>1, <3>1 DEF RenameNow, RenameFile, MetaRenamed
  <2> QED
    BY <1>4, <2>1 DEF DeferRename
<1>5. ASSUME NEW g \in FHs, UploadEnds(g) \/ UploadFails(g)
      PROVE  meta'[p] = meta[p]
  <2>1. CASE UploadEnds(g)
    <3>1. Active(g) /\ handle[g].path # p
      BY <1>0, <2>1 DEF UploadEnds, Active, On
    <3> QED
      BY <1>0, <2>1, <3>1 DEF UploadEnds, Upload
  <2> QED
    BY <1>5, <2>1 DEF UploadFails, Upload
<1>6. ASSUME NEW g \in FHs, ReleaseRenames(g)
      PROVE  meta'[p] = meta[p]
  <2>1. Active(g)
    BY <1>6 DEF ReleaseRenames, Active
  <2>2. handle[g].path # p /\ handle[g].renameTo # p
    BY <1>6, <2>1 DEF On
  <2> QED
    BY <1>0, <1>6, <2>2 DEF ReleaseRenames, RenameFile, MetaRenamed
<1> QED
  BY <1>1, <1>2, <1>3, <1>4, <1>5, <1>6
  DEF Next, Background, Write, ReleaseStarted, ReleasePlaceholder, ReleaseEmpty, ReleaseEnds

\* A removal has just found its name, or had found it before.
LEMMA FoundBefore ==
    ASSUME FInv, Next, NEW r \in Requests, removal'[r].at \in {"delete", "remove"}
    PROVE  \/ meta' = meta /\ meta[removal'[r].path] # 0
           \/ /\ removal[r].at \in {"delete", "remove"} /\ removal'[r].path = removal[r].path
              /\ ~RemoveMeta(r)
<1>0. removal \in [Requests -> Removal]
  BY DEF FInv, TypeOK
<1>3. ~RemoveMeta(r)
  <2>1. Removed(r).at \in {"idle", "answer"}
    BY <1>0 DEF Removed, Idle, Removal
  <2> QED
    BY <1>0, <2>1 DEF RemoveMeta
<1>1. ASSUME NEW s \in Requests, NEW p \in Paths, Create(s, p) \/ OpenWrite(s, p) \/ Unlink(s, p)
      PROVE  removal'[r] = removal[r]
  <2>1. removal'[s].at = "get" /\ \A t \in Requests \ {s} : removal'[t] = removal[t]
    BY <1>0, <1>1 DEF Create, OpenWrite, Unlink, Begin, Idle
  <2>2. r # s
    BY <2>1
  <2> QED
    BY <2>1, <2>2
<1>2. ASSUME NEW s \in Requests, Remove(s), s # r
      PROVE  removal'[r] = removal[r]
  BY <1>0, <1>2 DEF Remove, Get, DeleteObject, RemoveMeta, Answer
<1>4. CASE Remove(r)
  <2>1. CASE Get(r)
    BY <1>0, <2>1 DEF Get, Removed, Idle, Removal
  <2>2. CASE DeleteObject(r)
    BY <1>0, <1>3, <2>2 DEF DeleteObject, Removal
  <2>3. CASE Answer(r)
    BY <1>0, <2>3 DEF Answer, Idle
  <2> QED
    BY <1>3, <1>4, <2>1, <2>2, <2>3 DEF Remove
<1>5. ASSUME removal'[r] = removal[r]
      PROVE  removal[r].at \in {"delete", "remove"} /\ removal'[r].path = removal[r].path
  BY <1>5
<1>6. ASSUME NEW p \in Paths, Truncate(p) \/ Expire(p)
      PROVE  UNCHANGED removals
  BY <1>6 DEF Truncate, Expire
<1>7. ASSUME NEW p \in Paths, NEW q \in Paths, DeferRename(p, q) \/ RenameNow(p, q)
      PROVE  UNCHANGED removals
  BY <1>7 DEF DeferRename, RenameNow
<1>8. ASSUME NEW h \in FHs, Write(h) \/ ReleaseStarted(h) \/ ReleasePlaceholder(h)
                              \/ ReleaseEmpty(h) \/ Background(h)
      PROVE  UNCHANGED removals
  BY <1>8 DEF Write, ReleaseStarted, ReleasePlaceholder, ReleaseEmpty, Background, UploadEnds,
              UploadFails, Upload, ReleaseEnds, ReleaseRenames
<1> QED
  BY <1>1, <1>2, <1>3, <1>4, <1>5, <1>6, <1>7, <1>8 DEF Next, removals

\* What a removal has found is there until it removes it.
LEMMA FoundStep ==
    ASSUME FInv, Next, exclusive
    PROVE  Found'
<1>0. Alone /\ Found
  BY DEF FInv, XInv
<1> SUFFICES ASSUME NEW r \in Requests, removal'[r].at \in {"delete", "remove"}
             PROVE  meta'[removal'[r].path] # 0
  BY DEF Found
<1>1. ASSUME removal[r].at \in {"delete", "remove"}, removal'[r].path = removal[r].path,
             ~RemoveMeta(r)
      PROVE  meta'[removal'[r].path] # 0
  <2> DEFINE p == removal[r].path
  <2>1. UnderWay(r) /\ p \in Paths /\ Removing(p) /\ meta[p] # 0
    BY <1>0, <1>1 DEF UnderWay, Removing, FInv, Removals, Found
  <2>2. /\ \A g \in FHs : ~On(g, p)
        /\ \A s \in Requests \ {r} : UnderWay(s) => removal[s].path # p
    BY <1>0, <2>1 DEF Alone
  <2>3. \A s \in Requests : RemoveMeta(s) => removal[s].path # p
    BY <1>1, <2>2 DEF RemoveMeta, UnderWay
  <2> QED
    BY <1>1, <2>1, <2>2, <2>3, Untouched
<1> QED
  BY <1>1, FoundBefore

\* A handle whose Release has begun waits, renames, empties or is closed.
LEMMA WaitingStates ==
    ASSUME NEW q, Good(q), q.st \notin {"open", "free", "closed", "emptying"}
    PROVE  q.st \in {"closing", "renaming"}
BY DEF Good, Handle

\* A handle comes to wait by a commit only.
LEMMA ComesToWait ==
    ASSUME FInv, HandleStep, MetaStep, NEW h \in FHs, Waits(h)', ~Waits(h)
    PROVE  handle[h].upload # "ok" /\ handle'[h].path = handle[h].path
<1>0. handle \in [FHs -> Handle] /\ \A g \in FHs : Good(handle[g])
  BY DEF FInv, TypeOK, Handles
<1>1. ASSUME NEW q, New(q)
      PROVE  FALSE
  <2>1. handle'[nextFH] = q /\ \A g \in FHs \ {nextFH} : handle'[g] = handle[g]
    BY <1>0, <1>1 DEF New
  <2> QED
    BY <1>1, <2>1 DEF New, Fresh, Waits
<1>2. ASSUME NEW i \in FHs, NEW q, Change(i, q)
      PROVE  handle[h].upload # "ok" /\ handle'[h].path = handle[h].path
  <2>1. handle'[i] = q /\ \A g \in FHs \ {i} : handle'[g] = handle[g]
    BY <1>0, <1>2 DEF Change
  <2>2. h = i
    BY <2>1 DEF Waits
  <2>3. q.renameTo = handle[h].renameTo /\ q.path = handle[h].path
    BY <1>2, <2>1, <2>2 DEF Change, Waits, GoesOn
  <2>4. q.st \in {"closing", "renaming"} /\ Good(q)
    BY <1>2, <2>1, <2>2 DEF Change, Waits, GoesOn
  <2>5. handle[h].upload = "ok" => handle[h].st \notin {"open", "free", "closed"}
    BY <1>0, <1>2, <2>2 DEF Good, Change, GoesOn
  <2>6. handle[h].st # "emptying"
    BY <1>2, <2>2, <2>4 DEF Change, GoesOn
  <2> QED
    BY <1>0, <2>1, <2>2, <2>3, <2>5, <2>6, WaitingStates DEF Waits
<1> QED
  BY <1>1, <1>2 DEF HandleStep, Same, Waits

\* An upload succeeds as its metadata is saved.
LEMMA CommitStep ==
    ASSUME FInv, Next, NEW h \in FHs, handle[h].upload # "ok", handle'[h].upload = "ok"
    PROVE  meta'[handle[h].path] = h
<1>0. /\ handle \in [FHs -> Handle] /\ meta \in [Paths -> FHs \cup {0}]
      /\ \A g \in FHs : Good(handle[g])
  BY DEF FInv, TypeOK, Handles
<1>1. ASSUME NEW q \in Paths, Truncate(q) \/ Expire(q)
      PROVE  FALSE
  <2>1. CASE Truncate(q)
    <3>1. handle' = [handle EXCEPT ![nextFH] = Truncated(q)]
      BY <2>1 DEF Truncate, Truncated
    <3> QED
      BY <1>0, <3>1, FreshHandles DEF Fresh
  <2> QED
    BY <1>1, <2>1 DEF Expire
<1>8. ASSUME NEW r \in Requests,
             Remove(r) \/ \E p \in Paths : Create(r, p) \/ OpenWrite(r, p) \/ Unlink(r, p)
      PROVE  FALSE
  <2>1. CASE Answer(r)
    <3>1. /\ handle' = [handle EXCEPT ![nextFH] = Opened(removal[r].path)]
          /\ removal[r].path \in Paths
      BY <2>1 DEF Answer, NewWriteHandle, Opened, FInv, Removals, UnderWay
    <3> QED
      BY <1>0, <3>1, FreshHandles DEF Fresh
  <2> QED
    BY <1>8, <2>1 DEF Remove, Get, DeleteObject, RemoveMeta, Create, OpenWrite, Unlink, Begin
<1>2. ASSUME NEW old \in Paths, NEW new \in Paths, DeferRename(old, new) \/ RenameNow(old, new)
      PROVE  FALSE
  BY <1>0, <1>2 DEF DeferRename, RenameNow, Handle
<1>3. ASSUME NEW g \in FHs, Write(g) \/ ReleaseStarted(g) \/ ReleasePlaceholder(g)
                              \/ ReleaseEmpty(g)
      PROVE  FALSE
  BY <1>0, <1>3 DEF Write, ReleaseStarted, ReleasePlaceholder, ReleaseEmpty, Handle
<1>4. ASSUME NEW g \in FHs, ReleaseEnds(g) \/ ReleaseRenames(g)
      PROVE  FALSE
  BY <1>0, <1>4 DEF ReleaseEnds, ReleaseRenames, Handle
<1>5. ASSUME NEW g \in FHs, NEW c \in BOOLEAN, Upload(g, c)
      PROVE  meta'[handle[h].path] = h
  <2>1. g = h /\ c
    BY <1>0, <1>5 DEF Upload, Handle
  <2>2. handle[h].path \in Paths
    BY <1>0, <1>5, <2>1 DEF Upload, Good, Free
  <2> QED
    BY <1>0, <1>5, <2>1, <2>2 DEF Upload
<1> QED
  BY <1>1, <1>2, <1>3, <1>4, <1>5, <1>8 DEF Next, Background, UploadEnds, UploadFails

\* What a renamed handle has written stays at its old name until Release moves it.
LEMMA StaysStep ==
    ASSUME FInv, Next, exclusive
    PROVE  Stays'
<1>0. HandleStep /\ MetaStep
  BY NextHandles, NextMeta
<1>1. handle \in [FHs -> Handle] /\ meta \in [Paths -> FHs \cup {0}]
  BY DEF FInv, TypeOK
<1> SUFFICES ASSUME NEW h \in FHs, Waits(h)'
             PROVE  meta'[handle'[h].path] = h
  BY DEF Stays
<1>2. CASE Waits(h)
  <2>1. meta[handle[h].path] = h
    BY <1>2 DEF FInv, XInv, Stays
  <2>2. ~ReleaseRenames(h)
    BY <1>1 DEF ReleaseRenames, Waits, Handle
  <2>3. handle'[h].path = handle[h].path
    <3>1. handle[h].st # "free"
      BY <1>2 DEF Waits
    <3>2. ASSUME NEW q, New(q)
          PROVE  handle'[h] = handle[h]
      BY <1>1, <3>1, <3>2 DEF New, FInv, TypeOK, FHs
    <3>3. ASSUME NEW i \in FHs, NEW q, Change(i, q)
          PROVE  handle'[h].path = handle[h].path
      BY <1>1, <3>3 DEF Change, GoesOn
    <3> QED
      BY <1>0, <3>2, <3>3 DEF HandleStep, Same
  <2> DEFINE p == handle[h].path
  <2>4. p \in Paths /\ On(h, p) /\ Active(h) /\ handle[h].renameTo # NoPath
    BY <1>2 DEF FInv, Handles, Good, Waits, On, Active
  <2>5. \A g \in FHs : On(g, p) => ~UploadEnds(g) /\ ~ReleaseRenames(g)
    <3>1. \A g \in FHs : On(g, p) => g = h
      BY <2>4 DEF FInv, XInv, Separate, On
    <3>2. ~UploadEnds(h)
      BY <1>2 DEF UploadEnds, Upload, Waits
    <3> QED
      BY <2>2, <3>1, <3>2
  <2>6. \A r \in Requests : RemoveMeta(r) => removal[r].path # p
    BY <2>4 DEF RemoveMeta, UnderWay, FInv, XInv, Alone
  <2>7. meta'[p] = meta[p]
    BY <2>4, <2>5, <2>6, Untouched
  <2> QED
    BY <2>1, <2>3, <2>7
<1>3. CASE ~Waits(h)
  <2>1. handle[h].upload # "ok" /\ handle'[h].upload = "ok" /\ handle'[h].path = handle[h].path
    BY <1>0, <1>3, ComesToWait DEF Waits
  <2> QED
    BY <2>1, CommitStep
<1> QED
  BY <1>2, <1>3

-----------------------------------------------------------------------------
\* FInv holds of an empty mount.
LEMMA FInvInit == Init => FInv
<1> SUFFICES ASSUME Init PROVE FInv
  OBVIOUS
<1>1. Free \in Handle /\ Good(Free) /\ Free.st = "free"
  BY DEF Free, Handle, Good
<1>2. nextFH \in 1..(MaxFH + 1) /\ \A h \in FHs : h >= nextFH
  BY BoundAssumption DEF Init, FHs
<1>3. handle \in [FHs -> Handle] /\ \A h \in FHs : handle[h] = Free
  BY <1>1 DEF Init
<1>4. Idle \in Removal /\ Idle.at = "idle"
  BY DEF Idle, Removal
<1>5. removal \in [Requests -> Removal] /\ \A r \in Requests : removal[r].at = "idle"
  BY <1>4 DEF Init
<1>6. TypeOK /\ Handles
  BY <1>1, <1>2, <1>3, <1>5 DEF Init, TypeOK, Handles
<1>7. Removals /\ Written /\ OnePlace
  BY <1>5 DEF Init, Removals, UnderWay, Written, OnePlace
<1>8. XInv
  BY <1>1, <1>3, <1>5 DEF XInv, Separate, Alone, Found, Stays, Waits, UnderWay, Active
<1> QED
  BY <1>6, <1>7, <1>8 DEF FInv

\* Every request keeps it.
LEMMA FInvStep == FInv /\ [Next]_vars => FInv'
<1> SUFFICES ASSUME FInv, [Next]_vars PROVE FInv'
  OBVIOUS
<1>1. CASE Next
  <2>1. HandleStep /\ MetaStep /\ placeholders' \subseteq Paths /\ exclusive' = exclusive
    BY <1>1, NextHandles, NextMeta DEF Next
  <2>2. /\ RemovalStep /\ removal' \in [Requests -> Removal] /\ deleted' \subseteq FHs /\ Removals'
    BY <1>1, NextRemovals
  <2>3. TypeOK' /\ Handles'
    BY <2>1, <2>2, HandlesKept, MetaKept DEF FInv, TypeOK
  <2>4. Written' /\ OnePlace'
    BY <2>1, MetaKept
  <2>5. XInv'
    <3>1. exclusive' => exclusive
      BY <2>1
    <3> SUFFICES ASSUME exclusive PROVE Separate' /\ Alone' /\ Found' /\ Stays'
      BY <3>1 DEF XInv
    <3> QED
      BY <1>1, <2>1, <2>2, SeparateStep, AloneStep, FoundStep, StaysStep
  <2> QED
    BY <2>2, <2>3, <2>4, <2>5 DEF FInv
<1>2. CASE UNCHANGED vars
  <2>1. TypeOK' /\ Handles' /\ Removals' /\ Written' /\ OnePlace'
    BY <1>2 DEF vars, removals, FInv, TypeOK, Handles, Removals, UnderWay, Written, OnePlace
  <2>2. XInv'
    BY <1>2 DEF vars, removals, FInv, XInv, Separate, Alone, Found, Stays, Waits, Active, On, UnderWay
  <2> QED
    BY <2>1, <2>2 DEF FInv
<1> QED
  BY <1>1, <1>2

\* In every reachable state: types, good handles, each content in one place.
THEOREM FuseInductive == Spec => []FInv
BY FInvInit, FInvStep, PTL DEF Spec

\* Metadata, placeholders, handles and removals keep their types.
THEOREM FuseTypeCorrect == Spec => []TypeOK
<1>1. FInv => TypeOK
  BY DEF FInv
<1> QED
  BY <1>1, FuseInductive, PTL

\* What a handle wrote is in one place.
THEOREM ContentIsInOnePlace == Spec => []OnePlace
<1>1. FInv => OnePlace
  BY DEF FInv
<1> QED
  BY <1>1, FuseInductive, PTL

-----------------------------------------------------------------------------
\* Of the steps that take metadata away each is a removal, a rename over it, or
\* a later upload; objects are deleted by removals only.
LEMMA LosingSteps ==
    ASSUME FInv, Next
    PROVE  \/ meta' = meta /\ deleted' = deleted
           \/ \E r \in Requests : DeleteObject(r) \/ RemoveMeta(r)
           \/ deleted' = deleted /\ \E old, new \in Paths : Moved(old, new)
           \/ deleted' = deleted /\ \E h \in FHs : Commits(h)
<1>0. TypeOK
  BY DEF FInv
<1>1. ASSUME NEW p \in Paths, Truncate(p) \/ Expire(p)
      PROVE  meta' = meta /\ deleted' = deleted
  BY <1>1 DEF Truncate, Expire, removals
<1>2. ASSUME NEW r \in Requests, NEW p \in Paths, Create(r, p) \/ OpenWrite(r, p) \/ Unlink(r, p)
      PROVE  meta' = meta /\ deleted' = deleted
  BY <1>2 DEF Create, OpenWrite, Unlink, Begin
<1>3. ASSUME NEW r \in Requests, Get(r) \/ Answer(r)
      PROVE  meta' = meta /\ deleted' = deleted
  BY <1>3 DEF Get, Answer
<1>4. ASSUME NEW old \in Paths, NEW new \in Paths, DeferRename(old, new) \/ RenameNow(old, new)
      PROVE  deleted' = deleted /\ (meta' = meta \/ Moved(old, new))
  BY <1>0, <1>4, RenameMeta DEF DeferRename, RenameNow, removals
<1>5. ASSUME NEW h \in FHs, Background(h)
      PROVE  deleted' = deleted /\ (meta' = meta \/ Commits(h) \/ \E o, n \in Paths : Moved(o, n))
  <2>1. CASE UploadEnds(h) \/ UploadFails(h)
    BY <2>1, UploadMeta DEF UploadEnds, UploadFails, Upload, removals
  <2>2. CASE ReleaseRenames(h)
    BY <1>0, <2>2, RenamingNames, RenameMeta DEF ReleaseRenames, removals
  <2> QED
    BY <1>5, <2>1, <2>2 DEF Background, ReleaseEnds, removals
<1>6. ASSUME NEW h \in FHs,
             Write(h) \/ ReleaseStarted(h) \/ ReleasePlaceholder(h) \/ ReleaseEmpty(h)
      PROVE  meta' = meta /\ deleted' = deleted
  BY <1>6 DEF Write, ReleaseStarted, ReleasePlaceholder, ReleaseEmpty, removals
<1> QED
  BY <1>1, <1>2, <1>3, <1>4, <1>5, <1>6 DEF Next, Remove

\* Content is only lost to a request.
THEOREM ContentIsKept == Spec => LossIsAskedFor
<1> DEFINE Excused(c) == \/ \E r \in Requests : RemovedBy(r, c)
                         \/ \E p \in Paths : meta[p] = c /\ (RenamedOver(p) \/ SavedOver(p))
           A == \A c \in FHs : Stored(c) /\ ~Stored(c)' => Excused(c)
<1>1. FInv /\ [Next]_vars => [A]_vars
  <2> SUFFICES ASSUME FInv, Next, NEW c \in FHs, Stored(c), ~Stored(c)'
               PROVE  Excused(c)
    OBVIOUS
  <2>0. /\ meta \in [Paths -> FHs \cup {0}] /\ removal \in [Requests -> Removal] /\ 0 \notin FHs
        /\ Removals /\ OnePlace
    BY DEF FInv, TypeOK, FHs
  <2>1. PICK p \in Paths : meta[p] = c
    BY DEF Stored
  <2>2. c \in deleted' \/ \A q \in Paths : meta'[q] # c
    BY DEF Stored
  <2>3. c \notin deleted
    BY DEF Stored
  <2>4. ASSUME NEW r \in Requests, DeleteObject(r)
        PROVE  Excused(c)
    <3>1. meta' = meta /\ c = removal[r].found
      BY <2>1, <2>2, <2>3, <2>4 DEF DeleteObject
    <3>2. removal'[r].at = "remove" /\ removal[r].at = "delete"
      BY <2>0, <2>4 DEF DeleteObject, Removal
    <3>3. RemovedBy(r, c)
      BY <3>1, <3>2 DEF RemovedBy
    <3> QED
      BY <3>3
  <2>5. ASSUME NEW r \in Requests, RemoveMeta(r)
        PROVE  Excused(c)
    <3> DEFINE q == removal[r].path
    <3>1. removal[r].at = "remove" /\ removal'[r] # removal[r] /\ deleted' = deleted
      <4>1. removal'[r] = Removed(r) /\ removal[r].at = "remove"
        BY <2>0, <2>5 DEF RemoveMeta
      <4>2. Removed(r).at # "remove"
        BY <2>0 DEF Removed, Idle, Removal
      <4> QED
        BY <2>5, <4>1, <4>2 DEF RemoveMeta
    <3>2. q \in Paths
      BY <2>0, <3>1 DEF Removals, UnderWay
    <3>3. CASE meta[q] = c
      BY <3>1, <3>3 DEF RemovedBy
    <3>4. CASE meta[q] # c
      <4>1. q # p
        BY <2>1, <3>4
      <4>2. meta[q] = 0
        BY <2>0, <2>1, <2>2, <2>3, <2>5, <3>1, <3>2, <4>1 DEF RemoveMeta, MetaRemoved
      <4>3. ~exclusive
        BY <3>1, <4>2 DEF FInv, XInv, Found
      <4>4. RemovedBy(r, c)
        BY <3>1, <4>2, <4>3 DEF RemovedBy
      <4> QED
        BY <4>4
    <3> QED
      BY <3>3, <3>4
  <2>6. ASSUME NEW old \in Paths, NEW new \in Paths, Moved(old, new), deleted' = deleted
        PROVE  Excused(c)
    <3>1. /\ old # new /\ meta[old] # 0 /\ meta'[old] = 0 /\ meta'[new] = meta[old]
          /\ \A q \in Paths \ {old, new} : meta'[q] = meta[q]
      BY <2>0, <2>6 DEF Moved, MetaRenamed
    <3>2. p = new
      BY <2>1, <2>2, <2>3, <2>6, <3>1
    <3> QED
      BY <2>1, <3>1, <3>2 DEF RenamedOver
  <2>7. ASSUME NEW h \in FHs, Commits(h), deleted' = deleted
        PROVE  Excused(c)
    <3>1. handle[h].path = p /\ meta'[p] = h
      BY <2>0, <2>1, <2>2, <2>3, <2>7 DEF Commits
    <3> QED
      BY <2>1, <3>1 DEF SavedOver
  <2> QED
    BY <2>1, <2>2, <2>3, <2>4, <2>5, <2>6, <2>7, LosingSteps
<1> QED
  BY <1>1, FuseInductive, PTL DEF Spec, LossIsAskedFor

-----------------------------------------------------------------------------
(* A rename that was put off arrives.                                      *)

\* Release reports success where the rename has been done, or where nothing
\* was written.
LEMMA EndsWell ==
    ASSUME FInv, Next, NEW h \in FHs,
           handle[h].res = "none", handle'[h].res = "ok", handle[h].renameTo # NoPath
    PROVE  \/ ReleasePlaceholder(h)
           \/ ReleaseEnds(h) /\ handle[h].st = "emptying"
           \/ ReleaseRenames(h) /\ RenameWorks(handle[h].path)
<1>0. handle \in [FHs -> Handle] /\ \A g \in FHs : Good(handle[g])
  BY DEF FInv, TypeOK, Handles
<1>1. ASSUME NEW q \in Paths, Truncate(q) \/ Expire(q)
      PROVE  FALSE
  <2>1. CASE Truncate(q)
    <3>1. handle' = [handle EXCEPT ![nextFH] = Truncated(q)]
      BY <2>1 DEF Truncate, Truncated
    <3> QED
      BY <1>0, <3>1, FreshHandles DEF Fresh
  <2> QED
    BY <1>1, <2>1 DEF Expire
<1>8. ASSUME NEW r \in Requests,
             Remove(r) \/ \E p \in Paths : Create(r, p) \/ OpenWrite(r, p) \/ Unlink(r, p)
      PROVE  FALSE
  <2>1. CASE Answer(r)
    <3>1. /\ handle' = [handle EXCEPT ![nextFH] = Opened(removal[r].path)]
          /\ removal[r].path \in Paths
      BY <2>1 DEF Answer, NewWriteHandle, Opened, FInv, Removals, UnderWay
    <3> QED
      BY <1>0, <3>1, FreshHandles DEF Fresh
  <2> QED
    BY <1>8, <2>1 DEF Remove, Get, DeleteObject, RemoveMeta, Create, OpenWrite, Unlink, Begin
<1>2. ASSUME NEW old \in Paths, NEW new \in Paths, DeferRename(old, new) \/ RenameNow(old, new)
      PROVE  FALSE
  BY <1>0, <1>2 DEF DeferRename, RenameNow, Handle
<1>3. ASSUME NEW g \in FHs, Write(g) \/ ReleaseStarted(g) \/ ReleaseEmpty(g)
      PROVE  FALSE
  BY <1>0, <1>3 DEF Write, ReleaseStarted, ReleaseEmpty, Handle
<1>4. ASSUME NEW g \in FHs, NEW c \in BOOLEAN, Upload(g, c)
      PROVE  FALSE
  BY <1>0, <1>4 DEF Upload, Handle
<1>5. ASSUME NEW g \in FHs, ReleasePlaceholder(g) \/ ReleaseEnds(g) \/ ReleaseRenames(g)
      PROVE  g = h
  BY <1>0, <1>5 DEF ReleasePlaceholder, ReleaseEnds, ReleaseRenames
<1>6. CASE ReleaseEnds(h)
  <2>1. ~(handle[h].upload = "ok" /\ NeedsRename(h))
    BY <1>0, <1>6 DEF ReleaseEnds, Handle
  <2>2. handle[h].upload = "ok"
    BY <1>0, <1>6, <2>1 DEF ReleaseEnds, Handle
  <2>3. handle[h].st # "free" /\ handle[h].renameTo # handle[h].path
    BY <1>0, <1>6 DEF ReleaseEnds, Good
  <2> QED
    BY <1>6, <2>1, <2>2, <2>3 DEF ReleaseEnds, NeedsRename
<1>7. CASE ReleaseRenames(h)
  BY <1>0, <1>7 DEF ReleaseRenames, Handle
<1> QED
  BY <1>1, <1>2, <1>3, <1>4, <1>5, <1>6, <1>7, <1>8 DEF Next, Background, UploadEnds, UploadFails

\* A rename that was put off arrives as Release reports success.
THEOREM PutOffRenamesArrive == Spec => RenameArrives
<1> DEFINE A == \A h \in FHs :
          handle[h].res = "none" /\ handle'[h].res = "ok" /\ handle[h].renameTo # NoPath
          => WrittenArrives(h) /\ UnwrittenArrives(h)
<1>1. FInv /\ [Next]_vars => [A]_vars
  <2> SUFFICES ASSUME FInv, Next, NEW h \in FHs, handle[h].res = "none",
                      handle'[h].res = "ok", handle[h].renameTo # NoPath
               PROVE  WrittenArrives(h) /\ UnwrittenArrives(h)
    OBVIOUS
  <2>0. Good(handle[h]) /\ meta \in [Paths -> FHs \cup {0}] /\ 0 \notin FHs /\ OnePlace
    BY DEF FInv, Handles, TypeOK, FHs
  <2>1. CASE ReleasePlaceholder(h)
    BY <2>1 DEF ReleasePlaceholder, WrittenArrives, UnwrittenArrives
  <2>2. CASE ReleaseEnds(h) /\ handle[h].st = "emptying"
    BY <2>0, <2>2 DEF Good, WrittenArrives, UnwrittenArrives
  <2>3. CASE ReleaseRenames(h) /\ RenameWorks(handle[h].path)
    <3> DEFINE old == handle[h].path
               new == handle[h].renameTo
    <3>1. handle[h].st = "renaming" /\ handle[h].started /\ handle[h].upload = "ok"
      BY <2>0, <2>3 DEF ReleaseRenames, Good
    <3>2. old \in Paths /\ new \in Paths /\ old # new
      BY <3>1, RenamingNames
    <3>3. ASSUME exclusive
          PROVE  meta'[new] = h /\ \A p \in Paths : meta'[p] = h => p = new
      <4>1. meta[old] = h
        BY <3>1, <3>3 DEF FInv, XInv, Stays, Waits
      <4>2. meta' = MetaRenamed(old, new)
        BY <2>0, <2>3, <4>1 DEF ReleaseRenames, RenameFile
      <4>3. /\ meta'[new] = h /\ meta'[old] = 0
            /\ \A p \in Paths \ {old, new} : meta'[p] = meta[p]
        BY <2>0, <3>2, <4>1, <4>2 DEF MetaRenamed
      <4> QED
        BY <2>0, <3>2, <4>1, <4>3 DEF OnePlace
    <3> QED
      BY <3>1, <3>3 DEF WrittenArrives, UnwrittenArrives
  <2> QED
    BY <2>1, <2>2, <2>3, EndsWell
<1> QED
  BY <1>1, FuseInductive, PTL DEF Spec, RenameArrives
=============================================================================
