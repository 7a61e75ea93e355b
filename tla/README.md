# TLA+ models of ClearVault

ClearVault encrypts files on their way to a remote store (S3, WebDAV or a local
directory) and serves them again in the clear over WebDAV and FUSE.  Names and
directory structure live in a local tree of JSON files, *the metadata*; the
remote holds one opaque object per file version.

This directory holds TLA+ models of that program, TLC configurations that check
them on small instances, and TLAPS proofs.  `PROJECT.json` maps every definition
that models code to the lines it stands for.

* [Inventory](#inventory)
* [Modules](#modules)
* [Runs](#runs)
* [Fairness](#fairness)
* [Proofs](#proofs)
* [What the models leave out](#what-the-models-leave-out)
* [Disagreements between code and documentation](#disagreements-between-code-and-documentation)
* [Plan](#plan)

To check a run or the proofs:

    tlc -workers 2 -config upload.cfg MCUploadPipe.tla
    for m in UploadPipe KeyLifecycle DavAuth RangeRead Vault SharePackage FuseFS MountControl; do
        tlapm ${m}Proofs.tla
    done

## Inventory

| component | source | state | operations |
|---|---|---|---|
| Proxy | `internal/proxy/proxy.go` | `pendingCache` (0-byte placeholders, 30 s), `pendingSizes` (announced sizes), master key | `UploadFile`, `DownloadRange`, `RemoveAll`, `RenameFile`, `Mkdir`, `ReadDir`, `SavePlaceholder`, `ExportLocal` |
| WebDAV adapter | `internal/proxy/filesystem.go` | `ProxyFile`: offset, open reader, pipe, `uploadDone` | `OpenFile`, `Read`, `Seek`, `Write`, `Close`, `Stat`, `RemoveAll`, `Rename` |
| Metadata | `internal/metadata/local.go` | JSON files and directories on disk | `Get`, `Save`, `ReadDir`, `RemoveAll`, `Rename` |
| Crypto engine | `internal/crypto/engine.go` | none | `EncryptStream`, `DecryptStreamFrom`, `CalculateEncryptedSize` |
| Remotes | `internal/remote/*` | objects | `Upload`, `DownloadRange`, `Delete`, ... |
| WebDAV client | `pkg/gowebdav` | the authorizer and its default authenticator, shared by all goroutines | `req` with negotiation and repetition, `WriteStreamWithLength` (probe, then PUT), `ReadStreamRange`, ... |
| FUSE | `internal/fuse/fs.go` | `writers`: open write handles | `Create`, `Open`, `Write`, `Release`, `Rename`, `Getattr`, `Truncate`, ... |
| Management API | `internal/api/api.go` | `mount.json`, `mount.pid`, `mount.config.json`, the configuration file | mount, unmount, status, configuration, export, import |
| fnOS script, mount process | `deploy/fnos/cmd/main`, `cmd/clearvault/mount_fuse.go` | the same files; processes | start, stop; mount, signal handler |
| Share packages | `proxy/tar_util.go`, `proxy/proxy_asymmetric.go` | the tar file | export, import |
| Configuration | `internal/config/config.go` | `config.yaml` with the master key | load, generate key, save |
| Server | `cmd/clearvault/main.go`, `internal/webdav/server.go` | `pendingSizes` through its handler | wiring |

How they meet:

* A WebDAV or FUSE write goes through **two unbuffered pipes**: the handler
  writes plaintext to the first, a goroutine encrypts from the first to the
  second, the remote client reads the second.  Results come back over two
  channels.  Four parties wait for each other and each of them may fail.
* Request goroutines share metadata tree, remote and placeholder cache
  **without any lock of ClearVault's own**.  The only exclusion is the lock
  system of `x/net/webdav`, per path and without depth: it does not keep apart a
  request on `/d` and one on `/d/x`.
* All goroutines send through one WebDAV client.  Each request has an
  authenticator, but the one that a challenge has led to is the **default of the
  others too**, and a stream that was sent to be challenged cannot be sent again.
* `RemoveAll` first deletes remote objects and then metadata; `UploadFile`
  first stores the object and then the metadata.  A crash or another request
  may come between.
* FUSE applications rename files that are still open; the rename is put off to
  `Release`.
* API requests, a shell script and mount processes know of each other by three
  files.

What makes each correct: an upload is all or nothing and reported truthfully; no
two paths share a remote object and no metadata survives its object; a stream
that meets a challenge is not stored from its middle; a range read returns the
bytes asked for, after any seek; a renamed file ends up under its new name and
only there; the mount process that runs is the one the files lead to; an export
misses nothing that was left alone, and one that did not finish its walk is not
importable; everything is sealed under one master key and that key is never lost.
Where the code keeps one of these only within limits, the property names the limit
([below](#disagreements-between-code-and-documentation)).

What makes them hard is listed, line by line, under `hazards` in `PROJECT.json`.

## Modules

### UploadPipe: one streaming upload

`UploadPipe.tla` models `ProxyFile.Write`/`Close`, `Proxy.UploadFile`,
`Engine.EncryptStream` and the three `Upload` clients as four processes:

| process | variables | code |
|---|---|---|
| writer | `wpc written sent wres` | the PUT handler in `ProxyFile.Write`, `Close` |
| encryptor | `epc buf last cr errChan` | the goroutine in `UploadFile`; `cr` is `countReader.n` |
| backend | `bst got tags` | `remote.Upload`; whether it enforces the length and closes its reader depends on the client |
| uploader | `upc ures` | the goroutine in `ProxyFile.Write` that runs `UploadFile` |

`offer` is a `pipeWriter.Write` that no read has taken yet; `outerClosed`,
`innerEOF` and `innerBroken` are the closed ends of the pipes.  The metadata
file is written in two steps, since `os.WriteFile` truncates first: a crash or a
failing write between them leaves it torn, the old version lost.  A failing
WebDAV request may or may not have closed the body it was given (`UploadFails`), and a
server may answer with success before the stream has ended (`AnswersEarly`).
`EncryptStream`'s read loop works on units of plaintext, `ChunkSize` of which
make a chunk; a chunk costs `TagSize` units more at the remote.  The size found
in `pendingSizes` is an input (`size`), any number, because a different request
on the path may have left it.  `placeholder` is the path's entry in `pendingCache`:
an earlier request may have left one, `UploadFile` removes it, a PUT of nothing sets
it, and it expires (`Expire`).

`AtomicPut.tla` is what an upload promises the path it writes to: the document
goes from the old version to the new one at most once, by way of a moment in
which it is torn, and whoever fails or dies in that moment leaves it so; a success
answer to a body means that the document is the whole body.  What readers see is the
document, or an empty file where a placeholder covers it (`covered`): a PUT of
nothing is answered with success, covers the document, and 30 seconds later
readers see the old document again.  After an answer the placeholder's going is the
only change left.  `UploadPipe` implements this (`ImplementsAtomicPut`) with
`body <- len`, `doc <- meta`, `docSize <- metaSize`, `covered <- placeholder`,
`reply <- wres`: goroutines, pipes, remote and crashes are steps that the abstract
specification does not see.

### MetaTree and Vault: concurrent requests

`MetaTree.tla` gives the operations of `LocalStorage` as operators on a tree
(directories, and JSON files with the remote name each holds), with the
peculiarities of the code: a directory hides the JSON file of the same name, JSON
files are removed and renamed first, removing a path that does not exist empties
the whole tree, and a directory can be moved neither into itself nor onto one that
exists.

`Vault.tla` has a request goroutine per element of `Procs`.  A request begins
when the WebDAV locks allow it and then takes one step per metadata or remote
operation; between two steps of a request others may act.  MOVE onto an existing
path begins, as in `x/net/webdav`, with the steps of a DELETE of it.
`Expire` ends a placeholder, `Restart` ends the process.

A rename is several steps, those of `LocalStorage.Rename`:

| step | code |
|---|---|
| `RenameEntry` | `os.Rename` works; a directory is done, a file has its Name to be updated |
| `RenameRefused` | it does not: the disk fails, or a directory is moved into itself or onto another; the destination's parents have been made |
| `CopyFile`, `CopyDir` | the fallback; `CopyDir` copies all, or a part and then fails, as it always does into itself |
| `ReadName`, `WriteName` | `updateMetadataName` reads the JSON at the destination and writes it back, wherever the file has gone meanwhile |
| `RemoveSource` | the source of a copy is removed, an error is only logged |

Two variables are history and no part of the program.  `stranded` holds the objects
whose path left a directory while it was being deleted, through a MOVE or because a
restart ended the DELETE; `copied` those whose metadata a rename has written a
second time, by its fallback or by `WriteName`.  With them the properties can say
that those objects, and no others, may lose their content or have two owners.
`usage` says how the server is used, and does not change (see [bounds](#bounds)).

### RangeRead: random access

`RangeRead.tla` is the arithmetic of `DownloadRange` (first and last chunk,
offset and length at the remote), what each remote makes of an offset and
length, `DecryptStreamFrom` with the chunk's number in its nonce, and the two
readers.

A WebDAV reader is a session: `ProxyFile` is opened once (`openSize` is
`f.meta.Size`), then sought and read in any order.  `Read` opens a stream when it
has none and drops the bytes before its offset; `Seek` drops the stream.  The
metadata is looked up again by every `DownloadRange`, and an upload may have
replaced it (`Replace` sets `current`), so the size in `DownloadRange` (`size`)
and that of the file when it was opened may differ; a placeholder may cover the
file (size 0).  A FUSE read is one call, which takes what the pipe has from the
start of the chunk.

A fetch may fail (`FetchFails`), and the remote's stream may stop early (`cut`): like
the end of a file, since `DecryptStreamFrom` takes `io.EOF` and
`io.ErrUnexpectedEOF` for it, or with another error.  `ending` is how the plaintext
stream then ends: end of file, refused by GCM, or broken.  Decryption runs beside the
reader in the code; the model decrypts the stream first and delivers it after,
because a call can tell only what bytes came and how they ended.

### FuseFS: write handles

`FuseFS.tla` has the write handles in `fs.writers` and those in `Release`,
uploads, placeholders, and metadata by name.  Content is named by the handle that
wrote it, so that a property can say where it went.  `exclusive` says how
applications behave: in any way, or like those the documentation has in mind, that
write a name through one handle at a time and only rename it meanwhile.

`Create`, `Open` for writing and `Unlink` all go through `Proxy.RemoveAll`, which is
steps of its own (`removal`): `Get` reads the metadata, `DeleteObject` deletes the
object found, `RemoveMeta` removes what is under the name by then, and if nothing is,
everything; then `Answer` makes the write handle.  `Requests` of them may be under
way.  The kernel locks the directory for create, unlink and rename, but not for an open, so
an open on the name of an unlink at work is what empties the mount; `deleted` holds the contents
whose object is gone.

### DavAuth: one WebDAV client, many requests

`DavAuth.tla` has the authorizer of `pkg/gowebdav` and the requests that
goroutines send through it.  An authenticator is a record: its kind (`nullAuth`
before anything is known, `noAuth`, `BasicAuth`, `DigestAuth` with its nonce,
`negoAuth` with the schemes still to be tried) and, for a negotiator, whether its
callback has been taken away (`Close`).  `owner` says whose authenticator the
shared default is, because `authorizer.factory` makes the very object it returns to
a request the default as well: closing the default closes that request's own.

A request clones the default (`Begin`), is sent (`Answered`, `Breaks`), and the
answer is judged (`Settled`, `Refused`, `Negotiate`, `TryNext`, `Chooses`); then
it is sent again (`Redo`) unless its body is a stream (`RedoRefused`).  An upload
is two requests: the probe of `WriteStreamWithLength`, whose result nobody looks
at, and the PUT.  A server is what it offers and what it accepts.  Sending a PUT
uses the stream up (`Stores`), whatever the answer.  A connection may break before
the request arrives, in the middle of its body (the server may keep the
beginning, `"cut"`) or before the answer does (`Breaks`); a server may turn a request
down with a status that is no challenge (`TurnedDown`), which the caller looks at only
when authentication is settled.

### MountControl: mount, unmount, start, stop

`MountControl.tla` models `HandleMount`, `HandleUnmount`, `HandleMountStatus`
and the helpers below them, step by step with their files, together with
`start_process` and `stop_process` of the script and the life of a mount process
as seen from outside.  `mount.json` is truncated and written in two steps and may
be removed in between by a status request that finds it unreadable
(`RemoveStale`).  A mount process the server started stays a zombie until the
server ends, because nothing waits for it; `Alive` is true of it, as is
`kill(pid, 0)`.

A SIGTERM is all the API does about a process it lets go of, and it clears the
state files whether or not it worked: an unmount that waits in vain, or a mount
request that could not write `mount.json` or `mount.pid`.  `Left` is every process
sent SIGTERM by either, and every one whose mount request was cut off; the properties
are about the others.

### SharePackage: export and import

`SharePackage.tla` takes two trees of `MetaTree` and a tar file in its stages:
entries, manifest with end of archive, end of archive cut off, key appended.  The
export takes one path after another from a list, and reads one directory per step,
while users change the vault; the import saves one entry per step while users write the
other.  Export and import may fail or be killed at each step.

* `Walks` adds the files of a directory and goes on to its directories, but for those
  `LocalStorage.ReadDir` passes over: it logs a child that cannot be read, or whose JSON
  is just being written, and the export goes on to report success (`ex.skipped`).
* An entry's path is made of the directory and the Name in the JSON (`NameOf`), which a
  rename updates after `os.Rename`, and never if it is cut short: `SrcRename` and
  `SrcNamed` are two steps, and `late` has the files in between.
* From `AppendsKey` on the package opens; closing, syncing and the answer come after
  (`ExportAnswers`) and may fail.

`walked` is history: the packages whose walk has come to its end.

### KeyLifecycle: the master key

`KeyLifecycle.tla` has the key in the environment and in the configuration file,
the server and the mount process with the key each has read, the keys that file
keys in the metadata are sealed under (`sealed`), and up to three writers of the
file (`job`): the server's start with `--init`, a POST of the configuration, and
`config set-token`.  `LoadKey` is `LoadConfig` as to the key.
`generateAndSaveMasterKey` and `SaveConfig` are steps of a job: read, truncate,
write.  A POST with the mask or without a key (`Post`), with a blank key
(`PostBlank`, which loads the file a second time), with the placeholder key of the
example files (`PostPlaceholder`, which is replaced by a new key whether one is
known or not) and with a key of the user's own (`PostKey`) are told apart.

`faults` is what may happen in an installation beside orderly use; see `Orderly`
[below](#bounds).

### Which module uses which

    AtomicPut <- UploadPipe <- MCUploadPipe, UploadPipeProofs
    MetaTree  <- Vault <- MCVault, VaultProofs
              <- SharePackage <- MCSharePackage, SharePackageProofs
    DavAuth      <- MCDavAuth, DavAuthProofs
    RangeRead    <- RangeReadProofs
    FuseFS       <- MCFuseFS, FuseFSProofs
    KeyLifecycle <- KeyLifecycleProofs
    MountControl <- MountControlProofs

## Runs

Passing runs:

| run | instance | what it shows |
|---|---|---|
| `upload` | chunks of 2 units, bodies of 0 to 5, announced sizes 0 to 5, three remotes, no fault or all of them | an upload implements an atomic PUT under a placeholder; metadata is touched only after the object is stored; truthful answers, `Close` returns, PUT succeeds without faults |
| `vault` | requests in turn, the root and a directory moved into itself among their targets, and two at a time; all kinds, 2 uploads, failing remote and file system, restarts | one owner per object, but where a rename copied; content is lost only under a DELETE that is at work or was overtaken by a MOVE or a restart, or where it was copied; PUT visible when answered; in turn nothing is removed unasked |
| `range_read` | sizes to a bit over three chunks, sessions of reads and seeks, one replacement, every FUSE read, four kinds of remote; fetches that fail, streams cut anywhere, a placeholder | whole chunks, enough, not too many; the byte at the offset over WebDAV, and no early end of file but after a stream cut between two chunks |
| `dav_auth` | an upload and a repeatable request, in turn and overlapping; eight servers; two nonces; broken connections, expiring nonces and refusals in every combination | a stream is stored whole or not at all; unless connections break a failed upload left nothing; the probe makes the upload work; requests end |
| `fuse` | 2 handles in any use, 3 handles in documented use, two names, two creates, opens or unlinks at a time, failing uploads and deletions | one place per content, no loss unasked, renames arrive |
| `mount` | one operator, one page, 3 mount processes, all faults | no orphan, found when answered, gone after stop (but for processes the API has let go of), requests return |
| `share` | a directory with a subdirectory, alone or with a file in it as a second path; 3 remote names, one export, any number of imports, two share keys | exports complete but for what a listing passed over, truthful but for late Names, no use for unfinished ones, complete imports |
| `keys` | 4 keys, shipped, own or no configuration, with and without environment and `--init`, no fault, each fault, all faults | in orderly use everything is under one key, which is kept and which the server comes up with |

### Bounds

*Upload.*  Bodies of 0 to 5 units with chunks of 2 are empty, below, at, above and
at twice a chunk, and one more; every place where a counter is compared with a
chunk boundary is met from both sides.

*Vault.*  Two requests, one directory, a file in it, a file beside it and a second
directory to move to are what an interleaving of request steps needs; with two
uploads one may overwrite while another file's directory is deleted or moved.
One run has three usages (`AllUsages`).  Requests in turn have the root as a target,
where a DELETE of it is a walk of everything, and a directory below the first one to
move it to.  Overlapping requests are of every kind on one directory, with all faults;
overlapping requests that also move directories leave out placeholders and a failing
disk.  `MaxDepth` ends what repeated moves into deeper directories make, and a
directory copied into itself gets its copies on the first level only: the code goes on
until paths are too long, and every further level is one more owner of the same
objects.  The two goroutines are interchangeable and the run checks no liveness, so
its symmetry is sound.  The paths do not use one name both as a file and as a
directory; with such a pair the code does break `DanglingIsExplained` (see the hazard
at `local.go:161`).

*RangeRead.*  Chunks of 3 bytes and files of 0 to 10 are empty, below, at and above
one, two and three chunks; the middle chunk of three is the one that is neither
first nor last.  Streams are cut before every byte.  One replacement is enough for
a stream, a later stream and the file's own size to come from two versions.  What
holds of the arithmetic for every size is proved.

*FUSE.*  Two handles are enough to share a name, three to write, rename and write
again where they are not shared.  Two removals at a time are an open beside the one
create, unlink or rename that the directory's lock admits, or two opens.  They are
interchangeable and the run checks no liveness, so its symmetry is sound.

*Share.*  Three remote names are two files and one replaced, or written in the other
vault, while an export or import is under way.  A second path inside the first is what
makes entries of one file twice.  One export is enough, because an export begins with
a new tar file whatever was there.

*WebDAV client.*  The servers ask for nothing, for Basic, for Digest, for both in
either order with one of them or both accepted, for something unknown, or refuse
the password; with more schemes than two nothing new can happen, since the client
knows two.  One request beside the upload is enough to change the default between
any two of its steps; two nonces are one that expires and its successor.

*Mount.*  Three mount processes are one recorded, one cut off by a kill of the
server, and one more.  One operator acts at a time: with two overlapping mount
requests the code does start two processes (hazard at `api.go:383`).

*Keys.*  Of the four keys one may be in the environment and one in the file, which
leaves two to be drawn or posted: a second drawing is what can go wrong.  The
properties speak of *orderly* use, where nobody posts another key on purpose
(`rekey`) or the placeholder over a key (`placeholder`), `set-token` does not run
beside the server (`overlap`), no process is killed while it saves (`crash`) and the
file has a line for the key (`noline`).  Dropping any one of these five exceptions
makes a property fail: a posted placeholder, a file without a `master_key` line, a kill
between truncating and writing, and an overlapping `set-token` do lose the key.  A
file that cannot be read or written (`readonly`) needs no exception.

`CHECK_DEADLOCK FALSE` is in every configuration: an upload, a read or a bounded
number of requests ends, and the system may then rest.

The violation runs are explained [below](#disagreements-between-code-and-documentation).

## Fairness

* `UploadPipe`: weak fairness of each of the four processes.  Goroutines are
  scheduled, a remote answers or fails (its client has a timeout or the
  connection breaks), and a client sends on or disconnects.  Nothing is assumed
  of which outcome it is.  A crash stops everything and is a terminal answer for
  the liveness properties.
* `Vault`, `RangeRead`, `FuseFS`, `SharePackage` and `KeyLifecycle`: none; they have
  safety properties only.
* `DavAuth`: weak fairness of each goroutine's request: goroutines run, and servers
  answer or the connection breaks.  `RequestsEnd` and `WarmUpWorks` rest on it.
  Nonces need not expire.
* `MountControl`: weak fairness of what a request or the script does next: every
  wait in them has a deadline.  None of the mount processes, which may hang.

## Proofs

`UploadPipeProofs.tla` proves, for every chunk and tag size, body length,
announced size, remote and set of faults:

* `TypeCorrect`: `Spec => []TypeOK`;
* `CommitsAreComplete`: `Spec => []CommitComplete`, metadata is touched only when
  the remote has accepted, taken the encryption of every byte read, and records that
  many; it is left torn only by a save that failed or was killed;
* `SuccessIsDurable`: `Spec => []SuccessMeansStored`, a PUT answered with success
  is stored in full, and no placeholder hides it;
* `AnnouncedLengthsAreKept`: `Spec => []AnnouncedLengthKept`, a remote that enforces
  the announced length keeps no body of another one;
* `UploadIsAtomic`: `Spec => ImplementsAtomicPut`, the refinement, with the
  placeholder a part of what is seen.

None of them is inductive.  A commit is complete because the backend has accepted
and the encryptor has closed the pipe without an error, which it does with an empty
buffer, so that nothing got lost on the way, even where the remote answered early;
success is durable because the pipe hands over each unit once.  The inductive invariant
`IInv` says just that:

| part | says |
|---|---|
| `TypeOK` | types |
| `Conservation` | `got + buf = cr`: what was read is in the buffer or at the backend |
| `EncryptorDone` | a result means the encryptor has ended; a good one means an empty buffer; the object is accepted only after it, or by an answer that came early |
| `UploadOrder` | at which place of `UploadFile` what has happened |
| `PipeBalance` | units the writer handed over are units counted, but for the one on offer |
| `Answering` | the encryptor ends only after `Close`, and `Close` answers only after `UploadFile`, which has begun by removing a placeholder |
| `Chunking` | chunks at the backend are full but for the last one; what was accepted at the end of the stream is as long as announced |

Each part has a lemma that every step preserves it, assuming the parts it needs
(`TypeStep` to `ChunkingStep`), each with one case per action; `Inductive` puts
them together.  The refinement needs `Answering`: the abstract specification
lets the document change only before the answer, uncovered, and only up to the
body's length.  `AnnouncedLengthsAreKept` needs that two lengths never have the same
encrypted size, which follows from `Chunking` and `ChunksHold`: the number of tags
is the number of chunks, rounded up, on both sides.
The assumptions are the named ones of `UploadPipe.tla`: `ChunkSize` positive, the
inputs natural numbers, remotes and faults of the known kinds.

`KeyLifecycleProofs.tla` proves, for any number of keys and any set of faults, the
first of all installations and the others of orderly use:

* `KeyTypeCorrect`: `Spec => []TypeOK`;
* `OneKeyOnly`: `Spec => []OneKey`;
* `KeysAreKept`: `Spec => []KeyInUseKept`;
* `ComesUpWithItsKey`: `Spec => ServesWhatItHolds`, an action property.

That one key is in use does not survive a step by itself: a POST may be about
to save a key it loaded before the file changed.  The invariant, for orderly
installations, is

| part | says |
|---|---|
| `TypeOK` | types |
| `Apart` | `set-token` is not at work while a server is up or starting |
| `Torn` | the file lacks a key line only between truncating and writing |
| `FreshStart` | while a drawn key is not yet in the file none was there, and nothing is sealed or in use |
| `SavesKnown` | without a key in the environment, a save about to begin brings the key in the file, if there is one, and a save under way brings the only key in use |
| `UsedKnown` | every key in use or sealed is the one in the environment or, without that, the one in the file unless the file is being written |

with a lemma for each that every step preserves it, and `KeyInductive` to join
them.  Assumptions: `KeyAssumption` (at least two keys, the ones an installation
may be born with) and `FaultAssumption` (faults of the known kinds).  On the instance
of the run `keys` TLC finds `IInv` an invariant too.

`RangeReadProofs.tla` proves, for all chunk and tag sizes, file sizes, readers and
remotes, with fetches that fail and streams that are cut anywhere: `RangeTypeCorrect`,
`ChunksOpen` (`RangesDecrypt`), `RequestsAreCovered` (`RangeCovered`) and
`DavReadsAreExact` (`DavReadExact`).  The arithmetic is in
`LastChunkFits` (the last chunk is one of the file, reaches to the end of the
request or of the file, and begins before the end of the request) and `LengthFits`
(the length worked out ends exactly with it).  The invariant `RInv` says what a
request asks for (`Asked`), that the last chunk suits it (`Chosen`), that the stream
continues at the chunk that is next (`Decrypting`), where the plaintext begins
and ends (`Delivering`), and how (`Ending`).  No chunk of a stream that comes to its end
fails to open, because a piece of it is always the sealed chunk of that number; a
stream that was cut passes for one that ended only where it was cut between two
chunks.

`DavAuthProofs.tla` proves, for any goroutines, servers, nonces and faults:
`AuthTypeCorrect`, `StreamsAreWhole` (`WholeOrNothing`) and `FailuresLeaveNothing`
(`FailedLeavesNothing`).  The invariant `DInv` has, besides the types: what kinds of
authenticator a request and the default can have (`Authenticators`; once any request
under way has another than the initial one, so has the default), what is left of a
stream and what is stored at each place of a request (`Streams`), and, while
no connection breaks, that a PUT with the initial authenticator, whose first
answer is always thrown away, meets only servers that refuse it (`Quiet`).  That
holds with nonces that expire and requests that are turned down.

`VaultProofs.tla` proves, for any number of requests, paths and uploads and any
faults: `VaultTypeCorrect`, `OneOwner` (`UniqueOwner`), `AckedPutsAreVisible`
(`AckedPutVisible`), `RemovalsKeepToTheirPath` (`RemovesInTurn`) and
`DanglingExplained` (`DanglingIsExplained`).  It begins with lemmas on what the
operations of `LocalStorage` do to any tree: a tree stays a tree, and if two paths hold
the same name only for what was copied, they do so afterwards (`RemoveAll`, `Rename` of
a file and of a directory, `Save`, and `CopyTree`, which adds what it copies).  `VInv`
adds to types and `UniqueOwner` that an upload has a path and a name that no other
request knows, and that a MOVE has a destination.  On top of it,
`Guarded` says that paths of requests at work are apart (the WebDAV locks), that no
placeholder hides an upload and that no DELETE is about to delete its object, and
`InTurn` that a DELETE alone, or a rename that removes the source of its copy, still
has a target when it comes to that: this is what an overlapping DELETE takes away
(`vault_delete_race`).

`DanglingExplained` says that content is missing only below the target of a DELETE
at work, or where a MOVE or a restart has stranded it, or where a rename had copied
it.  That is not inductive: an
object may be about to go.  A name is *doomed* if its object is gone or a DELETE
has it on its list or in hand (`Doomed`), and `DInv` says that every file with a
doomed name is already explained (`Explained`).  A DELETE that comes to its end
must then leave no file behind that only it explained.  What `RemoveAll` leaves lies
neither at nor below its target, because every file has its directories
(`Rooted`), no path is a file and a directory (`Named`), and the walk read
nothing but what is below the target (`WalksBelow`); where the target has gone,
everything is removed.  A MOVE or a restart strands what it takes from under a
DELETE, and where an object has one owner that is all there is; the others are
`copied`.

The theorem has a hypothesis, `KindsByName`: clients tell files from directories
by name, so that no path is ever used for a file and for a directory.  Without it the property is false (see the hazard at
`local.go:161`).  `MCVault` assumes it of its paths, and TLC evaluates that.  The
theorem rests on no request being alone and on no bound: two overlapping DELETEs,
uploads that fail and restarts at any step are all in it.

`SharePackageProofs.tla` proves, for any vaults, keys, lists of paths and faults:
`ShareTypeCorrect`, `PackagesAreTrue` (`NothingInvented`), `ImportsAreWhole`
(`OnlyWholePackages`), `ExportsAreComplete` (`ExportComplete`) and `ImportsAreComplete`
(`ImportComplete`).  `SInv` says that a running export has noted everything the vault
had and every Name that was late, and that each entry so far is one of those (`Seen`),
and that what is beyond the walk, opens, or was read, is the package of a walk that
has ended (`Whole`).  The last two theorems need in addition what a walk has still to
do while users write, remove and rename, in three parts (`WInv`):

| part | says |
|---|---|
| `Ahead` | once the walk has ended, neither a path nor a directory is left |
| `Covered` | a file below the paths asked for that nobody has touched has its entry, or lies below a path or directory still to be read, or below something a listing has passed over |
| `Brought` | what an import has saved is there with a content that the package has for its path, but where a user has written |

A file may have two entries, when it is replaced between two steps of the walk or is
asked for twice; the import then brings one of them.

`MountControlProofs.tla` proves, for any number of status pages and mount processes and
any faults: `MountTypeCorrect` (`TypeOK`), `NoneIsOrphaned` (`NoOrphan`),
`MountsAreFound` (`MountIsFound`) and `StopLeavesNothing` (`StopUnmounts`).  They
hold under `OneOperator`: one administrator, or one script, at a time, which is how
the run is set up as well.  With two the code does lose a process (hazard at
`api.go:383`), so the hypothesis is needed.  The invariant `MInv` is

| part | says |
|---|---|
| `TypeOK` | types |
| `Issued` | process numbers in files and in requests are of processes that have been started |
| `PagesPoll` | status pages read and remove files, no more |
| `Placed` | which request or script is at which step |
| `Relies` | before the operator has changed anything the files lead to every live process; later none is live but the one it has started and is about to record |

The theorems are about the processes outside `Left`: those the API has never sent
SIGTERM, neither by an unmount nor by a mount request that could not write its state,
and whose mount request was not cut off.  Nothing is claimed of the others, which the
code lets go of.

The files lead to a process (`Recorded`) when `mount.pid` names it, automatic
mounting is on and `mount.json` names it or is missing: a status request that has
found `mount.json` unreadable may remove it after it has been written, so what a
request relies on may not depend on that file being there.

`FuseFSProofs.tla` proves, for any names, handles and requests at a time:
`FuseTypeCorrect`, `ContentIsInOnePlace` (`OnePlace`), `ContentIsKept`
(`LossIsAskedFor`) and `PutOffRenamesArrive` (`RenameArrives`).  `FInv` says of each
handle what its state implies (`Good`), that a removal has a name and an object to
delete (`Removals`), and that metadata names a handle whose upload succeeded
(`Written`).  Of applications that use one handle per name it says more (`XInv`): handles
and removals at work have separate names (`Separate`, `Alone`), what a removal has
found is there until it removes it (`Found`), so that it never empties the mount, and what
was written stays until Release renames it (`Stays`).

Assumptions are the named `ASSUME`s of the modules; each is evaluated by TLC on the
instance of a run.

With these every safety property of every passing run, the type invariants
included, is stated by a theorem.  Only model-checked are the liveness properties
(`CloseReturns`, `Delivered`, `WarmUpWorks`, `RequestsEnd`, `RequestsReturn`): they rest
on fairness, and reasoning from `ENABLED` is out of this prover's reach.

## What the models leave out

* **Cryptography** is perfect: a chunk opens exactly under its own number and
  key.
* **Configuration**: of the settings only the master key.  Every process of an
  installation has the same environment; keys that are not base64 or have a wrong
  length, which are refused at start or fail at the first use, and the access token
  are left out.
* **Bytes**: plaintext is counted in units, content is a remote name or a
  handle.
* **Reading or writing one JSON file is one step** in `Vault`, `FuseFS` and
  `SharePackage`.  The torn file that `os.WriteFile` may leave is in `UploadPipe`
  only; of its readers, only the listing that passes over it (`SharePackage`) is
  modelled.
* **Inside one step of `LocalStorage`**: `Vault` has a rename in steps, but a request
  that comes between two entries of one `CopyDir`, or between looking for the source
  and `os.Rename`, is covered by the step's failing in part, and `RemoveAll` of a
  directory is one step.  `FuseFS` and `SharePackage` have the rename of a file as
  one step (but for its Name, in `SharePackage`).
* **Directories moved during an export.**
* **Names ending in `.json`**, which collide with the metadata of others.
* **The order in which a walk visits** a directory: the code's is by name, the
  model's is any.
* **A DELETE of the root** is a walk of everything followed by the removal of
  every child, as in the code; that the root itself stays is the reason why an
  absent target empties the tree.
* **`ExportLocal`**, which works on a directory of its own, the user interface and
  flag parsing.
* **Of `gowebdav`**: Passport authentication, redirects, properties, directory
  operations, and its command line tool.  A server does not change its mind about
  what it offers and accepts; Digest's `qop` and counters are left out.
* **Process numbers are not used again** in `MountControl`; after a reboot a
  number left in a file may in truth belong to another program.

## Disagreements between code and documentation

Four runs are expected to fail; each shows that the code does not do what a
comment or document of the repository says.

* `upload_pipe_release`.  The comment in `ProxyFile.Write` says that `UploadFile`
  closes the pipe.  It does not.  If the remote fails while the body is still
  being sent, the handler stays in `pipeWriter.Write` for ever.
* `vault_delete_race`.  `RemoveAll` of a path that has just been removed by
  another request finds no target and empties the metadata directory, where
  `manager.go` promises a recursive delete of the path.
* `range_read_fuse`.  FUSE `Read` returns the start of the chunk instead of the
  bytes at the offset; the other caller of `DownloadRange`, and TECHNICAL.md, drop
  the bytes in front.
* `dav_auth_shared`.  `auth.go` says that each request is bound to an authenticator
  of its own.  The negotiator that a first challenge led to is the default as well;
  another request that is challenged closes it, and the first one, just accepted,
  calls a callback that is nil.  In the goroutine of an upload the panic ends the
  process.

Met while modelling and not made a run of its own:

* A file with a name that is not temporary, created, renamed while open, and closed
  without a write stays under its old name (`fs.go:405`), where
  `docs/fnos-fuse-upload-behavior.md:95` says that `Release` performs the rename;
  `RenameArrives` exempts it.
* The first PUT at a server that offers two schemes can end in an error if another
  request changes the default between the probe and the PUT; `WarmUpWorks` promises
  success only for requests in turn there.
* A failed request leaves its closed negotiator as the default (`owner` and
  `default` in `CloseShim`), and the next request that is accepted with a clone of
  it panics as above.
* A configuration posted with the placeholder key to an installation that has a key
  gets a new key written over the old one (`api.go:253`; a blank key is taken only
  while nothing is initialized), where TECHNICAL.md:1275 has a key generated only in an
  uninitialized state.  `Orderly` excepts it.
* A PUT of nothing over an existing file is answered with success, shows an empty file
  for 30 seconds, and then the old content comes back (`filesystem.go:126`,
  `proxy.go:215`).  `AtomicPut` says so.
* A crash or a failing write in the middle of `os.WriteFile` (`local.go:151`) leaves a
  torn metadata file, the old version of the document lost.  `CommitComplete` says
  that nothing else does.
* A remote's stream that stops early between two chunks passes for the end of the file
  (`engine.go:182`).  `DavReadExact` excepts it.
* MOVE of a directory into itself copies the metadata below it before it fails
  (`local.go:284`, `local.go:344`), as do copies that fail later on: two paths then own one remote
  object, and deleting one takes the other's content.  `UniqueOwner` and
  `DanglingIsExplained` except what was `copied`.
* An open for writing beside an unlink of the same name, at the FUSE mount, makes
  `meta.RemoveAll` run on a name that is gone and empties the mount
  (`proxy.go:437`, `local.go:168`).  `LossIsAskedFor` excepts it where applications
  share names.
* An export reports success although a listing has passed over a file it could not read
  (`local.go:219`), and writes a file whose rename was cut short under its former name
  (`tar_util.go:246`).  `ExportComplete` and `NothingInvented` except these.
* The package of an export that fails closing or syncing, after the key was written,
  opens (`proxy_asymmetric.go:216`).  `OnlyWholePackages` says that it is whole all the
  same.
* A mount request that cannot write its state files sends SIGTERM and forgets the
  process, which outlives the signal if that comes before `host.Mount` has succeeded
  (`api.go:462`, `mount_fuse.go:85`).  `NoOrphan` and `StopUnmounts` except it.

## Plan

Done: the models above; the refinement of `AtomicPut`; the sessions of `RangeRead`;
the WebDAV client; proofs of every safety property.

Next, in this order:

1. **Abstract vault.**  What a client sees of `Vault`: a map from paths to
   contents, changed in one step per request.  `Vault` without overlapping
   subtrees implements it (a refinement mapping that hides requests under way and
   unreferenced objects).
2. **PendingSize.**  Who sets and clears `pendingSizes`, with concurrent and
   failed PUTs to one path; composed with `UploadPipe`'s `size`.
3. **MetaDisk.**  `LocalStorage` with torn files and their readers, and the steps inside
   one directory copy or removal, implementing `MetaTree`.
4. **Visibility during `Release`.**  A property of `FuseFS` that the code keeps, once
   it keeps the name of a file visible while its upload runs (`fs.go:388`).

Theorems: the refinement of the abstract vault.  `RemovesInTurn`, `AckedPutVisible`
and `DInv` are what its proof will rest on.
