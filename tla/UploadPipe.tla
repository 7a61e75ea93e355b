----------------------------- MODULE UploadPipe -----------------------------
(***************************************************************************)
(* One streaming upload: proxy.UploadFile and the four parties around it.  *)
(*                                                                         *)
(*   writer     the WebDAV PUT handler inside ProxyFile.Write / Close      *)
(*              (FUSE Write / Release run the same pipe, size = -1)        *)
(*   uploader   the goroutine that runs Proxy.UploadFile                   *)
(*   encryptor  the goroutine that runs Engine.EncryptStream               *)
(*   backend    remote.Upload of the local, S3 or WebDAV client            *)
(*                                                                         *)
(*   writer --outer io.Pipe--> encryptor --inner io.Pipe--> backend        *)
(*                                                                         *)
(* io.Pipe is unbuffered: Write returns only once a Read took the data or  *)
(* the read end was closed.  Plaintext is counted in units; every Write    *)
(* call carries one unit and a chunk holds ChunkSize units.                *)
(***************************************************************************)
EXTENDS Integers

CONSTANTS ChunkSize,   \* plaintext units per AES-GCM chunk
          TagSize,     \* units the GCM tag adds to a chunk
          Lengths,     \* request body lengths that clients send
          Hints,       \* sizes OpenFile may find in pendingSizes (0: none)
          Backends,    \* remote storage types in use
          Faults       \* what may go wrong in this instance

BackendTypes == {"local", "s3", "webdav"}
FaultKinds == {"start", "backend", "save", "abort", "crash"}

ASSUME ChunkAssumption == ChunkSize \in Nat \ {0} /\ TagSize \in Nat
ASSUME InputAssumption == /\ Lengths \subseteq Nat
                          /\ Hints \subseteq Nat
                          /\ Backends \subseteq BackendTypes
                          /\ Faults \subseteq FaultKinds

VARIABLES
    len, size, backend,        \* the request: body length, f.size, remote type
    faults,                    \* what may go wrong: nothing, or all of Faults
    wpc, written, sent, wres,  \* writer: ProxyFile
    offer, outerClosed,        \* outer pipe: unit being written, write end closed
    upc, ures,                 \* uploader: Proxy.UploadFile, f.uploadErr
    epc, buf, last, cr,        \* encryptor: EncryptStream, countReader
    errChan,                   \* result of EncryptStream
    innerEOF, innerBroken,     \* inner pipe: pw closed with nil, pr closed
    bst, got, tags,            \* backend: state, plaintext and tags received
    meta, metaSize,            \* metadata file of the path, its Size field
    placeholder                \* pendingCache has the path: readers see 0 bytes

reqVars == <<len, size, backend, faults>>
writerVars == <<wpc, written, sent, wres>>
outerVars == <<offer, outerClosed>>
uploaderVars == <<upc, ures>>
encVars == <<epc, buf, last, cr, errChan>>
innerVars == <<innerEOF, innerBroken>>
backendVars == <<bst, got, tags>>
metaVars == <<meta, metaSize>>
vars == <<reqVars, writerVars, outerVars, uploaderVars, encVars, innerVars,
          backendVars, metaVars, placeholder>>

TypeOK ==
    /\ len \in Nat /\ size \in Nat /\ backend \in BackendTypes
    /\ faults \subseteq FaultKinds
    /\ wpc \in {"copy", "write", "close", "await", "done", "dead"}
    /\ written \in BOOLEAN /\ sent \in Nat
    /\ wres \in {"none", "ok", "err"} /\ placeholder \in BOOLEAN
    /\ offer \in BOOLEAN /\ outerClosed \in BOOLEAN
    /\ upc \in {"idle", "start", "upload", "await", "save", "saving", "done", "dead"}
    /\ ures \in {"none", "ok", "err"}
    /\ epc \in {"idle", "read", "seal", "done", "dead"}
    /\ buf \in Nat /\ last \in BOOLEAN /\ cr \in Nat
    /\ errChan \in {"none", "nil", "err"}
    /\ innerEOF \in BOOLEAN /\ innerBroken \in BOOLEAN
    /\ bst \in {"idle", "reading", "ok", "err"} /\ got \in Nat /\ tags \in Nat
    /\ meta \in {"old", "torn", "new"} /\ metaSize \in Nat

Init ==
    /\ len \in Lengths /\ size \in Hints /\ backend \in Backends
    /\ faults \in {{}, Faults}
    /\ wpc = "copy" /\ written = FALSE /\ sent = 0 /\ wres = "none"
    /\ placeholder \in BOOLEAN
    /\ offer = FALSE /\ outerClosed = FALSE
    /\ upc = "idle" /\ ures = "none"
    /\ epc = "idle" /\ buf = 0 /\ last = FALSE /\ cr = 0 /\ errChan = "none"
    /\ innerEOF = FALSE /\ innerBroken = FALSE
    /\ bst = "idle" /\ got = 0 /\ tags = 0
    /\ meta = "old" /\ metaSize = 0

-----------------------------------------------------------------------------
\* crypto.CalculateEncryptedSize: the Content-Length announced to the remote.
FloorEncryptedSize(n) ==
    IF n = 0 THEN 0 ELSE n + (n \div ChunkSize) * TagSize
CalculateEncryptedSize(n) ==
    IF n = 0 THEN 0 ELSE n + ((n + ChunkSize - 1) \div ChunkSize) * TagSize

-----------------------------------------------------------------------------
(* Writer.  The handler copies the request body into the file and always   *)
(* closes it, also when the copy ended early because the client went away. *)

\* ProxyFile.Write: the first call makes the pipe and starts the upload; the
\* caller then blocks in pipeWriter.Write.
Write ==
    /\ wpc = "copy" /\ sent < len
    /\ wpc' = "write" /\ offer' = TRUE
    /\ written' = TRUE
    /\ upc' = IF written THEN upc ELSE "start"
    /\ UNCHANGED <<reqVars, sent, wres, placeholder, outerClosed, ures,
                   encVars, innerVars, backendVars, metaVars>>

\* pipeWriter.Write returns: the reader has taken the unit.
WriteReturns ==
    /\ wpc = "write" /\ ~offer
    /\ wpc' = "copy" /\ sent' = sent + 1
    /\ UNCHANGED <<reqVars, written, wres, placeholder, outerVars,
                   uploaderVars, encVars, innerVars, backendVars, metaVars>>

\* The copy loop ends: at the end of the body, or because the client left.
CopyEnds ==
    /\ wpc = "copy"
    /\ sent = len \/ "abort" \in faults
    /\ wpc' = "close"
    /\ UNCHANGED <<reqVars, written, sent, wres, placeholder, outerVars,
                   uploaderVars, encVars, innerVars, backendVars, metaVars>>

\* The status the client sees: a failed copy is reported before Close's error.
Reply(closeErr) == IF sent = len /\ closeErr # "err" THEN "ok" ELSE "err"

\* ProxyFile.Close on a file nothing was written to.
CloseEmpty ==
    /\ wpc = "close" /\ ~written
    /\ wpc' = "done" /\ wres' = Reply("ok") /\ placeholder' = TRUE
    /\ UNCHANGED <<reqVars, written, sent, outerVars, uploaderVars, encVars,
                   innerVars, backendVars, metaVars>>

CloseWithoutEOF ==
    /\ wpc = "close" /\ written
    /\ wpc' = "await" /\ outerClosed' = FALSE
    /\ UNCHANGED <<reqVars, written, sent, wres, placeholder, offer,
                   uploaderVars, encVars, innerVars, backendVars, metaVars>>
\* ProxyFile.Close: close the write end, then wait for the upload's result.
Close ==
    /\ wpc = "close" /\ written
    /\ wpc' = "await" /\ outerClosed' = TRUE
    /\ UNCHANGED <<reqVars, written, sent, wres, placeholder, offer,
                   uploaderVars, encVars, innerVars, backendVars, metaVars>>

CloseIgnoringUpload ==
    /\ wpc = "await"
    /\ wpc' = "done" /\ wres' = Reply("ok")
    /\ UNCHANGED <<reqVars, written, sent, placeholder, outerVars, uploaderVars,
                   encVars, innerVars, backendVars, metaVars>>
CloseGivesUp ==
    /\ wpc = "await"
    /\ wpc' = "done" /\ wres' = IF ures = "none" THEN "err" ELSE Reply(ures)
    /\ UNCHANGED <<reqVars, written, sent, placeholder, outerVars, uploaderVars,
                   encVars, innerVars, backendVars, metaVars>>
CloseReturnsResult ==
    /\ wpc = "await" /\ ures # "none"
    /\ wpc' = "done" /\ wres' = Reply(ures)
    /\ UNCHANGED <<reqVars, written, sent, placeholder, outerVars, uploaderVars,
                   encVars, innerVars, backendVars, metaVars>>

Writer == Write \/ WriteReturns \/ CopyEnds \/ CloseEmpty \/ Close
              \/ CloseReturnsResult

-----------------------------------------------------------------------------
(* Encryptor: Engine.EncryptStream reading through countReader.            *)

\* EncryptStream ends: the pipe to the backend is closed with the error and
\* the error is sent to errChan.
EncryptEnds(err) ==
    /\ epc' = "done" /\ errChan' = err
    /\ innerEOF' = (err = "nil")

\* io.ReadFull takes a unit; a full buffer is sealed.
ReadUnit ==
    /\ epc = "read" /\ offer
    /\ offer' = FALSE
    /\ cr' = cr + 1 /\ buf' = buf + 1
    /\ epc' = IF buf + 1 = ChunkSize THEN "seal" ELSE "read"
    /\ UNCHANGED <<reqVars, writerVars, outerClosed, uploaderVars, last, errChan,
                   innerVars, backendVars, metaVars, placeholder>>

\* End of input: ErrUnexpectedEOF seals the partial chunk and then stops,
\* EOF stops at once.
ReadEOF ==
    /\ epc = "read" /\ ~offer /\ outerClosed
    /\ \/ buf > 0 /\ last' = TRUE /\ epc' = "seal" /\ UNCHANGED <<errChan, innerEOF>>
       \/ buf = 0 /\ EncryptEnds("nil") /\ UNCHANGED last
    /\ UNCHANGED <<reqVars, writerVars, outerVars, uploaderVars, buf, cr,
                   innerBroken, backendVars, metaVars, placeholder>>

\* w.Write fails because the backend closed the read end of the inner pipe.
SealFails ==
    /\ epc = "seal" /\ innerBroken
    /\ EncryptEnds("err")
    /\ UNCHANGED <<reqVars, writerVars, outerVars, uploaderVars, buf, last, cr,
                   innerBroken, backendVars, metaVars, placeholder>>

Encryptor == ReadUnit \/ ReadEOF \/ SealFails

-----------------------------------------------------------------------------
(* Backend: remote.Upload(remoteName, pr, encSize).                        *)

TakeFullChunk ==
    /\ bst = "reading" /\ epc = "seal"
    /\ got' = got + buf /\ tags' = tags + 1 /\ buf' = buf - ChunkSize
    /\ IF last THEN EncryptEnds("nil") ELSE epc' = "read" /\ UNCHANGED <<errChan, innerEOF>>
    /\ UNCHANGED <<reqVars, writerVars, outerVars, uploaderVars, last, cr,
                   innerBroken, bst, metaVars, placeholder>>
\* The backend reads the sealed chunk the encryptor is blocked on.
TakeChunk ==
    /\ bst = "reading" /\ epc = "seal"
    /\ got' = got + buf /\ tags' = tags + 1 /\ buf' = 0
    /\ IF last THEN EncryptEnds("nil") ELSE epc' = "read" /\ UNCHANGED <<errChan, innerEOF>>
    /\ UNCHANGED <<reqVars, writerVars, outerVars, uploaderVars, last, cr,
                   innerBroken, bst, metaVars, placeholder>>

\* A size was announced (Content-Length) and this backend enforces it; the
\* local client ignores its size argument.
Enforced == size > 0 /\ backend # "local"
LengthMatches == ~Enforced \/ got + tags * TagSize = CalculateEncryptedSize(size)

\* The whole stream was read and is stored.
AcceptAny == bst = "reading" /\ innerEOF
Accept == bst = "reading" /\ innerEOF /\ LengthMatches

UploadSucceeds ==
    /\ Accept
    /\ bst' = "ok"
    /\ UNCHANGED <<reqVars, writerVars, outerVars, uploaderVars, encVars,
                   innerVars, got, tags, metaVars, placeholder>>

\* A WebDAV server answers with success before the stream has ended.  net/http
\* returns the answer and closes the request body; what it still sent in the
\* meantime makes no difference to an answer that came a little later.
AnswersEarly ==
    /\ bst = "reading" /\ ~innerEOF
    /\ backend = "webdav" /\ "backend" \in faults
    /\ bst' = "ok" /\ innerBroken' = TRUE
    /\ UNCHANGED <<reqVars, writerVars, outerVars, uploaderVars, encVars,
                   innerEOF, got, tags, metaVars, placeholder>>

\* The transfer fails: a fault at any time, or a length mismatch at the end.
\* net/http closes a WebDAV request body, which is the pipe's read end, unless
\* the request failed before it was sent; the local client and minio get a
\* reader they never close.
UploadFails ==
    /\ bst = "reading"
    /\ "backend" \in faults \/ (innerEOF /\ ~LengthMatches)
    /\ bst' = "err"
    /\ innerBroken' \in {FALSE, backend = "webdav"}
    /\ UNCHANGED <<reqVars, writerVars, outerVars, uploaderVars, encVars,
                   innerEOF, got, tags, metaVars, placeholder>>

Backend == TakeChunk \/ UploadSucceeds \/ AnswersEarly \/ UploadFails

-----------------------------------------------------------------------------
(* Uploader: Proxy.UploadFile.                                             *)

\* The placeholder of an earlier empty PUT is removed; random FEK and salt,
\* FEK sealed with the master key, random remote name; then the encrypting
\* goroutine and remote.Upload are started.
StartUpload ==
    /\ upc = "start"
    /\ upc' = "upload" /\ epc' = "read" /\ bst' = "reading"
    /\ placeholder' = FALSE
    /\ UNCHANGED <<reqVars, writerVars, outerVars, ures, buf, last, cr, errChan,
                   innerVars, got, tags, metaVars>>

\* Early return: no randomness, or a master key that is not 32 bytes.
StartFails ==
    /\ upc = "start" /\ "start" \in faults
    /\ upc' = "done" /\ ures' = "err" /\ placeholder' = FALSE
    /\ UNCHANGED <<reqVars, writerVars, outerVars, encVars, innerVars,
                   backendVars, metaVars>>

\* remote.Upload returned; on an error UploadFile returns at once, leaving
\* the reader it was given open.
UploadReturnsUnchecked ==
    /\ upc = "upload" /\ bst \in {"ok", "err"}
    /\ upc' = "await" /\ ures' = ures
    /\ UNCHANGED <<reqVars, writerVars, outerVars, encVars, innerVars,
                   backendVars, metaVars, placeholder>>
UploadReturns ==
    /\ upc = "upload" /\ bst \in {"ok", "err"}
    /\ upc' = IF bst = "ok" THEN "await" ELSE "done"
    /\ ures' = IF bst = "ok" THEN ures ELSE "err"
    /\ UNCHANGED <<reqVars, writerVars, outerVars, encVars, innerVars,
                   backendVars, metaVars, placeholder>>

\* encErr := <-errChan
AwaitEncryptor ==
    /\ upc = "await" /\ errChan # "none"
    /\ upc' = IF errChan = "nil" THEN "save" ELSE "done"
    /\ ures' = IF errChan = "nil" THEN ures ELSE "err"
    /\ UNCHANGED <<reqVars, writerVars, outerVars, encVars, innerVars,
                   backendVars, metaVars, placeholder>>

\* meta.Save: os.WriteFile truncates the metadata file, then writes it.
SaveTruncates ==
    /\ upc = "save"
    /\ upc' = "saving" /\ meta' = "torn"
    /\ UNCHANGED <<reqVars, writerVars, outerVars, ures, encVars, innerVars,
                   backendVars, metaSize, placeholder>>

SaveWrites ==
    /\ upc = "saving"
    /\ upc' = "done" /\ ures' = "ok" /\ meta' = "new" /\ metaSize' = cr
    /\ UNCHANGED <<reqVars, writerVars, outerVars, encVars, innerVars,
                   backendVars, placeholder>>

\* MkdirAll or opening the file fails, or the write itself does.
SaveFails ==
    /\ upc \in {"save", "saving"} /\ "save" \in faults
    /\ upc' = "done" /\ ures' = "err"
    /\ UNCHANGED <<reqVars, writerVars, outerVars, encVars, innerVars,
                   backendVars, metaVars, placeholder>>

Uploader == StartUpload \/ StartFails \/ UploadReturns \/ AwaitEncryptor
                \/ SaveTruncates \/ SaveWrites \/ SaveFails

-----------------------------------------------------------------------------
\* PendingFileCache: after 30 seconds the placeholder is gone.
Expire ==
    /\ placeholder /\ placeholder' = FALSE
    /\ UNCHANGED <<reqVars, writerVars, outerVars, uploaderVars, encVars,
                   innerVars, backendVars, metaVars>>

\* The process dies; only the metadata file and the remote object survive.
Crash ==
    /\ "crash" \in faults /\ wpc # "dead"
    /\ wpc' = "dead" /\ upc' = "dead" /\ epc' = "dead"
    /\ bst' = IF bst = "ok" THEN "ok" ELSE "err"
    /\ placeholder' = FALSE
    /\ UNCHANGED <<reqVars, written, sent, wres, outerVars, ures,
                   buf, last, cr, errChan, innerVars, got, tags, metaVars>>

Next == Writer \/ Encryptor \/ Backend \/ Uploader \/ Expire \/ Crash

\* The goroutines run, the remote answers or fails, and the client sends or
\* disconnects; a crashed process takes no step.
Fairness ==
    /\ WF_vars(Writer)
    /\ WF_vars(Encryptor)
    /\ WF_vars(Backend)
    /\ WF_vars(Uploader)

Spec == Init /\ [][Next]_vars /\ Fairness

-----------------------------------------------------------------------------
\* The metadata of the path is not touched before the remote has answered with
\* success, taken the encryption of every byte that was read, and the encryptor
\* has ended without an error; it then records exactly that many bytes.  What
\* fails or is killed before that point leaves the previous version.  From
\* there on the code can lose it: a crash or a failing write leaves a torn
\* file, and nothing else does.
CommitComplete ==
    /\ meta # "old" => bst = "ok" /\ errChan = "nil" /\ got = cr
    /\ meta = "new" => metaSize = got
    /\ meta = "torn" => upc \in {"saving", "dead"} \/ ures = "err"

\* A client that is told its non-empty PUT succeeded sent the whole body, the
\* whole body is what metadata and remote object hold, and no placeholder of
\* an earlier empty PUT hides it.
SuccessMeansStored ==
    wres = "ok" /\ written =>
        meta = "new" /\ metaSize = len /\ got = len /\ ~placeholder

\* With a backend that enforces the announced length, and does so to the end of
\* the stream, a body that stops short of the length the client announced is
\* never committed.
AnnouncedLengthKept ==
    Enforced /\ ~innerBroken /\ meta # "old" => got = size

\* The request as its client and the readers of the path see it, however the
\* goroutines, pipes and failures interleave: one PUT of a body, or a
\* placeholder over the old document for a PUT of nothing.  Once
\* ProxyFile.Close has returned, nothing about the path changes but that the
\* placeholder goes.
Put == INSTANCE AtomicPut WITH body <- len, doc <- meta, docSize <- metaSize,
                               covered <- placeholder, reply <- wres
ImplementsAtomicPut == Put!Spec

\* Once the body was handed over, Close does come back, whatever fails.
CloseReturns == (wpc = "await") ~> (wpc \in {"done", "dead"})

\* Without faults, and with the announced size honest or absent, every PUT is
\* answered with success.
Delivered == faults = {} /\ size \in {0, len} => <>(wpc = "done" /\ wres = "ok")

\* "UploadFile closes pr when done reading" (filesystem.go): a writer inside
\* pipeWriter.Write is released when UploadFile has returned.
WriterReleased == (wpc = "write") ~> (wpc # "write")
=============================================================================
