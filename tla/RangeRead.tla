------------------------------ MODULE RangeRead ------------------------------
(***************************************************************************)
(* Reading part of an encrypted file: ProxyFile.Read (WebDAV) and FUSE     *)
(* Read over Proxy.DownloadRange, the remote's DownloadRange and           *)
(* Engine.DecryptStreamFrom.                                               *)
(*                                                                         *)
(* The object holds, chunk after chunk, the sealed form of ChunkSize       *)
(* plaintext bytes; the last chunk may be shorter.  A byte range is an     *)
(* interval [lo, hi), of the plaintext or of the object.                   *)
(*                                                                         *)
(* A WebDAV reader (http.ServeContent) keeps a ProxyFile open, seeks and   *)
(* reads; the file's size was looked up when it was opened, and each       *)
(* reopening of the stream looks the metadata up again, which an upload    *)
(* may have replaced.  A FUSE read is one call.                            *)
(*                                                                         *)
(* Decryption runs beside the reader; what a call can tell apart is which  *)
(* plaintext came and how the stream ended, so the stream is decrypted     *)
(* first and then delivered.                                               *)
(***************************************************************************)
EXTENDS Integers, FiniteSetsExt

CONSTANTS ChunkSize, TagSize,  \* as in crypto/engine.go, scaled down
          MaxSize,             \* bound: largest file
          Clients,             \* who reads: "dav", "fuse"
          Backends,            \* remote storage types in use
          Faults               \* what may go wrong, see FaultKinds

\* "fetch": the file or its object is gone, or the remote refuses; "cut": the
\* remote's stream stops before its end; "placeholder": an empty PUT covers
\* the file for a while.
FaultKinds == {"fetch", "cut", "placeholder"}

ASSUME ChunkAssumption == ChunkSize \in Nat \ {0} /\ TagSize \in Nat \ {0}
ASSUME BoundAssumption == MaxSize \in Nat
ASSUME ClientAssumption == Clients \subseteq {"dav", "fuse"}
ASSUME BackendAssumption == Backends \subseteq {"local", "s3", "partial", "full"}
ASSUME FaultAssumption == Faults \subseteq FaultKinds

CipherChunkSize == ChunkSize + TagSize

VARIABLES
    client, backend,  \* who reads, and from which remote
    openSize,         \* f.meta.Size: the size when the file was opened
    current,          \* the size in the metadata now
    replaced,         \* another upload has replaced the file
    offset, length,   \* f.offset; what is asked of DownloadRange
    size,             \* meta.Size in DownloadRange
    pc,
    chunk, endChunk,  \* DownloadRange: first (then current) and last chunk
    stream,           \* the part of the object still to be read
    cut,              \* "no", or how the stream stops early: "end", "reset"
    plain,            \* plaintext that is decrypted and not yet read
    ending            \* what comes after it: "eof", "refused", "broken"

file == <<client, backend, openSize, current, replaced>>
request == <<offset, length, size>>
outcome == <<cut, ending>>
download == <<chunk, endChunk, stream, plain, outcome>>
vars == <<file, request, pc, download>>

Interval == [lo : Nat, hi : Nat]
None == [lo |-> 0, hi |-> 0]

TypeOK ==
    /\ client \in Clients /\ backend \in Backends /\ replaced \in BOOLEAN
    /\ openSize \in 0..MaxSize /\ current \in 0..MaxSize /\ size \in 0..MaxSize
    /\ offset \in Nat /\ length \in Int
    /\ pc \in {"idle", "open", "fetch", "decrypt", "deliver", "reading", "eof", "done",
               "error"}
    /\ cut \in {"no", "end", "reset"} /\ ending \in {"eof", "refused", "broken"}
    /\ chunk \in Nat /\ endChunk \in Nat
    /\ stream \in Interval /\ plain \in Interval
    \* A stream that is read is the stream of a file that has bytes.
    /\ pc \in {"fetch", "decrypt", "deliver", "reading"} => offset <= size /\ size > 0

\* WebDAV has opened the file; the kernel asks for a number of bytes.
Init ==
    /\ client \in Clients /\ backend \in Backends
    /\ openSize \in 0..MaxSize /\ current = openSize /\ replaced = FALSE
    /\ \/ client = "dav" /\ pc = "idle" /\ offset = 0 /\ length = 0
       \/ client = "fuse" /\ pc = "open" /\ offset \in 0..MaxSize /\ length \in 1..MaxSize
    /\ size = 0 /\ chunk = 0 /\ endChunk = 0
    /\ stream = None /\ plain = None /\ cut = "no" /\ ending = "eof"

\* An upload saves new metadata, with a new object.
Replace(n) ==
    /\ client = "dav" /\ ~replaced
    /\ current' = n /\ replaced' = TRUE
    /\ UNCHANGED <<client, backend, openSize, request, pc, download>>

-----------------------------------------------------------------------------
(* ProxyFile: Seek and the start of Read *)

\* ProxyFile.Seek to another place drops the stream.
SeekKeepsReader(o) ==
    /\ client = "dav" /\ pc \in {"idle", "reading", "eof", "error"} /\ o # offset
    /\ offset' = o
    /\ UNCHANGED <<file, pc, download, length, size>>
Seek(o) ==
    /\ client = "dav" /\ pc \in {"idle", "reading", "eof", "error"} /\ o # offset
    /\ offset' = o /\ length' = 0 /\ size' = 0
    /\ pc' = "idle"
    /\ chunk' = 0 /\ endChunk' = 0 /\ stream' = None /\ plain' = None
    /\ cut' = "no" /\ ending' = "eof"
    /\ UNCHANGED file

\* Read without a stream asks for the rest of the file, as long as it was when
\* the file was opened.
AtEnd == openSize > 0 /\ offset >= openSize
ReadAtEnd ==
    /\ client = "dav" /\ pc = "idle" /\ AtEnd
    /\ pc' = "eof"
    /\ UNCHANGED <<file, request, download>>

ReadOpens ==
    /\ client = "dav" /\ pc = "idle" /\ ~AtEnd
    /\ length' = openSize - offset
    /\ pc' = "open"
    /\ UNCHANGED <<file, offset, size, download>>

-----------------------------------------------------------------------------
(* DownloadRange *)

Chunks(n) == (n + ChunkSize - 1) \div ChunkSize
ObjectSize == size + Chunks(size) * TagSize

\* Plaintext bytes in chunk i of the file.
ChunkLen(i) == Min({ChunkSize, size - i * ChunkSize})

\* DownloadRange: length cut to the end of the file, then the last chunk, not
\* beyond the last one there is.
EffectiveLength ==
    IF length > 0 /\ offset + length > size THEN size - offset ELSE length
LastChunkRoundedUp ==
    Min({(offset + EffectiveLength) \div ChunkSize, Chunks(size) - 1})
LastChunk ==
    LET wanted == IF EffectiveLength > 0
                  THEN (offset + EffectiveLength - 1) \div ChunkSize
                  ELSE offset \div ChunkSize
    IN  Min({wanted, Chunks(size) - 1})

EncStartOneBased(i) == (i - 1) * CipherChunkSize
EncStart(i) == i * CipherChunkSize

\* One sealed chunk, or the full chunks between the first and the last one
\* plus these two.
EncLengthNoTag(i, j) ==
    IF i = j THEN ChunkLen(i) + TagSize
    ELSE (j - i - 1) * CipherChunkSize + (ChunkLen(i) + TagSize) + ChunkLen(j)
EncLength(i, j) ==
    IF i = j THEN ChunkLen(i) + TagSize
    ELSE (j - i - 1) * CipherChunkSize + (ChunkLen(i) + TagSize) + (ChunkLen(j) + TagSize)

\* Nothing to read at or past the end of the file as it is now, or of the
\* placeholder that covers it.
OpenAtEnd ==
    /\ pc = "open"
    /\ \/ size' = current /\ (current = 0 \/ offset >= current)
       \/ size' = 0 /\ "placeholder" \in Faults
    /\ pc' = IF client = "dav" THEN "eof" ELSE "done"
    /\ UNCHANGED <<file, offset, length, download>>

OpenRange ==
    /\ pc = "open" /\ current > 0 /\ offset < current
    /\ size' = current /\ UNCHANGED <<file, offset, length, stream, plain, outcome>>
    /\ chunk' = offset \div ChunkSize /\ endChunk' = LastChunk'
    /\ pc' = "fetch"

\* The remote's DownloadRange.  The local file is limited to n bytes; S3 cuts
\* n to the object first and without a length reads to the end; a WebDAV
\* server answers with the part, or with the whole object, of which the client
\* skips the start and keeps n bytes.
RemoteRange(start, n) ==
    LET kept == IF n > 0 /\ start + n > ObjectSize THEN Max({ObjectSize - start, 0}) ELSE n
        stop == CASE backend = "local"   -> IF n <= 0 THEN ObjectSize ELSE start + n
                  [] backend = "s3"      -> IF kept > 0 THEN start + kept ELSE ObjectSize
                  [] backend = "partial" -> IF n > 0 THEN start + n ELSE ObjectSize
                  [] backend = "full"    -> start + Max({n, 0})
    IN  [lo |-> start, hi |-> Min({stop, ObjectSize})]

\* The stream may stop before its end: like the end of a file (io.EOF and
\* io.ErrUnexpectedEOF are one to DecryptStreamFrom), or with another error.
Fetch ==
    /\ pc = "fetch"
    /\ LET range == RemoteRange(EncStart(chunk), EncLength(chunk, endChunk))
       IN  \/ stream' = range /\ cut' = "no"
          \/ /\ "cut" \in Faults
             /\ \E at \in range.lo..(range.hi - 1) : stream' = [range EXCEPT !.hi = at]
             /\ cut' \in {"end", "reset"}
    /\ plain' = [lo |-> chunk * ChunkSize, hi |-> chunk * ChunkSize]
    /\ ending' = "eof"
    /\ pc' = "decrypt"
    /\ UNCHANGED <<file, request, chunk, endChunk>>

\* DownloadRange returns an error; ProxyFile has no stream then, and the next
\* Read tries again.
FetchFails ==
    /\ pc \in {"open", "fetch"} /\ "fetch" \in Faults
    /\ pc' = IF client = "dav" THEN "idle" ELSE "error"
    /\ UNCHANGED <<file, request, download>>

\* GCM opens a piece only if it is one whole sealed chunk, under the nonce of
\* that chunk's index.
Opens(lo, hi, i) == lo = EncStart(i) /\ hi = lo + ChunkLen(i) + TagSize

\* DecryptStreamFrom: ReadFull of a sealed chunk, or of what is left.  A piece
\* that GCM refuses ends the stream with an error.
DecryptChunk ==
    /\ pc = "decrypt" /\ stream.lo < stream.hi
    /\ LET next == Min({stream.lo + CipherChunkSize, stream.hi})
       IN  \/ /\ Opens(stream.lo, next, chunk)
             /\ stream' = [stream EXCEPT !.lo = next]
             /\ plain' = [plain EXCEPT !.hi = @ + ChunkLen(chunk)]
             /\ chunk' = chunk + 1
             /\ UNCHANGED <<pc, ending>>
          \/ /\ ~Opens(stream.lo, next, chunk)
             /\ pc' = "deliver" /\ ending' = "refused"
             /\ UNCHANGED <<stream, plain, chunk>>
    /\ UNCHANGED <<file, request, endChunk, cut>>

\* Nothing is left: a stream that stopped like the end of a file is taken for
\* one that was read to its end.
StreamEnds ==
    /\ pc = "decrypt" /\ stream.lo = stream.hi
    /\ pc' = "deliver"
    /\ ending' = IF cut = "reset" THEN "broken" ELSE "eof"
    /\ UNCHANGED <<file, request, chunk, endChunk, stream, plain, cut>>

-----------------------------------------------------------------------------
(* Delivery *)

\* ProxyFile.Read discards the bytes between the start of the first chunk and
\* the offset.
Skip == offset % ChunkSize
DeliverDav ==
    /\ pc = "deliver" /\ client = "dav" /\ plain.lo + Skip <= plain.hi
    /\ plain' = [plain EXCEPT !.lo = @ + Skip]
    /\ pc' = "reading"
    /\ UNCHANGED <<file, request, chunk, endChunk, stream, outcome>>

\* The stream ends among them: the stream is dropped, and Read returns how it
\* ended.
SkipFails ==
    /\ pc = "deliver" /\ client = "dav" /\ plain.lo + Skip > plain.hi
    /\ pc' = IF ending = "eof" THEN "eof" ELSE "idle"
    /\ UNCHANGED <<file, request, download>>

\* A Read of the stream; the pipe hands out no more than a chunk at a time.
Read(n) ==
    /\ pc = "reading" /\ plain.lo + n <= plain.hi
    /\ (plain.lo % ChunkSize) + n <= ChunkSize
    /\ plain' = [plain EXCEPT !.lo = @ + n]
    /\ offset' = offset + n
    /\ UNCHANGED <<file, length, size, pc, chunk, endChunk, stream, outcome>>

\* After the last byte Read returns how the stream ended.
ReadEnds ==
    /\ pc = "reading" /\ plain.lo = plain.hi
    /\ pc' = IF ending = "eof" THEN "eof" ELSE "error"
    /\ UNCHANGED <<file, request, download>>

\* FUSE Read does one Read of the decrypting pipe, from the start of the
\* stream; an error shows only where there is nothing to read.
DeliverFuse ==
    /\ pc = "deliver" /\ client = "fuse"
    /\ plain' = [plain EXCEPT !.hi = plain.lo + Min({length, ChunkSize, plain.hi - plain.lo})]
    /\ pc' = IF plain.lo = plain.hi /\ ending # "eof" THEN "error" ELSE "done"
    /\ UNCHANGED <<file, request, chunk, endChunk, stream, outcome>>

Step == OpenAtEnd \/ OpenRange \/ Fetch \/ FetchFails \/ DecryptChunk \/ StreamEnds
          \/ DeliverDav \/ SkipFails \/ DeliverFuse

Next == \/ Step \/ ReadAtEnd \/ ReadOpens \/ ReadEnds
        \/ \E n \in 1..ChunkSize : Read(n)
        \/ \E o \in 0..MaxSize : Seek(o)
        \/ \E n \in 0..MaxSize : Replace(n)

Spec == Init /\ [][Next]_vars

-----------------------------------------------------------------------------
\* Every range DownloadRange asks for is a run of whole sealed chunks: as long
\* as the remote's stream comes to its end, GCM never sees a torn one, and no
\* byte outside the object is asked for, though the length comes from a size
\* that may be out of date.
RangesDecrypt ==
    /\ ending = "refused" => cut # "no"
    /\ pc = "fetch" =>
         EncStart(chunk) + EncLength(chunk, endChunk) <= ObjectSize

\* What was decrypted contains what was asked for, as far as the file goes and
\* the remote's stream came to its end, and nothing beyond the chunks that it
\* touches: a seek does not download the rest of the file for a short read.
RangeCovered ==
    pc = "deliver" =>
        /\ plain.lo <= offset /\ offset - plain.lo < ChunkSize
        /\ cut = "no" => plain.hi >= Min({size, offset + Max({length, 0})})
        /\ plain.hi < offset + Max({length, 1}) + ChunkSize

\* Whatever was sought, read and replaced before, and however the remote fails:
\* the next byte a WebDAV reader gets is the one at its offset, and it meets
\* the end of the file neither before the end of the version it reads (a
\* placeholder is a version of no bytes) nor before that of the version it
\* opened, whichever is shorter.  The exception is what the code cannot tell
\* from the end of a file: a remote's stream that stopped early with io.EOF or
\* io.ErrUnexpectedEOF, between two chunks.  A stream that stopped with another
\* error is never taken for the end of the file.
DavReadExact ==
    client = "dav" =>
        /\ pc = "reading" => plain.lo = offset
        /\ pc = "eof" => \/ offset >= Min({openSize, size})
                         \/ AtEnd
                         \/ cut = "end" /\ stream.lo = stream.hi

\* "Discard bytes to align with f.offset" (filesystem.go) is what every
\* caller of DownloadRange owes its reader: the first byte handed out is the
\* one at the offset asked for.
ReadAligned == pc = "done" /\ offset < size => plain.lo = offset
=============================================================================
