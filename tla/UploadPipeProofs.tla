-------------------------- MODULE UploadPipeProofs --------------------------
(***************************************************************************)
(* For every chunk size, body length, announced size, backend and set of   *)
(* faults: metadata is replaced only after the whole object is stored, and *)
(* a PUT that is answered with success is stored in full.                  *)
(***************************************************************************)
EXTENDS UploadPipe, TLAPS

\* Every unit read from the writer is in the chunk buffer or at the backend.
Conservation == got + buf = cr

\* How far the encryptor is, as seen by the parties that wait for it.
EncryptorDone ==
    /\ errChan # "none" => epc \in {"done", "dead"}
    /\ errChan = "nil" => buf = 0
    /\ innerEOF => errChan = "nil"
    /\ bst = "ok" => innerEOF \/ innerBroken

\* UploadFile does its steps in order: store, join the encryptor, commit.
UploadOrder ==
    /\ upc \in {"idle", "start"} => epc = "idle" /\ bst = "idle" /\ errChan = "none"
    /\ upc \in {"await", "save", "saving"} => bst = "ok"
    /\ upc \in {"idle", "start", "upload", "await", "save"} => meta = "old"
    /\ upc = "saving" => meta = "torn"
    /\ meta # "old" => bst = "ok"
    /\ meta # "old" \/ upc \in {"save", "saving"} => errChan = "nil"
    /\ meta = "torn" => upc \in {"saving", "dead"} \/ ures = "err"
    /\ meta = "new" => metaSize = cr
    /\ ures # "none" => upc \in {"done", "dead"}
    /\ ures = "ok" => meta = "new"

\* The unbuffered pipe: what the writer handed over is what was counted.
PipeBalance ==
    /\ wpc = "write" => (IF offer THEN cr = sent ELSE cr = sent + 1)
    /\ wpc \in {"copy", "close", "await", "done"} => ~offer /\ cr = sent
    /\ upc = "dead" => wpc = "dead"
    /\ ~written => upc \in {"idle", "dead"}
    /\ wres # "none" => wpc \in {"done", "dead"}
    /\ wres = "ok" => sent = len /\ cr = len /\ ~offer /\ (written => ures = "ok")

\* The writer's side of the answer: nothing is stored of an empty body, the
\* encryptor stops only at the end of what was handed over, ProxyFile.Close
\* answers after UploadFile, and UploadFile begins by removing a placeholder.
Answering ==
    /\ written => len >= 1
    /\ sent <= len
    /\ wpc = "write" => sent < len
    /\ ~written => sent = 0 /\ wpc # "write"
    /\ written /\ wpc \in {"copy", "close", "await", "done"} => sent >= 1
    /\ outerClosed => wpc \in {"await", "done", "dead"}
    /\ last \/ errChan = "nil" => outerClosed
    /\ wpc = "dead" => upc = "dead"
    /\ wres # "none" /\ written => ures # "none"
    /\ written /\ upc \notin {"idle", "start"} => ~placeholder

\* Chunks: those at the backend are full but for the last one, the encryptor
\* seals a full one or, at the end, what is left, and what a backend accepted
\* at the end of the stream is as long as announced.
Chunking ==
    /\ got <= tags * ChunkSize /\ (tags - 1) * ChunkSize < got
    /\ epc \in {"idle", "read", "seal"} => got = tags * ChunkSize
    /\ epc \in {"idle", "read"} => buf < ChunkSize /\ ~last
    /\ epc = "seal" => buf \in 1..ChunkSize /\ (last \/ buf = ChunkSize)
    /\ bst = "ok" => LengthMatches \/ innerBroken

IInv == TypeOK /\ Conservation /\ EncryptorDone /\ UploadOrder /\ PipeBalance
          /\ Answering /\ Chunking

-----------------------------------------------------------------------------
\* Every step keeps every variable in its type.
LEMMA TypeStep ==
    ASSUME TypeOK, [Next]_vars
    PROVE  TypeOK'
<1> USE ChunkAssumption, InputAssumption DEF TypeOK, vars, reqVars,
   writerVars, outerVars, uploaderVars, encVars, innerVars,
          backendVars, metaVars
<1>1. CASE Write
  BY <1>1 DEF Write
<1>2. CASE WriteReturns
  BY <1>2 DEF WriteReturns
<1>3. CASE CopyEnds
  BY <1>3 DEF CopyEnds
<1>4. CASE CloseEmpty
  BY <1>4 DEF CloseEmpty, Reply
<1>5. CASE Close
  BY <1>5 DEF Close
<1>6. CASE CloseReturnsResult
  BY <1>6 DEF CloseReturnsResult, Reply
<1>7. CASE ReadUnit
  <2>1. cr' \in Nat /\ buf' \in Nat
    BY <1>7 DEF ReadUnit
  <2>2. epc' \in {"read", "seal"} /\ offer' \in BOOLEAN
    BY <1>7 DEF ReadUnit
  <2>3. QED
    BY <1>7, <2>1, <2>2 DEF ReadUnit
<1>8. CASE ReadEOF
  <2>1. /\ epc' \in {"seal", "done"} /\ last' \in BOOLEAN
        /\ errChan' \in {"none", "nil", "err"} /\ innerEOF' \in BOOLEAN
    BY <1>8 DEF ReadEOF, EncryptEnds
  <2>2. QED
    BY <1>8, <2>1 DEF ReadEOF
<1>9. CASE SealFails
  BY <1>9 DEF SealFails, EncryptEnds
<1>10. CASE TakeChunk
  BY <1>10 DEF TakeChunk, EncryptEnds
<1>11. CASE UploadSucceeds
  BY <1>11 DEF UploadSucceeds, Accept
<1>12. CASE UploadFails
  <2>1. innerBroken' \in BOOLEAN
    BY <1>12 DEF UploadFails
  <2>2. QED
    BY <1>12, <2>1 DEF UploadFails
<1>13. CASE StartUpload
  <2>1. placeholder' \in BOOLEAN
    BY <1>13 DEF StartUpload
  <2>2. QED
    BY <1>13, <2>1 DEF StartUpload
<1>14. CASE StartFails
  <2>1. placeholder' \in BOOLEAN
    BY <1>14 DEF StartFails
  <2>2. QED
    BY <1>14, <2>1 DEF StartFails
<1>15. CASE UploadReturns
  BY <1>15 DEF UploadReturns
<1>16. CASE AwaitEncryptor
  BY <1>16 DEF AwaitEncryptor
<1>17. CASE SaveTruncates
  BY <1>17 DEF SaveTruncates
<1>18. CASE SaveWrites
  BY <1>18 DEF SaveWrites
<1>19. CASE SaveFails
  BY <1>19 DEF SaveFails
<1>20. CASE Crash
  <2>1. placeholder' \in BOOLEAN
    BY <1>20 DEF Crash
  <2>2. QED
    BY <1>20, <2>1 DEF Crash
<1>21. CASE UNCHANGED vars
  BY <1>21
<1>22. CASE AnswersEarly
  BY <1>22 DEF AnswersEarly
<1>23. CASE Expire
  <2>1. placeholder' \in BOOLEAN
    BY <1>23 DEF Expire
  <2>2. QED
    BY <1>23, <2>1 DEF Expire
<1>24. QED
  BY <1>1, <1>2, <1>3, <1>4, <1>5, <1>6, <1>7, <1>8, <1>9, <1>10, <1>11,
     <1>12, <1>13, <1>14, <1>15, <1>16, <1>17, <1>18, <1>19, <1>20, <1>21,
     <1>22, <1>23
  DEF Next, Writer, Encryptor, Backend, Uploader

\* No unit is lost between the writer's pipe and the backend.
LEMMA ConservationStep ==
    ASSUME TypeOK, Conservation, [Next]_vars
    PROVE  Conservation'
<1> USE ChunkAssumption, InputAssumption DEF TypeOK, Conservation, vars,
   reqVars, writerVars, outerVars, uploaderVars, encVars, innerVars,
          backendVars, metaVars
<1>1. CASE Write
  BY <1>1 DEF Write
<1>2. CASE WriteReturns
  BY <1>2 DEF WriteReturns
<1>3. CASE CopyEnds
  BY <1>3 DEF CopyEnds
<1>4. CASE CloseEmpty
  BY <1>4 DEF CloseEmpty, Reply
<1>5. CASE Close
  BY <1>5 DEF Close
<1>6. CASE CloseReturnsResult
  BY <1>6 DEF CloseReturnsResult, Reply
<1>7. CASE ReadUnit
  BY <1>7 DEF ReadUnit
<1>8. CASE ReadEOF
  BY <1>8 DEF ReadEOF, EncryptEnds
<1>9. CASE SealFails
  BY <1>9 DEF SealFails, EncryptEnds
<1>10. CASE TakeChunk
  BY <1>10 DEF TakeChunk, EncryptEnds
<1>11. CASE UploadSucceeds
  BY <1>11 DEF UploadSucceeds, Accept
<1>12. CASE UploadFails
  BY <1>12 DEF UploadFails
<1>13. CASE StartUpload
  BY <1>13 DEF StartUpload
<1>14. CASE StartFails
  BY <1>14 DEF StartFails
<1>15. CASE UploadReturns
  BY <1>15 DEF UploadReturns
<1>16. CASE AwaitEncryptor
  BY <1>16 DEF AwaitEncryptor
<1>17. CASE SaveTruncates
  BY <1>17 DEF SaveTruncates
<1>18. CASE SaveWrites
  BY <1>18 DEF SaveWrites
<1>19. CASE SaveFails
  BY <1>19 DEF SaveFails
<1>20. CASE Crash
  BY <1>20 DEF Crash
<1>21. CASE UNCHANGED vars
  BY <1>21
<1>22. CASE AnswersEarly
  BY <1>22 DEF AnswersEarly
<1>23. CASE Expire
  BY <1>23 DEF Expire
<1>24. QED
  BY <1>1, <1>2, <1>3, <1>4, <1>5, <1>6, <1>7, <1>8, <1>9, <1>10, <1>11,
     <1>12, <1>13, <1>14, <1>15, <1>16, <1>17, <1>18, <1>19, <1>20, <1>21,
     <1>22, <1>23
  DEF Next, Writer, Encryptor, Backend, Uploader

\* The encryptor reports success only with an empty buffer, and the backend
\* stores the object only after that.
LEMMA EncryptorDoneStep ==
    ASSUME TypeOK, UploadOrder, EncryptorDone, [Next]_vars
    PROVE  EncryptorDone'
<1> USE ChunkAssumption, InputAssumption DEF TypeOK, UploadOrder,
   EncryptorDone, vars, reqVars, writerVars, outerVars, uploaderVars, encVars,
   innerVars,
          backendVars, metaVars
<1>1. CASE Write
  BY <1>1 DEF Write
<1>2. CASE WriteReturns
  BY <1>2 DEF WriteReturns
<1>3. CASE CopyEnds
  BY <1>3 DEF CopyEnds
<1>4. CASE CloseEmpty
  BY <1>4 DEF CloseEmpty, Reply
<1>5. CASE Close
  BY <1>5 DEF Close
<1>6. CASE CloseReturnsResult
  BY <1>6 DEF CloseReturnsResult, Reply
<1>7. CASE ReadUnit
  BY <1>7 DEF ReadUnit
<1>8. CASE ReadEOF
  BY <1>8 DEF ReadEOF, EncryptEnds
<1>9. CASE SealFails
  BY <1>9 DEF SealFails, EncryptEnds
<1>10. CASE TakeChunk
  BY <1>10 DEF TakeChunk, EncryptEnds
<1>11. CASE UploadSucceeds
  BY <1>11 DEF UploadSucceeds, Accept
<1>12. CASE UploadFails
  BY <1>12 DEF UploadFails
<1>13. CASE StartUpload
  BY <1>13 DEF StartUpload
<1>14. CASE StartFails
  BY <1>14 DEF StartFails
<1>15. CASE UploadReturns
  BY <1>15 DEF UploadReturns
<1>16. CASE AwaitEncryptor
  BY <1>16 DEF AwaitEncryptor
<1>17. CASE SaveTruncates
  BY <1>17 DEF SaveTruncates
<1>18. CASE SaveWrites
  BY <1>18 DEF SaveWrites
<1>19. CASE SaveFails
  BY <1>19 DEF SaveFails
<1>20. CASE Crash
  BY <1>20 DEF Crash
<1>21. CASE UNCHANGED vars
  BY <1>21
<1>22. CASE AnswersEarly
  BY <1>22 DEF AnswersEarly
<1>23. CASE Expire
  BY <1>23 DEF Expire
<1>24. QED
  BY <1>1, <1>2, <1>3, <1>4, <1>5, <1>6, <1>7, <1>8, <1>9, <1>10, <1>11,
     <1>12, <1>13, <1>14, <1>15, <1>16, <1>17, <1>18, <1>19, <1>20, <1>21,
     <1>22, <1>23
  DEF Next, Writer, Encryptor, Backend, Uploader

\* The uploader's program order.
LEMMA UploadOrderStep ==
    ASSUME TypeOK, EncryptorDone, PipeBalance, UploadOrder, [Next]_vars
    PROVE  UploadOrder'
<1> USE ChunkAssumption, InputAssumption DEF TypeOK, EncryptorDone,
   PipeBalance, UploadOrder, vars, reqVars, writerVars, outerVars,
   uploaderVars, encVars, innerVars,
          backendVars, metaVars
<1>1. CASE Write
  BY <1>1 DEF Write
<1>2. CASE WriteReturns
  BY <1>2 DEF WriteReturns
<1>3. CASE CopyEnds
  BY <1>3 DEF CopyEnds
<1>4. CASE CloseEmpty
  BY <1>4 DEF CloseEmpty, Reply
<1>5. CASE Close
  BY <1>5 DEF Close
<1>6. CASE CloseReturnsResult
  BY <1>6 DEF CloseReturnsResult, Reply
<1>7. CASE ReadUnit
  BY <1>7 DEF ReadUnit
<1>8. CASE ReadEOF
  BY <1>8 DEF ReadEOF, EncryptEnds
<1>9. CASE SealFails
  BY <1>9 DEF SealFails, EncryptEnds
<1>10. CASE TakeChunk
  BY <1>10 DEF TakeChunk, EncryptEnds
<1>11. CASE UploadSucceeds
  BY <1>11 DEF UploadSucceeds, Accept
<1>12. CASE UploadFails
  BY <1>12 DEF UploadFails
<1>13. CASE StartUpload
  BY <1>13 DEF StartUpload
<1>14. CASE StartFails
  BY <1>14 DEF StartFails
<1>15. CASE UploadReturns
  BY <1>15 DEF UploadReturns
<1>16. CASE AwaitEncryptor
  BY <1>16 DEF AwaitEncryptor
<1>17. CASE SaveTruncates
  BY <1>17 DEF SaveTruncates
<1>18. CASE SaveWrites
  BY <1>18 DEF SaveWrites
<1>19. CASE SaveFails
  BY <1>19 DEF SaveFails
<1>20. CASE Crash
  BY <1>20 DEF Crash
<1>21. CASE UNCHANGED vars
  BY <1>21
<1>22. CASE AnswersEarly
  BY <1>22 DEF AnswersEarly
<1>23. CASE Expire
  BY <1>23 DEF Expire
<1>24. QED
  BY <1>1, <1>2, <1>3, <1>4, <1>5, <1>6, <1>7, <1>8, <1>9, <1>10, <1>11,
     <1>12, <1>13, <1>14, <1>15, <1>16, <1>17, <1>18, <1>19, <1>20, <1>21,
     <1>22, <1>23
  DEF Next, Writer, Encryptor, Backend, Uploader

\* The writer and the encryptor agree on the number of units handed over.
LEMMA PipeBalanceStep ==
    ASSUME TypeOK, UploadOrder, PipeBalance, [Next]_vars
    PROVE  PipeBalance'
<1> USE ChunkAssumption, InputAssumption DEF TypeOK, UploadOrder, PipeBalance,
   vars, reqVars, writerVars, outerVars, uploaderVars, encVars, innerVars,
          backendVars, metaVars
<1>1. CASE Write
  BY <1>1 DEF Write
<1>2. CASE WriteReturns
  BY <1>2 DEF WriteReturns
<1>3. CASE CopyEnds
  BY <1>3 DEF CopyEnds
<1>4. CASE CloseEmpty
  BY <1>4 DEF CloseEmpty, Reply
<1>5. CASE Close
  BY <1>5 DEF Close
<1>6. CASE CloseReturnsResult
  BY <1>6 DEF CloseReturnsResult, Reply
<1>7. CASE ReadUnit
  BY <1>7 DEF ReadUnit
<1>8. CASE ReadEOF
  BY <1>8 DEF ReadEOF, EncryptEnds
<1>9. CASE SealFails
  BY <1>9 DEF SealFails, EncryptEnds
<1>10. CASE TakeChunk
  BY <1>10 DEF TakeChunk, EncryptEnds
<1>11. CASE UploadSucceeds
  BY <1>11 DEF UploadSucceeds, Accept
<1>12. CASE UploadFails
  BY <1>12 DEF UploadFails
<1>13. CASE StartUpload
  BY <1>13 DEF StartUpload
<1>14. CASE StartFails
  BY <1>14 DEF StartFails
<1>15. CASE UploadReturns
  BY <1>15 DEF UploadReturns
<1>16. CASE AwaitEncryptor
  BY <1>16 DEF AwaitEncryptor
<1>17. CASE SaveTruncates
  BY <1>17 DEF SaveTruncates
<1>18. CASE SaveWrites
  BY <1>18 DEF SaveWrites
<1>19. CASE SaveFails
  BY <1>19 DEF SaveFails
<1>20. CASE Crash
  BY <1>20 DEF Crash
<1>21. CASE UNCHANGED vars
  BY <1>21
<1>22. CASE AnswersEarly
  BY <1>22 DEF AnswersEarly
<1>23. CASE Expire
  BY <1>23 DEF Expire
<1>24. QED
  BY <1>1, <1>2, <1>3, <1>4, <1>5, <1>6, <1>7, <1>8, <1>9, <1>10, <1>11,
     <1>12, <1>13, <1>14, <1>15, <1>16, <1>17, <1>18, <1>19, <1>20, <1>21,
     <1>22, <1>23
  DEF Next, Writer, Encryptor, Backend, Uploader

\* The answer waits for the upload, and the encryptor for the end of the body.
LEMMA AnsweringStep ==
    ASSUME TypeOK, UploadOrder, PipeBalance, Answering, [Next]_vars
    PROVE  Answering'
<1> USE ChunkAssumption, InputAssumption DEF TypeOK, UploadOrder, PipeBalance, Answering,
   vars, reqVars, writerVars, outerVars, uploaderVars, encVars, innerVars,
          backendVars, metaVars
<1>1. CASE Write
  BY <1>1 DEF Write
<1>2. CASE WriteReturns
  BY <1>2 DEF WriteReturns
<1>3. CASE CopyEnds
  BY <1>3 DEF CopyEnds
<1>4. CASE CloseEmpty
  BY <1>4 DEF CloseEmpty, Reply
<1>5. CASE Close
  BY <1>5 DEF Close
<1>6. CASE CloseReturnsResult
  BY <1>6 DEF CloseReturnsResult, Reply
<1>7. CASE ReadUnit
  BY <1>7 DEF ReadUnit
<1>8. CASE ReadEOF
  BY <1>8 DEF ReadEOF, EncryptEnds
<1>9. CASE SealFails
  BY <1>9 DEF SealFails, EncryptEnds
<1>10. CASE TakeChunk
  BY <1>10 DEF TakeChunk, EncryptEnds
<1>11. CASE UploadSucceeds
  BY <1>11 DEF UploadSucceeds, Accept
<1>12. CASE UploadFails
  BY <1>12 DEF UploadFails
<1>13. CASE StartUpload
  BY <1>13 DEF StartUpload
<1>14. CASE StartFails
  BY <1>14 DEF StartFails
<1>15. CASE UploadReturns
  BY <1>15 DEF UploadReturns
<1>16. CASE AwaitEncryptor
  BY <1>16 DEF AwaitEncryptor
<1>17. CASE SaveTruncates
  BY <1>17 DEF SaveTruncates
<1>18. CASE SaveWrites
  BY <1>18 DEF SaveWrites
<1>19. CASE SaveFails
  BY <1>19 DEF SaveFails
<1>20. CASE Crash
  BY <1>20 DEF Crash
<1>21. CASE UNCHANGED vars
  BY <1>21
<1>22. CASE AnswersEarly
  BY <1>22 DEF AnswersEarly
<1>23. CASE Expire
  BY <1>23 DEF Expire
<1>24. QED
  BY <1>1, <1>2, <1>3, <1>4, <1>5, <1>6, <1>7, <1>8, <1>9, <1>10, <1>11,
     <1>12, <1>13, <1>14, <1>15, <1>16, <1>17, <1>18, <1>19, <1>20, <1>21,
     <1>22, <1>23
  DEF Next, Writer, Encryptor, Backend, Uploader

\* Products of numbers.
LEMMA Times ==
    ASSUME NEW x \in Int, NEW c \in Nat
    PROVE  /\ x * c \in Int /\ (x \in Nat => x * c \in Nat)
           /\ (x + 1) * c = x * c + c /\ (x - 1) * c = x * c - c
  OBVIOUS

\* Multiplication keeps the order.
LEMMA Order ==
    ASSUME NEW x \in Int, NEW y \in Int, NEW c \in Nat, x <= y
    PROVE  x * c <= y * c
  OBVIOUS

\* The chunks CalculateEncryptedSize counts hold n units, and one less do not.
LEMMA ChunksHold ==
    ASSUME NEW n \in Nat, n > 0
    PROVE  LET k == (n + ChunkSize - 1) \div ChunkSize
           IN  k \in Nat /\ n <= k * ChunkSize /\ (k - 1) * ChunkSize < n
<1>1. ChunkSize \in Nat \ {0}
  BY ChunkAssumption
<1> DEFINE x == n + ChunkSize - 1
           k == x \div ChunkSize
<1>2. x \in Nat
  BY <1>1
<1> HIDE DEF x
<1>3. k \in Nat /\ x % ChunkSize \in 0..(ChunkSize - 1)
      /\ x = k * ChunkSize + (x % ChunkSize)
  BY <1>1, <1>2
<1> HIDE DEF k
<1>4. k * ChunkSize \in Nat /\ (k - 1) * ChunkSize = k * ChunkSize - ChunkSize
  BY <1>1, <1>3, Times
<1>5. n <= k * ChunkSize /\ k * ChunkSize < n + ChunkSize
  BY <1>1, <1>3, <1>4 DEF x
<1>6. (k - 1) * ChunkSize < n
  BY <1>1, <1>4, <1>5
<1>7. QED
  BY <1>3, <1>5, <1>6 DEF k, x

\* EncryptStream seals chunk after chunk, and a backend that was announced a
\* length accepts no other.
LEMMA ChunkingStep ==
    ASSUME TypeOK, EncryptorDone, UploadOrder, Chunking, [Next]_vars
    PROVE  Chunking'
<1> USE DEF vars, reqVars, writerVars, outerVars, uploaderVars, encVars, innerVars,
           backendVars, metaVars
<1> DEFINE Same == UNCHANGED <<size, backend, got, tags>>
<1>1. ChunkSize \in Nat \ {0} /\ buf \in Nat /\ got \in Nat /\ tags \in Nat
  BY ChunkAssumption DEF TypeOK
<1>2. ASSUME Same PROVE LengthMatches' <=> LengthMatches
  BY <1>2 DEF LengthMatches, Enforced, CalculateEncryptedSize
<1>3. ASSUME Same, UNCHANGED <<epc, buf, last>>,
             bst' = "ok" => (bst = "ok" /\ UNCHANGED innerBroken) \/ innerBroken'
      PROVE  Chunking'
  BY <1>2, <1>3 DEF Chunking
<1>4. CASE Write \/ WriteReturns \/ CopyEnds \/ CloseEmpty \/ Close \/ CloseReturnsResult
  BY <1>3, <1>4 DEF Write, WriteReturns, CopyEnds, CloseEmpty, Close, CloseReturnsResult
<1>5. CASE ReadUnit
  <2>1. /\ Same /\ epc = "read" /\ buf' = buf + 1 /\ UNCHANGED <<last, bst, innerBroken>>
        /\ epc' = IF buf + 1 = ChunkSize THEN "seal" ELSE "read"
    BY <1>5 DEF ReadUnit
  <2>2. buf < ChunkSize /\ ~last
    BY <2>1 DEF Chunking
  <2>3. QED
    BY <1>1, <1>2, <2>1, <2>2 DEF Chunking
<1>6. CASE ReadEOF
  <2>1. Same /\ epc = "read" /\ UNCHANGED <<buf, bst, innerBroken>>
    BY <1>6 DEF ReadEOF
  <2>2. \/ buf > 0 /\ last' = TRUE /\ epc' = "seal"
        \/ epc' = "done" /\ UNCHANGED last
    BY <1>6 DEF ReadEOF, EncryptEnds
  <2>3. buf < ChunkSize
    BY <2>1 DEF Chunking
  <2>4. QED
    BY <1>1, <1>2, <2>1, <2>2, <2>3 DEF Chunking
<1>7. CASE SealFails
  <2>1. Same /\ epc' = "done" /\ UNCHANGED <<bst, innerBroken>>
    BY <1>7 DEF SealFails, EncryptEnds
  <2>2. QED
    BY <1>2, <2>1 DEF Chunking
<1>8. CASE TakeChunk
  <2>1. /\ bst = "reading" /\ UNCHANGED <<bst, last>> /\ epc = "seal"
        /\ got' = got + buf /\ tags' = tags + 1 /\ buf' = 0
    BY <1>8 DEF TakeChunk
  <2>2. epc' = IF last THEN "done" ELSE "read"
    BY <1>8 DEF TakeChunk, EncryptEnds
  <2>3. got = tags * ChunkSize /\ buf \in 1..ChunkSize /\ (last \/ buf = ChunkSize)
    BY <2>1 DEF Chunking
  <2>4. /\ tags' * ChunkSize = tags * ChunkSize + ChunkSize
        /\ (tags' - 1) * ChunkSize = tags * ChunkSize
    BY <1>1, <2>1, Times
  <2>5. got' <= tags' * ChunkSize /\ (tags' - 1) * ChunkSize < got'
        /\ (~last => got' = tags' * ChunkSize)
    BY <1>1, <2>1, <2>3, <2>4
  <2>6. last \in BOOLEAN
    BY DEF TypeOK
  <2>7. QED
    BY <1>1, <2>1, <2>2, <2>5, <2>6 DEF Chunking
<1>9. CASE UploadSucceeds
  <2>1. Same /\ LengthMatches /\ UNCHANGED <<epc, buf, last>>
    BY <1>9 DEF UploadSucceeds, Accept
  <2>2. QED
    BY <1>2, <2>1 DEF Chunking
<1>10. CASE AnswersEarly \/ UploadFails \/ Expire
  BY <1>3, <1>10 DEF AnswersEarly, UploadFails, Expire
<1>11. CASE StartUpload
  <2>1. Same /\ UNCHANGED <<buf, last>> /\ epc' = "read" /\ bst' = "reading" /\ upc = "start"
    BY <1>11 DEF StartUpload
  <2>2. epc = "idle"
    BY <2>1 DEF UploadOrder
  <2>3. QED
    BY <2>1, <2>2 DEF Chunking
<1>12. CASE StartFails \/ UploadReturns \/ AwaitEncryptor \/ SaveTruncates \/ SaveWrites
               \/ SaveFails
  BY <1>3, <1>12 DEF StartFails, UploadReturns, AwaitEncryptor, SaveTruncates, SaveWrites,
                     SaveFails
<1>13. CASE Crash
  <2>1. Same /\ epc' = "dead" /\ (bst' = "ok" => bst = "ok") /\ UNCHANGED innerBroken
    BY <1>13 DEF Crash
  <2>2. QED
    BY <1>2, <2>1 DEF Chunking
<1>14. CASE UNCHANGED vars
  BY <1>3, <1>14
<1>15. QED
  BY <1>4, <1>5, <1>6, <1>7, <1>8, <1>9, <1>10, <1>11, <1>12, <1>13, <1>14
  DEF Next, Writer, Encryptor, Backend, Uploader

-----------------------------------------------------------------------------
\* The inductive invariant holds in every reachable state.
THEOREM Inductive == Spec => []IInv
<1>1. Init => IInv
  <2>1. ASSUME Init PROVE TypeOK
    <3>1. /\ len \in Nat /\ size \in Nat /\ backend \in BackendTypes
          /\ faults \subseteq FaultKinds
      BY <2>1, InputAssumption DEF Init
    <3>2. QED
      BY <2>1, <3>1 DEF Init, TypeOK
  <2>2. Init => Conservation
    BY DEF Init, Conservation
  <2>3. ASSUME Init PROVE EncryptorDone /\ UploadOrder /\ PipeBalance /\ Answering
    <3>1. len \in Nat
      BY <2>3, InputAssumption DEF Init
    <3>2. QED
      BY <2>3, <3>1 DEF Init, EncryptorDone, UploadOrder, PipeBalance, Answering
  <2>4. ASSUME Init PROVE Chunking
    <3>1. ChunkSize \in Nat \ {0}
      BY ChunkAssumption
    <3>2. 0 * ChunkSize = 0 /\ (0 - 1) * ChunkSize = 0 - ChunkSize
      BY <3>1, Times
    <3>3. got = 0 /\ tags = 0 /\ buf = 0 /\ ~last /\ epc = "idle" /\ bst = "idle"
      BY <2>4 DEF Init
    <3>4. QED
      BY <3>1, <3>2, <3>3 DEF Chunking
  <2>5. QED
    BY <2>1, <2>2, <2>3, <2>4 DEF IInv
<1>2. IInv /\ [Next]_vars => IInv'
  BY TypeStep, ConservationStep, EncryptorDoneStep, UploadOrderStep,
     PipeBalanceStep, AnsweringStep, ChunkingStep DEF IInv
<1>3. QED
  BY <1>1, <1>2, PTL DEF Spec

\* Type correctness of the upload pipeline (proxy.go, filesystem.go).
THEOREM TypeCorrect == Spec => []TypeOK
<1>1. IInv => TypeOK
  BY DEF IInv
<1>2. QED
  BY <1>1, Inductive, PTL

\* UploadFile replaces the metadata of a path only when the remote holds the
\* encryption of every byte read, and records that many bytes.
THEOREM CommitsAreComplete == Spec => []CommitComplete
<1>1. IInv => CommitComplete
  BY DEF IInv, TypeOK, Conservation, EncryptorDone, UploadOrder,
     CommitComplete
<1>2. QED
  BY <1>1, Inductive, PTL

\* A PUT answered with success was stored in full (ProxyFile.Close returning
\* UploadFile's result).
THEOREM SuccessIsDurable == Spec => []SuccessMeansStored
<1>1. IInv => SuccessMeansStored
  BY DEF IInv, TypeOK, Conservation, EncryptorDone, UploadOrder, PipeBalance,
     Answering, SuccessMeansStored
<1>2. QED
  BY <1>1, Inductive, PTL

\* A remote that enforces the announced Content-Length never keeps a body that
\* is shorter or longer (CalculateEncryptedSize tells all lengths apart).
THEOREM AnnouncedLengthsAreKept == Spec => []AnnouncedLengthKept
<1>1. IInv => AnnouncedLengthKept
  <2> SUFFICES ASSUME IInv, Enforced, ~innerBroken, meta # "old"
               PROVE  got = size
    BY DEF AnnouncedLengthKept
  <2> DEFINE k == (size + ChunkSize - 1) \div ChunkSize
  <2>1. ChunkSize \in Nat \ {0} /\ TagSize \in Nat
    BY ChunkAssumption
  <2>2. got \in Nat /\ tags \in Nat /\ size \in Nat /\ size > 0
    BY DEF IInv, TypeOK, Enforced
  <2>3. bst = "ok"
    BY DEF IInv, UploadOrder
  <2>4. got + tags * TagSize = size + k * TagSize
    BY <2>2, <2>3 DEF IInv, Chunking, LengthMatches, CalculateEncryptedSize
  <2>5. got <= tags * ChunkSize /\ (tags - 1) * ChunkSize < got
    BY DEF IInv, Chunking
  <2>6. k \in Nat /\ size <= k * ChunkSize /\ (k - 1) * ChunkSize < size
    BY <2>2, ChunksHold
  <2> HIDE DEF k
  <2>7. /\ tags * TagSize \in Nat /\ k * TagSize \in Nat
        /\ tags * ChunkSize \in Nat /\ k * ChunkSize \in Nat
        /\ (tags - 1) * ChunkSize \in Int /\ (k - 1) * ChunkSize \in Int
    BY <2>1, <2>2, <2>6, Times
  <2>8. CASE tags < k
    <3>1. tags * ChunkSize <= (k - 1) * ChunkSize /\ tags * TagSize <= k * TagSize
      BY <2>1, <2>2, <2>6, <2>8, Order
    <3>2. QED
      BY <2>2, <2>4, <2>5, <2>6, <2>7, <3>1
  <2>9. CASE k < tags
    <3>1. k * ChunkSize <= (tags - 1) * ChunkSize /\ k * TagSize <= tags * TagSize
      BY <2>1, <2>2, <2>6, <2>9, Order
    <3>2. QED
      BY <2>2, <2>4, <2>5, <2>6, <2>7, <3>1
  <2>10. CASE k = tags
    BY <2>2, <2>4, <2>7, <2>10
  <2>11. QED
    BY <2>2, <2>6, <2>8, <2>9, <2>10
<1>2. QED
  BY <1>1, Inductive, PTL

\* UploadFile and ProxyFile.Close, with all their goroutines, are one PUT of a
\* body, or a placeholder over the old document for a PUT of nothing, to the
\* client and to every reader of the path.
THEOREM UploadIsAtomic == Spec => ImplementsAtomicPut
<1>1. Init => Put!Init
  BY DEF Init, Put!Init
<1>2. ASSUME IInv, [Next]_vars PROVE [Put!Next]_(Put!vars)
  <2> USE <1>2 DEF IInv, TypeOK, Put!vars, Put!Unanswered
  <2> DEFINE Kept == UNCHANGED <<len, meta, metaSize, wres>>
                       /\ placeholder' \in {placeholder, FALSE}
  <2>0. ASSUME Kept PROVE [Put!Next]_(Put!vars)
    <3>1. CASE placeholder' = placeholder
      BY <2>0, <3>1
    <3>2. CASE placeholder' # placeholder
      <4>1. placeholder' = FALSE /\ placeholder = TRUE
        BY <2>0, <3>2
      <4>2. QED
        BY <2>0, <4>1 DEF Put!Uncover, Put!Next
    <3>3. QED
      BY <3>1, <3>2
  <2>1. CASE CloseEmpty
    <3>1. UNCHANGED <<len, meta, metaSize>> /\ wres = "none" /\ wres' \in {"ok", "err"}
      BY <2>1 DEF CloseEmpty, Reply, PipeBalance, reqVars, metaVars
    <3>2. meta = "old" /\ sent = 0 /\ placeholder' = TRUE
      BY <2>1 DEF CloseEmpty, PipeBalance, UploadOrder, Answering
    <3>3. wres' = IF len = 0 THEN "ok" ELSE "err"
      BY <2>1, <3>2 DEF CloseEmpty, Reply
    <3>4. QED
      BY <3>1, <3>2, <3>3 DEF Put!Next, Put!Cover
  <2>2. CASE CloseReturnsResult
    <3>1. UNCHANGED <<len, meta, metaSize>> /\ wres = "none" /\ wres' \in {"ok", "err"}
      BY <2>2 DEF CloseReturnsResult, Reply, PipeBalance, reqVars, metaVars
    <3>2. wres' = "ok" => sent = len /\ ures = "ok"
      BY <2>2 DEF CloseReturnsResult, Reply
    <3>3. wres' = "ok" => len > 0 /\ meta = "new" /\ metaSize = len /\ ~placeholder
      BY <2>2, <3>2 DEF CloseReturnsResult, PipeBalance, UploadOrder, Answering
    <3>4. UNCHANGED placeholder
      BY <2>2 DEF CloseReturnsResult
    <3>5. QED
      BY <3>1, <3>3, <3>4 DEF Put!Next, Put!Succeed, Put!Fail
  <2>3. CASE SaveTruncates
    <3>1. written /\ ures = "none" /\ meta = "old"
      BY <2>3 DEF SaveTruncates, PipeBalance, UploadOrder
    <3>2. wres = "none" /\ len > 0 /\ ~placeholder
      BY <2>3, <3>1 DEF Answering, SaveTruncates
    <3>3. QED
      BY <2>3, <3>1, <3>2 DEF SaveTruncates, Put!Next, Put!Truncate, reqVars, writerVars
  <2>4. CASE SaveWrites
    <3>1. written /\ ures = "none" /\ meta = "torn" /\ wpc # "dead"
      BY <2>4 DEF SaveWrites, PipeBalance, UploadOrder, Answering
    <3>2. wres = "none" /\ ~placeholder
      BY <2>4, <3>1 DEF Answering, SaveWrites
    <3>3. errChan = "nil"
      BY <2>4 DEF SaveWrites, UploadOrder
    <3>4. wpc \in {"await", "done"}
      BY <3>1, <3>3 DEF Answering
    <3>5. cr \in 1..len
      BY <3>1, <3>4 DEF Answering, PipeBalance
    <3>6. QED
      BY <2>4, <3>1, <3>2, <3>5 DEF SaveWrites, Put!Next, Put!Replace, reqVars, writerVars
  <2>5. CASE Write \/ WriteReturns \/ CopyEnds \/ Close
    <3>1. Kept
      BY <2>5 DEF Write, WriteReturns, CopyEnds, Close, reqVars, metaVars
    <3>2. QED
      BY <2>0, <3>1
  <2>6. CASE Encryptor
    <3>1. Kept
      BY <2>6 DEF Encryptor, ReadUnit, ReadEOF, SealFails, reqVars, writerVars, metaVars
    <3>2. QED
      BY <2>0, <3>1
  <2>7. CASE Backend
    <3>1. Kept
      BY <2>7 DEF Backend, TakeChunk, UploadSucceeds, AnswersEarly, UploadFails, reqVars, writerVars,
                  metaVars
    <3>2. QED
      BY <2>0, <3>1
  <2>8. CASE StartUpload \/ StartFails \/ UploadReturns \/ AwaitEncryptor \/ SaveFails
    <3>1. Kept
      BY <2>8 DEF StartUpload, StartFails, UploadReturns, AwaitEncryptor, SaveFails,
                  reqVars, writerVars, metaVars
    <3>2. QED
      BY <2>0, <3>1
  <2>9. CASE Expire \/ Crash \/ UNCHANGED vars
    <3>1. Kept
      BY <2>9 DEF Expire, Crash, vars, reqVars, writerVars, metaVars
    <3>2. QED
      BY <2>0, <3>1
  <2>10. QED
    BY <2>1, <2>2, <2>3, <2>4, <2>5, <2>6, <2>7, <2>8, <2>9 DEF Next, Writer, Uploader
<1>3. QED
  BY <1>1, <1>2, Inductive, PTL DEF Spec, ImplementsAtomicPut, Put!Spec
=============================================================================
