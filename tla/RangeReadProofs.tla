--------------------------- MODULE RangeReadProofs ---------------------------
(***************************************************************************)
(* Proofs about RangeRead, for all chunk and tag sizes, file sizes,        *)
(* readers and remotes: every range that is fetched is a run of whole      *)
(* sealed chunks, covers the request and little more, and a WebDAV reader  *)
(* gets the byte at its offset.                                            *)
(***************************************************************************)
EXTENDS RangeRead, TLAPS

-----------------------------------------------------------------------------
(* Arithmetic *)

\* Quotient and remainder.
LEMMA DivMod ==
  ASSUME NEW c \in Nat \ {0}, NEW x \in Nat
  PROVE  /\ x \div c \in Nat /\ x % c \in 0..(c - 1)
         /\ x = (x \div c) * c + (x % c)
  OBVIOUS

\* Multiplication keeps the order.
LEMMA Mult ==
  ASSUME NEW x \in Nat, NEW y \in Nat, NEW t \in Nat, x <= y
  PROVE  x * t <= y * t
  OBVIOUS

\* Products of numbers.
LEMMA Times ==
  ASSUME NEW x \in Nat, NEW c \in Nat
  PROVE  x * c \in Nat /\ (x + 1) * c = x * c + c
  OBVIOUS

\* Chunks that begin one below the other are numbered so.
LEMMA Below ==
  ASSUME NEW c \in Nat \ {0}, NEW x \in Nat, NEW y \in Nat, x * c < (y + 1) * c
  PROVE  x <= y
  OBVIOUS

\* Min and Max of two numbers.
LEMMA OfTwo ==
  ASSUME NEW a \in Int, NEW b \in Int
  PROVE  /\ Min({a, b}) = IF a <= b THEN a ELSE b
         /\ Max({a, b}) = IF a >= b THEN a ELSE b
  BY DEF Min, Max

\* A file has as many chunks as it takes to hold it.
LEMMA ChunksHold ==
  ASSUME NEW s \in Nat, s > 0
  PROVE  /\ Chunks(s) \in Nat \ {0}
         /\ (Chunks(s) - 1) * ChunkSize < s /\ s <= Chunks(s) * ChunkSize
<1>1. ChunkSize \in Nat \ {0} BY ChunkAssumption
<1> DEFINE x == s + ChunkSize - 1
<1>2. x \in Nat BY <1>1
<1>3. /\ x \div ChunkSize \in Nat /\ x % ChunkSize \in 0..(ChunkSize - 1)
      /\ x = (x \div ChunkSize) * ChunkSize + (x % ChunkSize)
  BY <1>1, <1>2, DivMod
<1>4. Chunks(s) = x \div ChunkSize BY DEF Chunks
<1> HIDE DEF x
<1>5. Chunks(s) \in Nat BY <1>3, <1>4
<1>6. Chunks(s) * ChunkSize >= s /\ Chunks(s) * ChunkSize <= s + ChunkSize - 1
  BY <1>1, <1>3, <1>4 DEF x
<1>7. Chunks(s) # 0 BY <1>1, <1>5, <1>6
<1>8. (Chunks(s) - 1) * ChunkSize = Chunks(s) * ChunkSize - ChunkSize BY <1>1, <1>5
<1> QED BY <1>1, <1>5, <1>6, <1>7, <1>8

\* What a file of s bytes has in chunk j, and where that ends.
LEMMA ChunkLength ==
  ASSUME NEW j \in Nat, size \in Nat, j * ChunkSize < size
  PROVE  /\ ChunkLen(j) \in 1..ChunkSize
         /\ j * ChunkSize + ChunkLen(j) <= size
         /\ (j + 1) * ChunkSize <= size => ChunkLen(j) = ChunkSize
         /\ (j + 1) * ChunkSize > size => j * ChunkSize + ChunkLen(j) = size
<1>1. ChunkSize \in Nat \ {0} BY ChunkAssumption
<1>2. j * ChunkSize \in Nat BY <1>1
<1>3. (j + 1) * ChunkSize = j * ChunkSize + ChunkSize BY <1>1
<1>4. ChunkLen(j) = IF ChunkSize <= size - j * ChunkSize THEN ChunkSize
                    ELSE size - j * ChunkSize
  BY <1>1, <1>2, OfTwo DEF ChunkLen
<1> HIDE DEF ChunkLen
<1> QED BY <1>1, <1>2, <1>3, <1>4

\* The last chunk of a request at o for l bytes of a file of s bytes.
LastOf(o, l, s) ==
    LET e == IF l > 0 /\ o + l > s THEN s - o ELSE l
        wanted == IF e > 0 THEN (o + e - 1) \div ChunkSize ELSE o \div ChunkSize
    IN  Min({wanted, Chunks(s) - 1})

\* It is one of the file, not before the first one, reaches to the end of the
\* request or of the file, and is not beyond the end of the request.
LEMMA LastChunkFits ==
  ASSUME NEW o \in Nat, NEW l \in Int, NEW s \in Nat, o < s
  PROVE  LET j == LastOf(o, l, s)
         IN  /\ j \in Nat /\ o \div ChunkSize <= j /\ j * ChunkSize < s
             /\ j + 1 <= Chunks(s)
             /\ (j + 1) * ChunkSize >= s \/ (j + 1) * ChunkSize >= o + l
             /\ j * ChunkSize < o + Max({l, 1})
<1>1. ChunkSize \in Nat \ {0} BY ChunkAssumption
<1> DEFINE e == IF l > 0 /\ o + l > s THEN s - o ELSE l
           p == IF e > 0 THEN o + e - 1 ELSE o
           c == Chunks(s) - 1
           w == p \div ChunkSize
           j == LastOf(o, l, s)
<1>2. p \in Nat /\ o <= p /\ p < s /\ p < o + Max({l, 1}) /\ p + 1 >= Min({s, o + l})
  <2>1. Max({l, 1}) = (IF l >= 1 THEN l ELSE 1)
    BY OfTwo
  <2>2. Min({s, o + l}) = (IF s <= o + l THEN s ELSE o + l)
    BY OfTwo
  <2>3. CASE l > 0 /\ o + l > s BY <2>1, <2>2, <2>3
  <2>4. CASE l > 0 /\ o + l <= s BY <2>1, <2>2, <2>4
  <2>5. CASE l <= 0 BY <2>1, <2>2, <2>5
  <2> QED BY <2>3, <2>4, <2>5
<1>3. c \in Nat /\ c * ChunkSize < s /\ s <= (c + 1) * ChunkSize
  BY ChunksHold, <1>1
<1> HIDE DEF p, c
<1>4. /\ w \in Nat /\ w * ChunkSize <= p /\ p < (w + 1) * ChunkSize
  <2>1. w \in Nat /\ p % ChunkSize \in 0..(ChunkSize - 1)
        /\ p = w * ChunkSize + (p % ChunkSize)
    BY <1>1, <1>2, DivMod
  <2> HIDE DEF w
  <2>2. (w + 1) * ChunkSize = w * ChunkSize + ChunkSize /\ w * ChunkSize \in Nat
    BY <1>1, <2>1
  <2> QED BY <1>1, <1>2, <2>1, <2>2
<1>5. LET f == o \div ChunkSize IN f \in Nat /\ f * ChunkSize <= o
  <2> DEFINE f == o \div ChunkSize
  <2>1. f \in Nat /\ o % ChunkSize \in 0..(ChunkSize - 1)
        /\ o = f * ChunkSize + (o % ChunkSize)
    BY <1>1, DivMod
  <2> HIDE DEF f
  <2>2. f * ChunkSize \in Nat BY <1>1, <2>1
  <2>3. f * ChunkSize <= o BY <1>1, <2>1, <2>2
  <2> QED BY <2>1, <2>3 DEF f
<1>6. j = IF w <= c THEN w ELSE c
  <2>1. j = Min({w, c}) BY DEF LastOf, p, c
  <2> HIDE DEF w, j
  <2> QED BY <2>1, <1>3, <1>4, OfTwo
<1> HIDE DEF w, j
<1>7. w <= c
  <2>1. w * ChunkSize < (c + 1) * ChunkSize
    <3>1. w * ChunkSize \in Nat /\ (c + 1) * ChunkSize \in Nat BY <1>1, <1>3, <1>4
    <3> QED BY <3>1, <1>2, <1>3, <1>4
  <2> QED BY <1>1, <1>3, <1>4, <2>1, Below
<1>8. j = w BY <1>6, <1>7
<1>9. o \div ChunkSize <= w
  <2> DEFINE f == o \div ChunkSize
  <2>1. f \in Nat /\ f * ChunkSize <= o BY <1>5
  <2> HIDE DEF f
  <2>2. f * ChunkSize \in Nat /\ (w + 1) * ChunkSize \in Nat BY <1>1, <1>4, <2>1
  <2>3. f * ChunkSize < (w + 1) * ChunkSize BY <1>2, <1>4, <2>1, <2>2
  <2>4. f <= w BY <1>1, <1>4, <2>1, <2>3, Below
  <2> QED BY <2>4 DEF f
<1>10. w * ChunkSize \in Nat /\ (w + 1) * ChunkSize \in Nat BY <1>1, <1>4
<1>11. w * ChunkSize < s BY <1>2, <1>4, <1>10
<1>12. (w + 1) * ChunkSize >= s \/ (w + 1) * ChunkSize >= o + l
  <2>1. Min({s, o + l}) = s \/ Min({s, o + l}) = o + l
    BY OfTwo
  <2> QED BY <1>2, <1>4, <1>10, <2>1
<1>13. w * ChunkSize < o + Max({l, 1})
  <2>1. Max({l, 1}) \in Int BY OfTwo
  <2> QED BY <1>2, <1>4, <1>10, <2>1
<1>14. w + 1 <= Chunks(s)
  <2>1. Chunks(s) \in Nat BY ChunksHold
  <2> QED BY <2>1, <1>4, <1>7 DEF c
<1> QED BY <1>4, <1>8, <1>9, <1>11, <1>12, <1>13, <1>14 DEF j

-----------------------------------------------------------------------------
(* The invariant *)

\* Where the last chunk ends, in the plaintext and in the object.
PlainEnd == endChunk * ChunkSize + ChunkLen(endChunk)
CipherEnd == EncStart(endChunk) + ChunkLen(endChunk) + TagSize

\* The remote's stream stopped between two chunks, like the end of a file.
Stopped == cut = "end" /\ stream.lo = stream.hi

\* A WebDAV read asks for the rest of the file as it was opened; the kernel for
\* some bytes.
Asked ==
    /\ client = "dav" /\ pc \in {"open", "fetch", "decrypt", "deliver"} =>
         offset + length = openSize
    /\ client = "fuse" => /\ length >= 1
                          /\ pc \in {"open", "fetch", "decrypt", "deliver", "done", "error"}

\* The last chunk suits the request.
Chosen ==
    pc \in {"fetch", "decrypt", "deliver"} =>
        /\ offset < size
        /\ endChunk * ChunkSize < size /\ endChunk + 1 <= Chunks(size)
        /\ offset \div ChunkSize <= endChunk
        /\ PlainEnd >= size \/ PlainEnd >= offset + length
        /\ endChunk * ChunkSize < offset + Max({length, 1})

\* The stream ends with the last chunk, or before when it was cut, and a chunk
\* is next that begins where the plaintext ends, or the stream has been read.
Decrypting ==
    /\ pc = "fetch" => chunk = offset \div ChunkSize
    /\ pc = "decrypt" =>
         /\ plain.lo = offset - (offset % ChunkSize) /\ plain.lo <= plain.hi
         /\ ending = "eof"
         /\ \/ /\ chunk <= endChunk /\ plain.hi = chunk * ChunkSize
               /\ stream.lo = EncStart(chunk)
               /\ stream.lo <= stream.hi /\ stream.hi <= CipherEnd
               /\ cut = "no" => stream.hi = CipherEnd
            \/ plain.hi = PlainEnd /\ stream.lo = stream.hi

\* What is delivered begins with the chunk of the offset, later at the offset,
\* and ends with the last chunk, or before when the stream was cut.
Delivering ==
    /\ pc = "deliver" =>
         /\ plain.lo = offset - (offset % ChunkSize)
         /\ plain.lo <= plain.hi /\ plain.hi <= PlainEnd
         /\ cut = "no" => plain.hi = PlainEnd
    /\ pc = "reading" =>
         /\ client = "dav" /\ plain.lo = offset
         /\ plain.hi <= size
         /\ cut = "no" => plain.hi >= openSize \/ plain.hi >= size
    /\ pc = "eof" /\ client = "dav" => offset >= openSize \/ offset >= size \/ Stopped

\* Only a stream that was cut ends in anything but the end of a file, and one
\* that was cut and ends so was cut between two chunks.
Ending ==
    /\ ending = "refused" => cut # "no"
    /\ pc \in {"deliver", "reading"} =>
         /\ cut = "no" => ending = "eof"
         /\ ending = "eof" => cut = "no" \/ Stopped

RInv == TypeOK /\ Asked /\ Chosen /\ Decrypting /\ Delivering /\ Ending

-----------------------------------------------------------------------------
\* Nothing has been asked or read.
LEMMA InitHolds == Init => RInv
<1> SUFFICES ASSUME Init PROVE RInv
  OBVIOUS
<1>1. pc \in {"idle", "open"} /\ client \in Clients /\ (client = "fuse" => pc = "open")
  BY DEF Init
<1>2. TypeOK
  <2>1. 0 \in Nat /\ 0 \in 0..MaxSize BY BoundAssumption
  <2>2. offset \in Nat /\ length \in Int BY BoundAssumption DEF Init
  <2>3. stream \in Interval /\ plain \in Interval BY DEF Init, Interval, None
  <2> QED BY <1>1, <2>1, <2>2, <2>3 DEF Init, TypeOK
<1>3. Asked
  BY BoundAssumption DEF Init, Asked
<1>4. ending = "eof" BY DEF Init
<1> QED BY <1>1, <1>2, <1>3, <1>4 DEF RInv, Chosen, Decrypting, Delivering, Ending

\* Nothing changes.
LEMMA StutterHolds == RInv /\ UNCHANGED vars => RInv'
  BY DEF RInv, TypeOK, Asked, Chosen, Decrypting, Delivering, Ending, Stopped, Interval,
         vars, file, request, download, outcome, PlainEnd, CipherEnd, EncStart, ChunkLen, Chunks, CipherChunkSize

\* An upload changes what the metadata says now, and no read looks at that twice.
LEMMA ReplaceHolds ==
  ASSUME RInv, NEW n \in 0..MaxSize, Replace(n)
  PROVE  RInv'
  BY BoundAssumption
     DEF RInv, TypeOK, Asked, Chosen, Decrypting, Delivering, Ending, Stopped, Interval,
         Replace, request, download, outcome, PlainEnd, CipherEnd, EncStart, ChunkLen, Chunks, CipherChunkSize

\* ProxyFile.Seek forgets the stream.
LEMMA SeekHolds ==
  ASSUME RInv, NEW o \in 0..MaxSize, Seek(o)
  PROVE  RInv'
  BY BoundAssumption
     DEF RInv, TypeOK, Asked, Chosen, Decrypting, Delivering, Ending, Interval, Seek,
         None, file

\* The beginnings of a read, and those that end or fail at once.
LEMMA OpeningHolds ==
  ASSUME RInv, ReadAtEnd \/ ReadOpens \/ OpenAtEnd \/ FetchFails
  PROVE  RInv'
  BY BoundAssumption
     DEF RInv, TypeOK, Asked, Chosen, Decrypting, Delivering, Ending, Stopped, Interval,
         ReadAtEnd, ReadOpens, OpenAtEnd, FetchFails, AtEnd, file, request, download, outcome

\* DownloadRange chooses the chunks.
LEMMA OpenRangeHolds ==
  ASSUME RInv, OpenRange
  PROVE  RInv'
<1>1. ChunkSize \in Nat \ {0} BY ChunkAssumption
<1>2. /\ pc = "open" /\ current > 0 /\ offset < current /\ size' = current
      /\ pc' = "fetch" /\ chunk' = offset \div ChunkSize
      /\ UNCHANGED <<file, offset, length, stream, plain, outcome>>
  BY DEF OpenRange
<1>3. offset \in Nat /\ length \in Int /\ current \in Nat
  BY BoundAssumption DEF RInv, TypeOK
<1>4. endChunk' = LastOf(offset, length, current)
  BY <1>2 DEF OpenRange, LastChunk, EffectiveLength, LastOf, Chunks
<1>5. /\ endChunk' \in Nat /\ offset \div ChunkSize <= endChunk'
      /\ endChunk' * ChunkSize < current /\ endChunk' + 1 <= Chunks(current)
      /\ (endChunk' + 1) * ChunkSize >= current \/ (endChunk' + 1) * ChunkSize >= offset + length
      /\ endChunk' * ChunkSize < offset + Max({length, 1})
  BY <1>2, <1>3, <1>4, LastChunkFits
<1>6. Chunks(size)' = Chunks(current) BY <1>2 DEF Chunks
<1>7. ChunkLen(endChunk)' = IF ChunkSize <= current - endChunk' * ChunkSize THEN ChunkSize
                            ELSE current - endChunk' * ChunkSize
  <2>1. endChunk' * ChunkSize \in Nat BY <1>1, <1>5, Times
  <2> QED BY <1>1, <1>2, <1>3, <2>1, OfTwo DEF ChunkLen
<1>8. PlainEnd' >= size' \/ PlainEnd' >= offset' + length'
  <2>1. endChunk' * ChunkSize \in Nat
        /\ (endChunk' + 1) * ChunkSize = endChunk' * ChunkSize + ChunkSize
    BY <1>1, <1>5, Times
  <2>2. PlainEnd' = endChunk' * ChunkSize + ChunkLen(endChunk)' BY DEF PlainEnd
  <2>3. PlainEnd' = current \/ PlainEnd' = (endChunk' + 1) * ChunkSize
    BY <1>1, <1>3, <1>7, <2>1, <2>2
  <2>4. PlainEnd' >= current \/ PlainEnd' >= offset + length BY <1>3, <1>5, <2>3
  <2> QED BY <1>2, <2>4
<1>9. offset \div ChunkSize \in Nat BY <1>1, <1>3, DivMod
<1>10. TypeOK'
  BY <1>2, <1>3, <1>5, <1>9 DEF RInv, TypeOK, file, outcome
<1>11. Asked' BY <1>2 DEF RInv, Asked, file
<1>12. Chosen' BY <1>2, <1>3, <1>5, <1>6, <1>8 DEF Chosen, file
<1>13. Decrypting' /\ Delivering' /\ Ending'
  BY <1>2 DEF RInv, Decrypting, Delivering, Ending, outcome
<1> QED BY <1>10, <1>11, <1>12, <1>13 DEF RInv

\* Up to the end of the last chunk the object has all the bytes.
LEMMA InObject ==
  ASSUME TypeOK, Chosen, pc \in {"fetch", "decrypt"}
  PROVE  /\ ChunkLen(endChunk) \in 1..ChunkSize /\ CipherEnd \in Nat
         /\ ObjectSize \in Nat /\ CipherEnd <= ObjectSize /\ PlainEnd <= size
         /\ PlainEnd \in Nat
<1>1. ChunkSize \in Nat \ {0} /\ TagSize \in Nat \ {0} BY ChunkAssumption
<1>2. size \in Nat /\ endChunk \in Nat /\ size > 0
  BY BoundAssumption DEF TypeOK
<1>3. endChunk * ChunkSize < size /\ endChunk + 1 <= Chunks(size) BY DEF Chosen
<1>4. Chunks(size) \in Nat BY <1>2, ChunksHold
<1>5. (endChunk + 1) * TagSize <= Chunks(size) * TagSize
  BY <1>1, <1>2, <1>3, <1>4, Mult
<1>6. ChunkLen(endChunk) \in 1..ChunkSize /\ endChunk * ChunkSize + ChunkLen(endChunk) <= size
  BY <1>2, <1>3, ChunkLength
<1>7. CipherEnd = endChunk * ChunkSize + ChunkLen(endChunk) + (endChunk + 1) * TagSize
  <2>1. EncStart(endChunk) = endChunk * ChunkSize + endChunk * TagSize
    BY <1>1, <1>2 DEF EncStart, CipherChunkSize
  <2>2. (endChunk + 1) * TagSize = endChunk * TagSize + TagSize /\ endChunk * TagSize \in Nat
        /\ endChunk * ChunkSize \in Nat
    BY <1>1, <1>2
  <2> QED BY <1>1, <1>6, <2>1, <2>2 DEF CipherEnd
<1>8. endChunk * ChunkSize \in Nat /\ (endChunk + 1) * TagSize \in Nat
      /\ Chunks(size) * TagSize \in Nat
  BY <1>1, <1>2, <1>4
<1> QED BY <1>1, <1>2, <1>5, <1>6, <1>7, <1>8 DEF ObjectSize, PlainEnd

\* The length DownloadRange works out ends with the last chunk.
LEMMA LengthFits ==
  ASSUME RInv, pc = "fetch"
  PROVE  /\ EncLength(chunk, endChunk) \in Nat \ {0} /\ EncStart(chunk) \in Nat
         /\ EncStart(chunk) + EncLength(chunk, endChunk) = CipherEnd
<1>1. ChunkSize \in Nat \ {0} /\ TagSize \in Nat \ {0} /\ CipherChunkSize \in Nat \ {0}
  BY ChunkAssumption DEF CipherChunkSize
<1>2. /\ size \in Nat /\ endChunk \in Nat /\ chunk \in Nat /\ chunk <= endChunk
      /\ endChunk * ChunkSize < size
  BY BoundAssumption DEF RInv, TypeOK, Chosen, Decrypting
<1>3. ChunkLen(endChunk) \in 1..ChunkSize /\ CipherEnd \in Nat
  BY InObject DEF RInv
<1>4. EncStart(chunk) \in Nat BY <1>1, <1>2 DEF EncStart
<1>5. CASE chunk = endChunk
  BY <1>1, <1>2, <1>3, <1>4, <1>5 DEF EncLength, CipherEnd
<1>6. CASE chunk < endChunk
  <2>1. (chunk + 1) * ChunkSize <= endChunk * ChunkSize BY <1>1, <1>2, <1>6, Mult
  <2>2. chunk * ChunkSize \in Nat /\ (chunk + 1) * ChunkSize = chunk * ChunkSize + ChunkSize
        /\ endChunk * ChunkSize \in Nat
    BY <1>1, <1>2
  <2>3. chunk * ChunkSize < size /\ (chunk + 1) * ChunkSize <= size
    BY <1>1, <1>2, <2>1, <2>2
  <2>4. ChunkLen(chunk) = ChunkSize BY <1>2, <2>3, ChunkLength
  <2>5. EncLength(chunk, endChunk) = (endChunk - chunk - 1) * CipherChunkSize
          + CipherChunkSize + (ChunkLen(endChunk) + TagSize)
    <3>1. CipherChunkSize = ChunkSize + TagSize BY DEF CipherChunkSize
    <3>2. EncLength(chunk, endChunk) = (endChunk - chunk - 1) * CipherChunkSize
            + (ChunkSize + TagSize) + (ChunkLen(endChunk) + TagSize)
      BY <1>2, <1>6, <2>4 DEF EncLength
    <3> QED BY <3>1, <3>2
  <2>6. endChunk - chunk - 1 \in Nat BY <1>2, <1>6
  <2>7. (endChunk - chunk - 1) * CipherChunkSize \in Nat BY <1>1, <2>6
  <2>8. chunk * CipherChunkSize + (endChunk - chunk - 1) * CipherChunkSize + CipherChunkSize
          = endChunk * CipherChunkSize
    BY <1>1, <1>2
  <2>9. chunk * CipherChunkSize \in Nat /\ endChunk * CipherChunkSize \in Nat BY <1>1, <1>2
  <2> HIDE DEF CipherChunkSize
  <2> QED BY <1>1, <1>3, <2>5, <2>7, <2>8, <2>9 DEF EncStart, CipherEnd
<1> QED BY <1>2, <1>5, <1>6

\* Where the chunk of the offset begins.
LEMMA ChunkOfOffset ==
  ASSUME offset \in Nat
  PROVE  /\ offset \div ChunkSize \in Nat /\ offset % ChunkSize \in 0..(ChunkSize - 1)
         /\ offset % ChunkSize <= offset
         /\ (offset \div ChunkSize) * ChunkSize = offset - (offset % ChunkSize)
<1>1. ChunkSize \in Nat \ {0} BY ChunkAssumption
<1> DEFINE d == offset \div ChunkSize
<1>2. d \in Nat /\ offset % ChunkSize \in 0..(ChunkSize - 1)
      /\ offset = d * ChunkSize + (offset % ChunkSize)
  BY <1>1, DivMod
<1> HIDE DEF d
<1>3. d * ChunkSize \in Nat BY <1>1, <1>2, Times
<1>4. offset % ChunkSize <= offset /\ d * ChunkSize = offset - (offset % ChunkSize)
  BY <1>1, <1>2, <1>3
<1> QED BY <1>2, <1>4 DEF d

\* Any remote answers with the chunks, and with nothing else.
LEMMA FetchHolds ==
  ASSUME RInv, Fetch
  PROVE  RInv'
<1>1. ChunkSize \in Nat \ {0} /\ TagSize \in Nat \ {0} BY ChunkAssumption
<1>2. /\ pc = "fetch" /\ pc' = "decrypt" /\ UNCHANGED <<file, request, chunk, endChunk>>
      /\ plain' = [lo |-> chunk * ChunkSize, hi |-> chunk * ChunkSize]
      /\ ending' = "eof"
  BY DEF Fetch
<1>3. chunk \in Nat /\ offset \in Nat /\ chunk = offset \div ChunkSize /\ chunk <= endChunk
  BY <1>2 DEF RInv, TypeOK, Decrypting, Chosen
<1>4. /\ EncLength(chunk, endChunk) \in Nat \ {0} /\ EncStart(chunk) \in Nat
      /\ EncStart(chunk) + EncLength(chunk, endChunk) = CipherEnd
  BY <1>2, LengthFits
<1>5. CipherEnd \in Nat /\ ObjectSize \in Nat /\ CipherEnd <= ObjectSize
  BY <1>2, InObject DEF RInv
<1>6. backend \in {"local", "s3", "partial", "full"}
  BY BackendAssumption DEF RInv, TypeOK
<1>7. RemoteRange(EncStart(chunk), EncLength(chunk, endChunk))
        = [lo |-> EncStart(chunk), hi |-> CipherEnd]
  <2> DEFINE start == EncStart(chunk)
             n == EncLength(chunk, endChunk)
  <2>1. start \in Nat /\ n \in Nat \ {0} /\ start + n = CipherEnd BY <1>4
  <2> HIDE DEF start, n
  <2>2. ~(n > 0 /\ start + n > ObjectSize) /\ ~(n <= 0) /\ n > 0
    BY <2>1, <1>5
  <2>3. Max({n, 0}) = n
    <3>1. n \in Int /\ 0 \in Int /\ n >= 0 BY <2>1
    <3>2. Max({n, 0}) = IF n >= 0 THEN n ELSE 0 BY <3>1, OfTwo
    <3> QED BY <3>1, <3>2
  <2>4. Min({start + n, ObjectSize}) = start + n BY <2>1, <1>5, OfTwo
  <2>5. RemoteRange(start, n) = [lo |-> start, hi |-> start + n]
    <3>1. CASE backend = "local" BY <3>1, <2>2, <2>4 DEF RemoteRange
    <3>2. CASE backend = "s3" BY <3>2, <2>2, <2>4 DEF RemoteRange
    <3>3. CASE backend = "partial" BY <3>3, <2>2, <2>4 DEF RemoteRange
    <3>4. CASE backend = "full"
      <4>1. Min({start + Max({n, 0}), ObjectSize}) = start + n BY <2>3, <2>4
      <4> QED BY <3>4, <4>1 DEF RemoteRange
    <3> QED BY <1>6, <3>1, <3>2, <3>3, <3>4
  <2> QED BY <2>1, <2>5 DEF start, n
<1>8. /\ stream'.lo = EncStart(chunk) /\ stream'.lo <= stream'.hi /\ stream'.hi <= CipherEnd
      /\ cut' = "no" => stream'.hi = CipherEnd
      /\ stream' \in Interval /\ cut' \in {"no", "end", "reset"}
  <2> DEFINE range == RemoteRange(EncStart(chunk), EncLength(chunk, endChunk))
  <2>1. range = [lo |-> EncStart(chunk), hi |-> CipherEnd] BY <1>7
  <2>2. \/ stream' = range /\ cut' = "no"
        \/ /\ \E at \in range.lo..(range.hi - 1) : stream' = [range EXCEPT !.hi = at]
           /\ cut' \in {"end", "reset"}
    BY DEF Fetch
  <2> HIDE DEF range
  <2>3. EncStart(chunk) < CipherEnd BY <1>4, <1>5
  <2>4. CASE stream' = range /\ cut' = "no"
    BY <1>4, <1>5, <2>1, <2>3, <2>4 DEF Interval
  <2>5. ASSUME NEW at \in range.lo..(range.hi - 1), stream' = [range EXCEPT !.hi = at],
               cut' \in {"end", "reset"}
        PROVE  /\ stream'.lo = EncStart(chunk) /\ stream'.lo <= stream'.hi
               /\ stream'.hi <= CipherEnd /\ stream' \in Interval
    <3>1. at \in EncStart(chunk)..(CipherEnd - 1) BY <2>1, <2>5
    <3>2. stream' = [lo |-> EncStart(chunk), hi |-> at] BY <2>1, <2>5
    <3> QED BY <1>4, <1>5, <3>1, <3>2 DEF Interval
  <2> QED BY <2>2, <2>4, <2>5
<1>9. /\ plain'.lo = chunk * ChunkSize /\ plain'.hi = chunk * ChunkSize
      /\ plain' \in Interval
  <2>1. chunk * ChunkSize \in Nat BY <1>1, <1>3, Times
  <2> QED BY <1>2, <2>1 DEF Interval
<1>10. chunk * ChunkSize = offset - (offset % ChunkSize) BY <1>3, ChunkOfOffset
<1>11. EncStart(chunk)' = EncStart(chunk) /\ CipherEnd' = CipherEnd
  BY <1>2 DEF EncStart, CipherEnd, ChunkLen, request
<1>12. Decrypting' /\ Delivering' /\ Ending'
  <2>1. chunk * ChunkSize \in Nat BY <1>1, <1>3, Times
  <2> QED BY <1>2, <1>3, <1>8, <1>9, <1>10, <1>11, <2>1
          DEF Decrypting, Delivering, Ending, request
<1>13. TypeOK' BY <1>2, <1>8, <1>9 DEF RInv, TypeOK, file, request
<1>14. Asked' /\ Chosen'
  BY <1>2 DEF RInv, Asked, Chosen, PlainEnd, ChunkLen, file, request
<1> QED BY <1>12, <1>13, <1>14 DEF RInv

\* The next piece of the stream is the sealed chunk that is next.
LEMMA DecryptHolds ==
  ASSUME RInv, DecryptChunk
  PROVE  RInv'
<1>1. ChunkSize \in Nat \ {0} /\ TagSize \in Nat \ {0} BY ChunkAssumption
<1> DEFINE next == Min({stream.lo + CipherChunkSize, stream.hi})
<1>2. pc = "decrypt" /\ stream.lo < stream.hi /\ UNCHANGED <<file, request, endChunk, cut>>
  BY DEF DecryptChunk
<1>3. /\ chunk \in Nat /\ endChunk \in Nat /\ offset \in Nat /\ size \in Nat
      /\ stream \in Interval /\ plain \in Interval
  BY BoundAssumption DEF RInv, TypeOK
<1>4. stream.lo \in Nat /\ stream.hi \in Nat /\ plain.lo \in Nat /\ plain.hi \in Nat
  BY <1>3 DEF Interval
<1>5. /\ chunk <= endChunk /\ plain.hi = chunk * ChunkSize
      /\ stream.lo = EncStart(chunk) /\ stream.hi <= CipherEnd
      /\ cut = "no" => stream.hi = CipherEnd
      /\ plain.lo = offset - (offset % ChunkSize) /\ plain.lo <= plain.hi /\ ending = "eof"
  BY <1>2, <1>4 DEF RInv, Decrypting
<1>6. endChunk * ChunkSize < size BY <1>2 DEF RInv, Chosen
<1>7. chunk * ChunkSize \in Nat /\ (chunk + 1) * ChunkSize = chunk * ChunkSize + ChunkSize
      /\ chunk * ChunkSize < size
  <2>1. chunk * ChunkSize <= endChunk * ChunkSize BY <1>1, <1>3, <1>5, Mult
  <2>2. endChunk * ChunkSize \in Nat BY <1>1, <1>3, Times
  <2> QED BY <1>1, <1>3, <1>6, <2>1, <2>2, Times
<1>8. ChunkLen(chunk) \in 1..ChunkSize BY <1>3, <1>7, ChunkLength
<1> DEFINE whole == EncStart(chunk) + ChunkLen(chunk) + TagSize
<1>9. /\ whole \in Nat /\ CipherEnd \in Nat /\ EncStart(chunk) \in Nat
      /\ \/ chunk = endChunk /\ whole = CipherEnd
         \/ /\ chunk < endChunk /\ whole = EncStart(chunk + 1)
            /\ ChunkLen(chunk) = ChunkSize /\ whole <= CipherEnd
      /\ whole <= EncStart(chunk) + CipherChunkSize
  <2>1. EncStart(chunk) \in Nat /\ EncStart(endChunk) \in Nat /\ CipherChunkSize \in Nat
        /\ EncStart(chunk + 1) = EncStart(chunk) + CipherChunkSize
    BY <1>1, <1>3, Times DEF EncStart, CipherChunkSize
  <2>2. ChunkLen(endChunk) \in 1..ChunkSize BY <1>3, <1>6, ChunkLength
  <2>3. CipherEnd >= EncStart(endChunk) /\ CipherEnd \in Nat
    BY <1>1, <2>1, <2>2 DEF CipherEnd
  <2>4. CASE chunk = endChunk
    BY <1>1, <1>8, <2>1, <2>3, <2>4 DEF CipherEnd, CipherChunkSize
  <2>5. CASE chunk < endChunk
    <3>1. (chunk + 1) * ChunkSize <= endChunk * ChunkSize BY <1>1, <1>3, <2>5, Mult
    <3>2. (chunk + 1) * ChunkSize <= size BY <1>1, <1>3, <1>6, <3>1, Times
    <3>3. ChunkLen(chunk) = ChunkSize BY <1>3, <1>7, <3>2, ChunkLength
    <3>4. EncStart(chunk + 1) <= EncStart(endChunk)
      BY <1>1, <1>3, <2>1, <2>5, Mult DEF EncStart
    <3> QED BY <1>1, <2>1, <2>3, <2>5, <3>3, <3>4 DEF CipherChunkSize
  <2> QED BY <1>3, <1>5, <2>4, <2>5
<1>10. /\ next = IF stream.lo + CipherChunkSize <= stream.hi
                 THEN stream.lo + CipherChunkSize ELSE stream.hi
       /\ CipherChunkSize \in Nat
  BY <1>1, <1>4, OfTwo DEF CipherChunkSize
<1>11. next <= stream.hi /\ next \in Nat BY <1>4, <1>10
<1>12. CipherEnd' = CipherEnd /\ PlainEnd' = PlainEnd /\ PlainEnd \in Nat
       /\ chunk * ChunkSize <= PlainEnd
  <2>1. CipherEnd' = CipherEnd /\ PlainEnd' = PlainEnd
    BY <1>2 DEF CipherEnd, PlainEnd, EncStart, ChunkLen, request
  <2>2. endChunk * ChunkSize \in Nat /\ chunk * ChunkSize <= endChunk * ChunkSize
    BY <1>1, <1>3, <1>5, Times, Mult
  <2>3. ChunkLen(endChunk) \in 1..ChunkSize BY <1>3, <1>6, ChunkLength
  <2> QED BY <1>1, <1>7, <2>1, <2>2, <2>3 DEF PlainEnd
<1>13. Asked' /\ Chosen'
  <2>1. pc' \in {"decrypt", "deliver"} BY <1>2 DEF DecryptChunk
  <2> QED BY <1>2, <1>12, <2>1 DEF RInv, Asked, Chosen, file, request
<1>14. CASE Opens(stream.lo, next, chunk)
  <2>1. next = whole BY <1>5, <1>14 DEF Opens
  <2>2. /\ stream' = [stream EXCEPT !.lo = next]
        /\ plain' = [plain EXCEPT !.hi = @ + ChunkLen(chunk)]
        /\ chunk' = chunk + 1 /\ UNCHANGED <<pc, ending>>
    BY <1>14 DEF DecryptChunk
  <2> HIDE DEF next, whole
  <2>3. /\ stream' \in Interval /\ plain' \in Interval
        /\ stream'.lo = next /\ stream'.hi = stream.hi
        /\ plain'.lo = plain.lo /\ plain'.hi = chunk * ChunkSize + ChunkLen(chunk)
        /\ plain'.lo <= plain'.hi
    BY <1>3, <1>4, <1>5, <1>8, <1>11, <2>2 DEF Interval
  <2>4. Decrypting'
    <3>1. CASE chunk = endChunk
      <4>1. stream.hi = CipherEnd /\ next = CipherEnd
        BY <1>3, <1>4, <1>5, <1>9, <1>11, <2>1, <3>1
      <4>2. plain'.hi = PlainEnd BY <2>3, <3>1 DEF PlainEnd
      <4> QED BY <1>2, <1>5, <1>12, <2>2, <2>3, <4>1, <4>2 DEF Decrypting, request
    <3>2. CASE chunk < endChunk
      <4>1. next = EncStart(chunk') /\ plain'.hi = chunk' * ChunkSize
        BY <1>3, <1>7, <1>9, <2>1, <2>2, <2>3, <3>2
      <4>2. chunk' <= endChunk' BY <1>2, <1>3, <2>2, <3>2
      <4>3. stream'.lo = EncStart(chunk)' BY <2>3, <4>1 DEF EncStart
      <4> QED BY <1>2, <1>5, <1>11, <1>12, <2>2, <2>3, <4>1, <4>2, <4>3
              DEF Decrypting, request
    <3> QED BY <1>3, <1>5, <3>1, <3>2
  <2>5. TypeOK' BY <1>2, <1>3, <2>2, <2>3 DEF RInv, TypeOK, file, request
  <2>6. Delivering' /\ Ending' BY <1>2, <1>5, <2>2 DEF Delivering, Ending
  <2> QED BY <1>13, <2>4, <2>5, <2>6 DEF RInv
<1>15. CASE ~Opens(stream.lo, next, chunk)
  <2>1. pc' = "deliver" /\ ending' = "refused" /\ UNCHANGED <<stream, plain, chunk>>
    BY <1>15 DEF DecryptChunk
  <2>2. cut # "no"
    <3> SUFFICES ASSUME cut = "no" PROVE FALSE
      OBVIOUS
    <3>1. stream.hi = CipherEnd BY <1>5
    <3>2. chunk < endChunk => whole = stream.lo + CipherChunkSize
      BY <1>1, <1>3, <1>4, <1>5, <1>9 DEF CipherChunkSize
    <3> HIDE DEF next, whole
    <3>3. next = whole
      <4>1. CASE chunk = endChunk
        BY <1>3, <1>4, <1>5, <1>9, <1>10, <3>1, <4>1
      <4>2. CASE chunk < endChunk
        BY <1>3, <1>4, <1>9, <1>10, <3>1, <3>2, <4>2
      <4> QED BY <1>3, <1>5, <4>1, <4>2
    <3>4. next = EncStart(chunk) + ChunkLen(chunk) + TagSize BY <3>3 DEF whole
    <3>5. Opens(stream.lo, next, chunk)
      BY <1>1, <1>3, <1>4, <1>5, <1>8, <1>9, <1>11, <3>4 DEF Opens
    <3> QED BY <1>15, <3>5
  <2> HIDE DEF next, whole
  <2>3. Delivering' BY <1>2, <1>5, <1>12, <2>1, <2>2 DEF Delivering, request
  <2>4. Decrypting' /\ Ending' BY <1>2, <2>1, <2>2 DEF Decrypting, Ending
  <2>5. TypeOK' BY <1>2, <1>3, <2>1 DEF RInv, TypeOK, file, request
  <2> QED BY <1>13, <2>3, <2>4, <2>5 DEF RInv
<1> QED BY <1>14, <1>15

\* The plaintext up to the end of the last chunk reaches beyond the offset.
LEMMA EndAfterOffset ==
  ASSUME TypeOK, Chosen, pc \in {"decrypt", "deliver"}
  PROVE  PlainEnd \in Nat /\ PlainEnd > offset
<1>1. ChunkSize \in Nat \ {0} BY ChunkAssumption
<1>2. offset \in Nat /\ size \in Nat /\ endChunk \in Nat
  BY BoundAssumption DEF TypeOK
<1>3. offset < size /\ endChunk * ChunkSize < size /\ offset \div ChunkSize <= endChunk
  BY DEF Chosen
<1>4. /\ ChunkLen(endChunk) \in 1..ChunkSize
      /\ (endChunk + 1) * ChunkSize <= size => ChunkLen(endChunk) = ChunkSize
      /\ (endChunk + 1) * ChunkSize > size => PlainEnd = size
  BY <1>2, <1>3, ChunkLength DEF PlainEnd
<1>5. endChunk * ChunkSize \in Nat
      /\ (endChunk + 1) * ChunkSize = endChunk * ChunkSize + ChunkSize
  BY <1>1, <1>2, Times
<1> DEFINE d == offset \div ChunkSize
<1>6. /\ d \in Nat /\ d <= endChunk /\ d * ChunkSize = offset - (offset % ChunkSize)
      /\ offset % ChunkSize \in 0..(ChunkSize - 1)
  BY <1>2, <1>3, ChunkOfOffset
<1> HIDE DEF d
<1>7. (d + 1) * ChunkSize <= (endChunk + 1) * ChunkSize
  BY <1>1, <1>2, <1>6, Mult
<1>8. (d + 1) * ChunkSize = d * ChunkSize + ChunkSize /\ d * ChunkSize \in Nat
  BY <1>1, <1>6, Times
<1>9. (d + 1) * ChunkSize > offset BY <1>1, <1>2, <1>6, <1>8
<1>10. (endChunk + 1) * ChunkSize > offset BY <1>1, <1>2, <1>5, <1>7, <1>8, <1>9
<1>11. PlainEnd = size \/ PlainEnd = (endChunk + 1) * ChunkSize
  BY <1>1, <1>2, <1>4, <1>5 DEF PlainEnd
<1> QED BY <1>1, <1>2, <1>3, <1>4, <1>5, <1>10, <1>11 DEF PlainEnd

\* A stream that was not cut ends only after the last chunk.
LEMMA StreamEndsHolds ==
  ASSUME RInv, StreamEnds
  PROVE  RInv'
<1>1. /\ pc = "decrypt" /\ stream.lo = stream.hi /\ pc' = "deliver"
      /\ ending' = IF cut = "reset" THEN "broken" ELSE "eof"
      /\ UNCHANGED <<file, request, chunk, endChunk, stream, plain, cut>>
  BY DEF StreamEnds
<1>2. ChunkSize \in Nat \ {0} /\ TagSize \in Nat \ {0} /\ CipherChunkSize \in Nat
  BY ChunkAssumption DEF CipherChunkSize
<1>3. chunk \in Nat /\ endChunk \in Nat /\ cut \in {"no", "end", "reset"}
  BY DEF RInv, TypeOK
<1>4. ChunkLen(endChunk) \in 1..ChunkSize /\ PlainEnd \in Nat BY <1>1, InObject DEF RInv
<1>5. /\ plain.lo = offset - (offset % ChunkSize) /\ plain.lo <= plain.hi
      /\ plain.hi <= PlainEnd /\ (cut = "no" => plain.hi = PlainEnd)
  <2>1. CASE /\ chunk <= endChunk /\ stream.lo = EncStart(chunk)
             /\ plain.hi = chunk * ChunkSize /\ (cut = "no" => stream.hi = CipherEnd)
    <3>1. EncStart(chunk) <= EncStart(endChunk)
      BY <2>1, <1>2, <1>3, Mult DEF EncStart
    <3>2. EncStart(chunk) \in Nat /\ EncStart(endChunk) \in Nat
      BY <1>2, <1>3, Times DEF EncStart
    <3>3. CipherEnd # EncStart(chunk)
      BY <1>2, <1>4, <3>1, <3>2 DEF CipherEnd
    <3>4. chunk * ChunkSize <= endChunk * ChunkSize /\ chunk * ChunkSize \in Nat
          /\ endChunk * ChunkSize \in Nat
      BY <1>2, <1>3, <2>1, Mult, Times
    <3>5. chunk * ChunkSize <= PlainEnd BY <1>2, <1>4, <3>4 DEF PlainEnd
    <3> QED BY <1>1, <2>1, <3>3, <3>5 DEF RInv, Decrypting
  <2>2. CASE plain.hi = PlainEnd
    BY <1>1, <1>4, <2>2 DEF RInv, Decrypting
  <2> QED BY <1>1, <2>1, <2>2 DEF RInv, Decrypting
<1>6. TypeOK' BY <1>1 DEF RInv, TypeOK, file, request
<1>7. Asked' /\ Chosen' BY <1>1 DEF RInv, Asked, Chosen, PlainEnd, ChunkLen, file,
        request
<1>8. Decrypting' /\ Delivering'
  BY <1>1, <1>5 DEF Decrypting, Delivering, PlainEnd, ChunkLen, file, request
<1>9. Ending' BY <1>1, <1>3 DEF Ending, Stopped
<1> QED BY <1>6, <1>7, <1>8, <1>9 DEF RInv

\* ProxyFile.Read skips to the offset; FUSE takes what is there.
LEMMA DeliverHolds ==
  ASSUME RInv, DeliverDav \/ DeliverFuse
  PROVE  RInv'
<1>1. /\ pc = "deliver" /\ client' = client
      /\ UNCHANGED <<file, request, chunk, endChunk, stream, outcome>>
  BY DEF DeliverDav, DeliverFuse, file
<1>2. ChunkSize \in Nat \ {0} BY ChunkAssumption
<1>3. /\ offset \in Nat /\ length \in Int /\ size \in Nat /\ endChunk \in Nat
      /\ plain \in Interval /\ plain.lo \in Nat /\ plain.hi \in Nat
  BY BoundAssumption DEF RInv, TypeOK, Interval
<1>4. /\ plain.lo = offset - (offset % ChunkSize) /\ plain.lo <= plain.hi
      /\ plain.hi <= PlainEnd /\ (cut = "no" => plain.hi = PlainEnd)
      /\ offset < size /\ endChunk * ChunkSize < size
      /\ PlainEnd >= size \/ PlainEnd >= offset + length
      /\ offset \div ChunkSize <= endChunk
  BY <1>1 DEF RInv, Delivering, Chosen
<1>5. offset % ChunkSize \in 0..(ChunkSize - 1) BY <1>3, ChunkOfOffset
<1>6. endChunk * ChunkSize + ChunkLen(endChunk) <= size /\ ChunkLen(endChunk) \in 1..ChunkSize
  BY <1>3, <1>4, ChunkLength
<1>7. CASE DeliverDav
  <2>1. /\ client = "dav" /\ pc' = "reading"
        /\ plain' = [plain EXCEPT !.lo = plain.lo + (offset % ChunkSize)]
    BY <1>7 DEF DeliverDav, Skip
  <2>2. plain.lo + (offset % ChunkSize) = offset BY <1>2, <1>3, <1>4, <1>5
  <2>3. plain' \in Interval /\ plain'.lo = offset /\ plain'.hi = plain.hi
    BY <1>3, <1>4, <2>1, <2>2 DEF Interval
  <2>4. offset + length = openSize BY <1>1, <2>1 DEF RInv, Asked
  <2>5. TypeOK' BY <1>1, <2>1, <2>3 DEF RInv, TypeOK, file, request, outcome
  <2>6. Asked' /\ Chosen' /\ Decrypting' /\ Ending'
    BY <1>1, <2>1 DEF RInv, Asked, Chosen, Decrypting, Ending, Stopped, file, outcome
  <2>7. PlainEnd <= size /\ PlainEnd \in Int
    <3>1. endChunk * ChunkSize \in Nat BY <1>2, <1>3, Times
    <3> QED BY <1>6, <3>1 DEF PlainEnd
  <2>8. Delivering'
    <3>1. plain'.hi <= size' BY <1>1, <1>3, <1>4, <2>3, <2>7 DEF request
    <3>2. cut' = "no" => plain'.hi >= openSize' \/ plain'.hi >= size'
      BY <1>1, <1>4, <2>3, <2>4 DEF file, request, outcome
    <3> QED BY <1>1, <2>1, <2>3, <3>1, <3>2 DEF Delivering, file, request
  <2> QED BY <2>5, <2>6, <2>8 DEF RInv
<1>8. CASE DeliverFuse
  <2> DEFINE m == Min({length, ChunkSize, plain.hi - plain.lo})
  <2>1. client = "fuse" /\ pc' \in {"done", "error"}
        /\ plain' = [plain EXCEPT !.hi = plain.lo + m]
    BY <1>8 DEF DeliverFuse
  <2>2. length >= 1 BY <2>1 DEF RInv, Asked
  <2>3. plain.hi >= plain.lo BY <1>3, <1>4
  <2>4. m \in Nat
    <3>1. \A x \in {length, ChunkSize, plain.hi - plain.lo} : x \in Nat
      BY <1>2, <1>3, <2>2, <2>3
    <3>2. \E x \in {length, ChunkSize, plain.hi - plain.lo} :
             \A y \in {length, ChunkSize, plain.hi - plain.lo} : x <= y
      BY <3>1
    <3>3. m \in {length, ChunkSize, plain.hi - plain.lo} BY <3>2 DEF Min
    <3> QED BY <3>1, <3>3
  <2> HIDE DEF m
  <2>5. plain' \in Interval BY <1>3, <2>1, <2>4 DEF Interval
  <2>6. TypeOK' BY <1>1, <2>1, <2>5 DEF RInv, TypeOK, file, request, outcome
  <2>7. Asked' /\ Chosen' /\ Decrypting' /\ Delivering' /\ Ending'
    BY <1>1, <2>1 DEF RInv, Asked, Chosen, Decrypting, Delivering, Ending, file, request,
                      outcome
  <2> QED BY <2>6, <2>7 DEF RInv
<1> QED BY <1>7, <1>8

\* A stream that ends before the offset was cut there, or ends with an error.
LEMMA SkipFailsHolds ==
  ASSUME RInv, SkipFails
  PROVE  RInv'
<1>1. /\ pc = "deliver" /\ client = "dav" /\ plain.lo + (offset % ChunkSize) > plain.hi
      /\ pc' = (IF ending = "eof" THEN "eof" ELSE "idle")
      /\ UNCHANGED <<file, request, download>>
  BY DEF SkipFails, Skip
<1>2. offset \in Nat /\ plain.lo \in Nat /\ plain.hi \in Nat
  BY DEF RInv, TypeOK, Interval
<1>3. offset % ChunkSize \in Nat BY <1>2, ChunkOfOffset
<1>4. plain.lo = offset - (offset % ChunkSize) BY <1>1 DEF RInv, Delivering
<1>5. plain.hi < offset BY <1>1, <1>2, <1>3, <1>4
<1>6. PlainEnd > offset /\ PlainEnd \in Nat BY <1>1, EndAfterOffset DEF RInv
<1>7. cut # "no" BY <1>1, <1>2, <1>5, <1>6 DEF RInv, Delivering
<1>8. ending = "eof" => Stopped BY <1>1, <1>7 DEF RInv, Ending
<1>9. pc' \in {"eof", "idle"} /\ (pc' = "eof" => Stopped') BY <1>1, <1>8 DEF Stopped, download, outcome
<1>10. TypeOK' BY <1>1, <1>9 DEF RInv, TypeOK, file, request, download, outcome
<1>11. Asked' /\ Chosen' /\ Decrypting' /\ Delivering'
  BY <1>1, <1>9 DEF RInv, Asked, Chosen, Decrypting, Delivering, file
<1>12. Ending' BY <1>1, <1>9 DEF RInv, Ending, download, outcome
<1> QED BY <1>10, <1>11, <1>12 DEF RInv

\* Reading on moves the offset along.
LEMMA ReadHolds ==
  ASSUME RInv, NEW n \in 1..ChunkSize, Read(n)
  PROVE  RInv'
<1>1. ChunkSize \in Nat \ {0} BY ChunkAssumption
<1>2. n \in Nat BY <1>1
<1>3. /\ pc = "reading" /\ pc' = pc /\ plain.lo + n <= plain.hi
      /\ plain' = [plain EXCEPT !.lo = plain.lo + n] /\ offset' = offset + n
      /\ UNCHANGED <<file, length, size, chunk, endChunk, stream, outcome>>
  BY DEF Read
<1>4. /\ plain \in Interval /\ plain.lo \in Nat /\ plain.hi \in Nat /\ offset \in Nat
      /\ size \in Nat /\ openSize \in Nat
  BY BoundAssumption DEF RInv, TypeOK, Interval
<1>5. plain.lo = offset /\ plain.hi <= size BY <1>3 DEF RInv, Delivering
<1>6. plain' \in Interval /\ plain'.lo = offset' /\ plain'.hi = plain.hi
  BY <1>2, <1>3, <1>4, <1>5 DEF Interval
<1>7. offset' \in Nat /\ offset' <= size BY <1>2, <1>3, <1>4, <1>5
<1>8. TypeOK' BY <1>3, <1>6, <1>7 DEF RInv, TypeOK, file, outcome
<1>9. Asked' /\ Chosen' /\ Decrypting' /\ Ending'
  BY <1>3 DEF RInv, Asked, Chosen, Decrypting, Ending, Stopped, file, outcome
<1>10. Delivering' BY <1>3, <1>6 DEF RInv, Delivering, file, outcome
<1> QED BY <1>8, <1>9, <1>10 DEF RInv

\* The end of the stream is the end of the file, or of what it was, unless the
\* stream was cut.
LEMMA ReadEndsHolds ==
  ASSUME RInv, ReadEnds
  PROVE  RInv'
<1>1. /\ pc = "reading" /\ plain.lo = plain.hi
      /\ pc' = (IF ending = "eof" THEN "eof" ELSE "error")
      /\ UNCHANGED <<file, request, download>>
  BY DEF ReadEnds
<1>2. pc' \in {"eof", "error"} BY <1>1
<1>3. TypeOK' BY <1>1, <1>2 DEF RInv, TypeOK, file, request, download, outcome
<1>4. Asked' /\ Chosen' /\ Decrypting'
  BY <1>1, <1>2 DEF RInv, Asked, Chosen, Decrypting, Delivering, file
<1>5. plain.lo = offset /\ (cut = "no" => offset >= openSize \/ offset >= size)
  BY <1>1 DEF RInv, Delivering
<1>6. ending = "eof" => cut = "no" \/ Stopped BY <1>1 DEF RInv, Ending
<1>7. Delivering'
  BY <1>1, <1>2, <1>5, <1>6 DEF Delivering, Stopped, file, request, download, outcome
<1>8. Ending' BY <1>1, <1>2 DEF RInv, Ending, download, outcome
<1> QED BY <1>3, <1>4, <1>7, <1>8 DEF RInv

-----------------------------------------------------------------------------
(* The theorems *)

\* In every reachable state RInv holds.
THEOREM RangeInductive == Spec => []RInv
<1>1. RInv /\ [Next]_vars => RInv'
  <2> SUFFICES ASSUME RInv, [Next]_vars PROVE RInv'
    OBVIOUS
  <2>1. CASE UNCHANGED vars BY <2>1, StutterHolds
  <2>2. CASE OpenRange BY <2>2, OpenRangeHolds
  <2>3. CASE Fetch BY <2>3, FetchHolds
  <2>4. CASE DecryptChunk BY <2>4, DecryptHolds
  <2>5. CASE StreamEnds BY <2>5, StreamEndsHolds
  <2>6. CASE DeliverDav \/ DeliverFuse BY <2>6, DeliverHolds
  <2>7. CASE ReadAtEnd \/ ReadOpens \/ OpenAtEnd \/ FetchFails BY <2>7, OpeningHolds
  <2>8. CASE ReadEnds BY <2>8, ReadEndsHolds
  <2>9. CASE \E n \in 1..ChunkSize : Read(n) BY <2>9, ReadHolds
  <2>10. CASE \E o \in 0..MaxSize : Seek(o) BY <2>10, SeekHolds
  <2>11. CASE \E n \in 0..MaxSize : Replace(n) BY <2>11, ReplaceHolds
  <2>12. CASE SkipFails BY <2>12, SkipFailsHolds
  <2> QED BY <2>1, <2>2, <2>3, <2>4, <2>5, <2>6, <2>7, <2>8, <2>9, <2>10, <2>11, <2>12
          DEF Next, Step
<1> QED BY InitHolds, <1>1, PTL DEF Spec

\* Sizes, offsets, chunks and intervals keep their types.
THEOREM RangeTypeCorrect == Spec => []TypeOK
<1>1. RInv => TypeOK BY DEF RInv
<1> QED BY RangeInductive, <1>1, PTL

\* Every fetched range is a run of whole sealed chunks inside the object; GCM
\* refuses a piece only of a stream that was cut.
THEOREM ChunksOpen == Spec => []RangesDecrypt
<1>1. RInv => RangesDecrypt
  <2> SUFFICES ASSUME RInv PROVE RangesDecrypt
    OBVIOUS
  <2>1. ending = "refused" => cut # "no" BY DEF RInv, Ending
  <2>2. ASSUME pc = "fetch"
        PROVE  EncStart(chunk) + EncLength(chunk, endChunk) <= ObjectSize
    BY <2>2, LengthFits, InObject DEF RInv
  <2> QED BY <2>1, <2>2 DEF RangesDecrypt
<1> QED BY RangeInductive, <1>1, PTL

\* What was decrypted contains what was asked for, unless the stream was cut,
\* and little more.
THEOREM RequestsAreCovered == Spec => []RangeCovered
<1>1. RInv => RangeCovered
  <2> SUFFICES ASSUME RInv, pc = "deliver"
               PROVE  /\ plain.lo <= offset /\ offset - plain.lo < ChunkSize
                      /\ cut = "no" => plain.hi >= Min({size, offset + Max({length, 0})})
                      /\ plain.hi < offset + Max({length, 1}) + ChunkSize
    BY DEF RangeCovered
  <2>1. ChunkSize \in Nat \ {0} BY ChunkAssumption
  <2>2. /\ offset \in Nat /\ length \in Int /\ size \in Nat /\ endChunk \in Nat
        /\ plain.lo \in Nat /\ plain.hi \in Nat
    BY BoundAssumption DEF RInv, TypeOK, Interval
  <2>3. /\ plain.lo = offset - (offset % ChunkSize)
        /\ plain.hi <= PlainEnd /\ (cut = "no" => plain.hi = PlainEnd)
        /\ offset < size /\ endChunk * ChunkSize < size
        /\ PlainEnd >= size \/ PlainEnd >= offset + length
        /\ offset \div ChunkSize <= endChunk
        /\ endChunk * ChunkSize < offset + Max({length, 1})
    BY DEF RInv, Delivering, Chosen
  <2>4. offset % ChunkSize \in 0..(ChunkSize - 1) BY <2>2, ChunkOfOffset
  <2>5. plain.lo <= offset /\ offset - plain.lo < ChunkSize BY <2>1, <2>2, <2>3, <2>4
  <2>6. /\ ChunkLen(endChunk) \in 1..ChunkSize
        /\ (endChunk + 1) * ChunkSize <= size => ChunkLen(endChunk) = ChunkSize
        /\ (endChunk + 1) * ChunkSize > size => PlainEnd = size
    BY <2>2, <2>3, ChunkLength DEF PlainEnd
  <2>7. endChunk * ChunkSize \in Nat
        /\ (endChunk + 1) * ChunkSize = endChunk * ChunkSize + ChunkSize
    BY <2>1, <2>2, Times
  <2>8. PlainEnd <= endChunk * ChunkSize + ChunkSize
    BY <2>1, <2>6, <2>7 DEF PlainEnd
  <2>9. Max({length, 1}) \in Int BY <2>2, OfTwo
  <2>10. plain.hi < offset + Max({length, 1}) + ChunkSize
    <3>1. PlainEnd \in Int BY <2>6, <2>7 DEF PlainEnd
    <3> QED BY <2>1, <2>2, <2>3, <2>7, <2>8, <2>9, <3>1
  <2>11. PlainEnd > offset /\ PlainEnd \in Nat BY EndAfterOffset DEF RInv
  <2>12. Max({length, 0}) = IF length >= 0 THEN length ELSE 0 BY <2>2, OfTwo
  <2>13. Min({size, offset + Max({length, 0})}) <= size
         /\ Min({size, offset + Max({length, 0})}) <= offset + Max({length, 0})
    BY <2>2, <2>12, OfTwo
  <2>14. Min({size, offset + Max({length, 0})}) \in Int BY <2>2, <2>12, OfTwo
  <2>15. cut = "no" => plain.hi >= Min({size, offset + Max({length, 0})})
    BY <2>2, <2>3, <2>11, <2>12, <2>13, <2>14
  <2> QED BY <2>5, <2>10, <2>15
<1> QED BY RangeInductive, <1>1, PTL

\* A WebDAV reader gets the byte at its offset, and the end of the file early
\* only where the remote's stream stopped between two chunks like the end of a
\* file.
THEOREM DavReadsAreExact == Spec => []DavReadExact
<1>1. RInv => DavReadExact
  <2> SUFFICES ASSUME RInv, client = "dav", pc = "eof", ~Stopped
               PROVE  offset >= Min({openSize, size})
    BY DEF RInv, Delivering, DavReadExact, Stopped
  <2>1. offset \in Nat /\ openSize \in Nat /\ size \in Nat
    BY BoundAssumption DEF RInv, TypeOK
  <2>2. offset >= openSize \/ offset >= size BY DEF RInv, Delivering
  <2>3. Min({openSize, size}) = IF openSize <= size THEN openSize ELSE size
    BY <2>1, OfTwo
  <2> QED BY <2>1, <2>2, <2>3
<1> QED BY RangeInductive, <1>1, PTL
=============================================================================
