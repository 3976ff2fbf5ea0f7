--------------------------- MODULE AUSABufFileProofs ---------------------------
(***************************************************************************)
(* Proofs about a whole file: for every buffer size, window, size of       *)
(* frames, sequence of writes, errors, crash and sequence of reads, the    *)
(* reader hands out the stream in order and never a wrong byte, reaches    *)
(* the last complete frame, and refuses no file that fits its buffers; and *)
(* the whole implements the abstract ByteFile.                             *)
(***************************************************************************)
EXTENDS LZ4InputStreamProofs

-----------------------------------------------------------------------------
(* Reader!RTypeOK is the shape of the state, a short read and a status. *)
LEMMA TypesOfShape ==
  ASSUME ReaderShape, shortRead \in 0 .. MAX_READ,
         rstatus \in {"new", "open", "aborted", "overrun", "exited"}
  PROVE  Reader!RTypeOK
  BY Zenon DEF ReaderShape, Reader!RTypeOK, Cells, Reader!CompressedCapacity

(* And types say so of the state. *)
LEMMA ShapeOfTypes ==
  ASSUME Reader!RTypeOK
  PROVE  /\ ReaderShape /\ shortRead \in 0 .. MAX_READ
         /\ rstatus \in {"new", "open", "aborted", "overrun", "exited"}
  BY Zenon DEF ReaderShape, Reader!RTypeOK, Cells, Reader!CompressedCapacity

(* bufferAvailable lies within the plaintext buffer. *)
LEMMA AvailableIs ==
  ASSUME ReaderShape,
         NEW D, NEW from, NEW m, D = Reader!DecompressedCapacity, from = avail.from,
         m = Reader!InBuffer
  PROVE  /\ D \in Nat /\ from \in Nat /\ m \in Nat /\ from + m <= D
         /\ decompressed \in [0 .. D - 1 -> Nat]
<1>1. PICK to : to = avail.to
  OBVIOUS
<1>2. D \in Nat /\ decompressed \in [0 .. D - 1 -> Nat]
  BY DecompressedRoom DEF ReaderShape
<1>3. from \in 0 .. D /\ to \in 0 .. D /\ from <= to
  BY <1>1 DEF ReaderShape
<1>4. m = to - from
  BY <1>1 DEF Reader!InBuffer
<1> QED BY ONLY <1>2, <1>3, <1>4

(* A step that leaves the reader's buffers and its place in the file alone. *)
LEMMA PlaceKept ==
  ASSUME NEW q, Progress(q), UNCHANGED wvars, Reader!UnchangedFrame
  PROVE  /\ q \in 1 .. Len(sink') + 1
         /\ Passed(q)' /\ Stage(q)' /\ Dictionaried(q)' /\ Leftovers(q)' /\ After(q)' = After(q)
<1>1. /\ UNCHANGED << sink, stored >> /\ (AllComplete' <=> AllComplete)
      /\ (Passed(q)' <=> Passed(q)) /\ After(q)' = After(q) /\ FrameStart(q)' = FrameStart(q)
  BY SameFrames
<1>2. UNCHANGED << file, filePos, nextFrameSize, lastHash, compressed, decompressed, prefixSize >>
  BY DEF Reader!UnchangedFrame
<1>3. q \in 1 .. Len(sink') + 1 /\ Passed(q)'
  BY <1>1 DEF Progress
<1>4. Stage(q)'
  BY <1>1, <1>2 DEF Progress, Stage, AtFrame, NoMore, Doomed, Complete, FrameSize,
                    FRAME_HEADER_SIZE, Reader!Cell
<1>5. Dictionaried(q)'
  BY <1>1, <1>2 DEF Progress, Dictionaried
<1>6. Leftovers(q)'
  BY <1>1, <1>2 DEF Progress, Leftovers, Complete, FrameSize, FRAME_HEADER_SIZE
<1> QED BY <1>1, <1>3, <1>4, <1>5, <1>6

(* A step that changes nothing of the reader's but how it ended. *)
LEMMA ProgressKept ==
  ASSUME NEW q, Progress(q), UNCHANGED wvars, Reader!UnchangedFrame,
         UNCHANGED << avail, delivered >>
  PROVE  Progress(q)'
<1>1. /\ q \in 1 .. Len(sink') + 1
      /\ Passed(q)' /\ Stage(q)' /\ Dictionaried(q)' /\ Leftovers(q)' /\ After(q)' = After(q)
  BY PlaceKept
<1>2. (Interrupted' <=> Interrupted) /\ UNCHANGED << decompressed, prefixSize >>
  BY SameFrames DEF Reader!UnchangedFrame
<1>3. Counted(q)'
  BY <1>1 DEF Progress, Counted, Reader!InBuffer
<1>4. InOrder(q)'
  BY <1>1, <1>2 DEF Progress, InOrder, Reader!InBuffer
<1> QED BY <1>1, <1>3, <1>4 DEF Progress

(* d is the beginning of the stream, and the n bytes of b from offset from on come next. *)
IsStream(d) == \A k \in 1 .. Len(d) : d[k] = k
Bytes(b, from, n) == \A j \in 0 .. n - 1 : b[from + j] \in Nat
Continues(d, b, from, n) == \A j \in 0 .. n - 1 : b[from + j] = Len(d) + 1 + j

Extended(d, b, from, n) == d \o Reader!Plaintext(b, from, n)

(* e is d and at most n bytes behind it. *)
Grows(d, e, n) ==
  /\ Len(d) <= Len(e) /\ Len(e) <= Len(d) + n
  /\ \A k \in 1 .. Len(d) : e[k] = d[k]

(* Bytes handed out twice in a row. *)
LEMMA GrowsTwice ==
  ASSUME NEW d, NEW f, NEW e, NEW m \in Nat, NEW n \in Nat, NEW z \in Nat,
         d \in Seq(Nat), f \in Seq(Nat), e \in Seq(Nat),
         Grows(d, f, m), Grows(f, e, n), m + n <= z
  PROVE  Grows(d, e, z)
<1>1. PICK x, y, w : x = Len(d) /\ y = Len(f) /\ w = Len(e)
  OBVIOUS
<1>2. /\ x \in Nat /\ y \in Nat /\ w \in Nat
      /\ x <= y /\ y <= x + m /\ y <= w /\ w <= y + n
      /\ \A k \in 1 .. x : f[k] = d[k]
      /\ \A k \in 1 .. y : e[k] = f[k]
  BY <1>1 DEF Grows
<1>3. x <= w /\ w <= x + z
  BY ONLY <1>2, m \in Nat, n \in Nat, z \in Nat, m + n <= z
<1>4. \A k \in 1 .. x : k \in 1 .. y
  BY ONLY <1>2
<1>5. \A k \in 1 .. x : e[k] = d[k]
  BY <1>2, <1>4
<1> QED BY <1>1, <1>3, <1>5 DEF Grows

(* Bytes of a buffer handed out behind those that were handed out before. *)
LEMMA HandedOut ==
  ASSUME NEW b, NEW d, NEW from, NEW n, NEW e,
         d \in Seq(Nat), from \in Nat, n \in Nat, Bytes(b, from, n),
         e = Extended(d, b, from, n)
  PROVE  /\ e \in Seq(Nat) /\ Len(e) = Len(d) + n
         /\ IsStream(d) /\ Continues(d, b, from, n) => IsStream(e)
         /\ Grows(d, e, n)
<1>1. PICK p : p = Reader!Plaintext(b, from, n)
  OBVIOUS
<1>2. /\ p \in Seq(Nat) /\ Len(p) = n
      /\ \A k \in 1 .. n : p[k] = b[from + k - 1]
  <2>1. p = [i \in 1 .. n |-> b[from + i - 1]]
    BY <1>1 DEF Reader!Plaintext
  <2>2. \A i \in 1 .. n : b[from + i - 1] \in Nat
    <3>1. \A i \in 1 .. n : i - 1 \in 0 .. n - 1 /\ from + i - 1 = from + (i - 1)
      OBVIOUS
    <3>2. \A j \in 0 .. n - 1 : b[from + j] \in Nat
      BY DEF Bytes
    <3>3. \A i \in 1 .. n : b[from + (i - 1)] \in Nat
      BY <3>1, <3>2
    <3> QED BY <3>1, <3>3
  <2> QED BY <2>1, <2>2
<1>3. /\ e \in Seq(Nat) /\ Len(e) = Len(d) + Len(p)
      /\ Len(d) \in Nat
      /\ \A k \in 1 .. Len(d) : e[k] = d[k]
      /\ \A k \in 1 .. Len(p) : e[Len(d) + k] = p[k]
  <2>1. d \in Seq(Nat) /\ p \in Seq(Nat) /\ e = d \o p
    BY <1>1, <1>2 DEF Extended
  <2> QED BY ONLY <2>1, ConcatAt
<1>4. ASSUME IsStream(d), Continues(d, b, from, n), NEW k \in 1 .. Len(e)
      PROVE  e[k] = k
  <2>1. CASE k <= Len(d)
    <3>1. k \in 1 .. Len(d)
      BY <1>3, <2>1
    <3>2. e[k] = d[k]
      BY <1>3, <3>1
    <3>3. \A m \in 1 .. Len(d) : d[m] = m
      BY <1>4 DEF IsStream
    <3> QED BY <3>1, <3>2, <3>3
  <2>2. CASE ~(k <= Len(d))
    <3>1. PICK m \in 1 .. n : k = Len(d) + m
      <4>1. k - Len(d) \in 1 .. n /\ k = Len(d) + (k - Len(d))
        BY <1>2, <1>3, <2>2
      <4> QED BY <4>1
    <3>2. e[k] = p[m]
      BY <1>2, <1>3, <3>1
    <3>3. p[m] = b[from + m - 1]
      BY <1>2, <3>1
    <3>4. m - 1 \in 0 .. n - 1 /\ from + m - 1 = from + (m - 1)
      BY <3>1
    <3>5. b[from + (m - 1)] = Len(d) + 1 + (m - 1)
      BY <1>4, <3>4 DEF Continues
    <3>6. Len(d) + 1 + (m - 1) = k
      BY <1>3, <3>1
    <3> QED BY <3>2, <3>3, <3>4, <3>5, <3>6
  <2> QED BY <2>1, <2>2
<1>5. Grows(d, e, n)
  BY <1>2, <1>3 DEF Grows
<1> QED BY <1>2, <1>3, <1>4, <1>5 DEF IsStream

-----------------------------------------------------------------------------
(***************************************************************************)
(* A frame taken from the file, of which n bytes have been handed out      *)
(* behind what was in the buffer.                                          *)
(***************************************************************************)
LEMMA FrameTaken ==
  ASSUME NEW q, Reading(q), UNCHANGED wvars, NEW r, Took(q, r),
         NEW n \in Nat, n <= Len(sink[q].plain),
         avail' = [from |-> n, to |-> Len(sink[q].plain)],
         delivered' \in Seq(Nat), Len(delivered') = Len(delivered) + Reader!InBuffer + n,
         ~Interrupted => \A k \in 1 .. Len(delivered') : delivered'[k] = k
  PROVE  Reading(r)'
<1>1. /\ WriterFacts /\ ReaderShape /\ file = Reader!Bytes /\ Counted(q)
      /\ q \in 1 .. Len(sink)
  BY DEF Reading, Progress, Took
<1>2. PICK p : p = Len(sink[q].plain)
  OBVIOUS
<1>3. /\ p \in Nat /\ After(q) \in Nat /\ Reader!DecompressedCapacity \in Nat
      /\ After(r)' = After(q) + p /\ prefixSize' = p /\ p \in 1 .. Reader!DecompressedCapacity
      /\ avail'.from = n /\ avail'.to = p
  BY <1>1, <1>2, FactsType, DecompressedRoom DEF Took
<1>4. PICK d, b, e : d = Len(delivered) /\ b = Reader!InBuffer /\ e = Len(delivered')
  OBVIOUS
<1>5. d \in Nat /\ b \in Int /\ e = d + b + n /\ d + b = After(q)
  <2>1. d \in Nat /\ avail.from \in Nat /\ avail.to \in Nat
    BY <1>1, <1>3, <1>4 DEF ReaderShape
  <2>2. b \in Int
    BY <1>4, <2>1 DEF Reader!InBuffer
  <2> QED BY <1>1, <1>4, <2>1, <2>2 DEF Counted
<1>6. ReaderShape'
  <2>1. avail' \in [from : 0 .. Reader!DecompressedCapacity, to : 0 .. Reader!DecompressedCapacity]
    BY <1>2, <1>3
  <2>2. file' \in Seq(Cells) /\ filePos' \in 0 .. Len(file')
    BY <1>1 DEF Took, ReaderShape
  <2>3. prefixSize' \in 0 .. Reader!DecompressedCapacity
    BY <1>3
  <2>4. avail'.from <= avail'.to
    BY <1>2, <1>3
  <2> QED BY <2>1, <2>2, <2>3, <2>4 DEF Took, ReaderShape, Reader!DecompressedCapacity
<1>7. Counted(r)'
  <2>1. e + (p - n) = After(q) + p
    BY <1>3, <1>5
  <2> QED BY <1>3, <1>4, <2>1 DEF Counted, Reader!InBuffer
<1>8. InOrder(r)'
  <2> SUFFICES ASSUME ~Interrupted'
               PROVE  /\ \A k \in 1 .. Len(delivered') : delivered'[k] = k
                      /\ \A j \in 0 .. Reader!InBuffer' - 1 :
                           decompressed'[avail'.from + j] = Len(delivered') + 1 + j
                      /\ \A i \in 0 .. prefixSize' - 1 :
                           decompressed'[i] = After(r)' - prefixSize' + 1 + i
    BY DEF InOrder
  <2>1. ~Interrupted
    BY SameFrames
  <2>2. \A i \in 0 .. p - 1 : decompressed'[i] = After(q) + 1 + i
    BY <1>3, <2>1 DEF Took
  <2>3. ASSUME NEW j \in 0 .. Reader!InBuffer' - 1
        PROVE  decompressed'[avail'.from + j] = Len(delivered') + 1 + j
    <3>1. j \in 0 .. (p - n) - 1
      BY <1>3 DEF Reader!InBuffer
    <3>2. n + j \in 0 .. p - 1
      BY <1>3, <3>1
    <3>3. decompressed'[n + j] = After(q) + 1 + (n + j)
      BY <2>2, <3>2
    <3>4. After(q) + 1 + (n + j) = e + 1 + j
      BY <1>3, <1>5, <3>1
    <3> QED BY <1>3, <1>4, <3>3, <3>4
  <2>4. ASSUME NEW i \in 0 .. prefixSize' - 1
        PROVE  decompressed'[i] = After(r)' - prefixSize' + 1 + i
    <3>1. i \in 0 .. p - 1
      BY <1>3
    <3>2. After(q) + p - p + 1 + i = After(q) + 1 + i
      BY <1>3, <3>1
    <3> QED BY <1>3, <2>2, <3>1, <3>2
  <2> QED BY <2>1, <2>3, <2>4
<1>9. /\ r \in 1 .. Len(sink') + 1 /\ WriterFacts' /\ file' = Reader!Bytes'
      /\ Passed(r)' /\ Stage(r)' /\ Dictionaried(r)' /\ Leftovers(r)'
  <2>1. sink' = sink /\ WriterFacts' /\ file' = Reader!Bytes'
    BY <1>1, SameFrames DEF Took
  <2>2. r \in 1 .. Len(sink) + 1
    BY <1>1 DEF Took
  <2> QED BY <2>1, <2>2 DEF Took
<1>10. Progress(r)'
  BY <1>7, <1>8, <1>9 DEF Progress
<1> QED BY <1>6, <1>9, <1>10 DEF Reading

(* tryRead, served from the buffer. *)
LEMMA FromBuffer ==
  ASSUME NEW q, Reading(q), UNCHANGED wvars,
         NEW maxBytes \in Nat, NEW minBytes \in Nat, minBytes <= maxBytes,
         Reader!ReadFromBuffer(minBytes, maxBytes)
  PROVE  /\ Reading(q)' /\ shortRead' = 0 /\ Grows(delivered, delivered', maxBytes)
         /\ Len(delivered) + minBytes <= Len(delivered')
<1>1. PICK n : n = Reader!Served(maxBytes)
  OBVIOUS
<1>2. /\ delivered' = delivered \o Reader!Plaintext(decompressed, avail.from, n)
      /\ avail' = [avail EXCEPT !.from = @ + n]
      /\ shortRead' = 0 /\ Reader!UnchangedFrame
  BY <1>1 DEF Reader!ReadFromBuffer
<1>3. PICK D, from, to : D = Reader!DecompressedCapacity /\ from = avail.from /\ to = avail.to
  OBVIOUS
<1>4. /\ D \in Nat /\ from \in Nat /\ to \in Nat /\ from <= to /\ to <= D
      /\ avail \in [from : 0 .. D, to : 0 .. D]
      /\ decompressed \in [0 .. D - 1 -> Nat] /\ delivered \in Seq(Nat) /\ Len(delivered) \in Nat
      /\ Reader!InBuffer = to - from
  <2>1. D \in Nat /\ ReaderShape
    BY <1>3, DecompressedRoom DEF Reading
  <2>2. /\ avail \in [from : 0 .. D, to : 0 .. D] /\ avail.from <= avail.to
        /\ decompressed \in [0 .. D - 1 -> Nat] /\ delivered \in Seq(Nat)
    BY <1>3, <2>1 DEF ReaderShape
  <2>3. from \in 0 .. D /\ to \in 0 .. D
    BY <1>3, <2>2
  <2>4. Reader!InBuffer = to - from
    BY <1>3 DEF Reader!InBuffer
  <2> QED BY <1>3, <2>1, <2>2, <2>3, <2>4
<1>5. n \in Nat /\ n <= to - from
  BY <1>1, <1>4 DEF Reader!Served, Reader!AtMost
<1>6. avail' = [from |-> from + n, to |-> to] /\ avail'.from = from + n /\ avail'.to = to
  BY <1>2, <1>3, <1>4
<1>7. /\ delivered' \in Seq(Nat) /\ Len(delivered') = Len(delivered) + n
      /\ Grows(delivered, delivered', n)
      /\ IsStream(delivered) /\ Continues(delivered, decompressed, from, n) => IsStream(delivered')
  <2>1. PICK b, d, e : b = decompressed /\ d = delivered /\ e = delivered'
    OBVIOUS
  <2>2. d \in Seq(Nat) /\ e = Extended(d, b, from, n)
    BY <1>2, <1>3, <1>4, <2>1 DEF Extended
  <2>3. from \in Nat /\ n \in Nat
    BY <1>4, <1>5
  <2>5. Bytes(b, from, n)
    <3>1. \A j \in 0 .. n - 1 : from + j \in 0 .. D - 1
      BY <1>4, <1>5
    <3> QED BY <1>4, <2>1, <3>1 DEF Bytes
  <2>4. /\ e \in Seq(Nat) /\ Len(e) = Len(d) + n
        /\ IsStream(d) /\ Continues(d, b, from, n) => IsStream(e)
        /\ Grows(d, e, n)
    BY ONLY <2>2, <2>3, <2>5, HandedOut
  <2> QED BY <2>1, <2>4
<1>8. /\ Progress(q) /\ WriterFacts /\ file = Reader!Bytes
      /\ UNCHANGED << file, filePos, nextFrameSize, lastHash, compressed, decompressed, prefixSize >>
      /\ (Interrupted' <=> Interrupted)
  BY <1>2, SameFrames DEF Reading, Reader!UnchangedFrame
<1>9. /\ q \in 1 .. Len(sink') + 1
      /\ Passed(q)' /\ Stage(q)' /\ Dictionaried(q)' /\ Leftovers(q)' /\ After(q)' = After(q)
  BY <1>2, <1>8, PlaceKept
<1>10. Counted(q)'
  <2>1. Len(delivered) + (to - from) = After(q)
    BY <1>4, <1>8 DEF Progress, Counted
  <2>2. Len(delivered') + (to - (from + n)) = Len(delivered) + (to - from)
    BY <1>4, <1>5, <1>7
  <2> QED BY <1>6, <1>9, <2>1, <2>2 DEF Counted, Reader!InBuffer
<1>11. InOrder(q)'
  <2> SUFFICES ASSUME ~Interrupted'
               PROVE  /\ \A k \in 1 .. Len(delivered') : delivered'[k] = k
                      /\ \A j \in 0 .. Reader!InBuffer' - 1 :
                           decompressed'[avail'.from + j] = Len(delivered') + 1 + j
                      /\ \A i \in 0 .. prefixSize' - 1 :
                           decompressed'[i] = After(q)' - prefixSize' + 1 + i
    BY DEF InOrder
  <2>1. /\ \A k \in 1 .. Len(delivered) : delivered[k] = k
        /\ \A j \in 0 .. (to - from) - 1 : decompressed[from + j] = Len(delivered) + 1 + j
        /\ \A i \in 0 .. prefixSize - 1 : decompressed[i] = After(q) - prefixSize + 1 + i
    BY <1>3, <1>4, <1>8 DEF Progress, InOrder
  <2>2. \A k \in 1 .. Len(delivered') : delivered'[k] = k
    <3>1. \A j \in 0 .. n - 1 : j \in 0 .. (to - from) - 1
      BY <1>4, <1>5
    <3>2. IsStream(delivered) /\ Continues(delivered, decompressed, from, n)
      BY <2>1, <3>1 DEF IsStream, Continues
    <3> QED BY <1>7, <3>2 DEF IsStream
  <2>3. ASSUME NEW j \in 0 .. Reader!InBuffer' - 1
        PROVE  decompressed'[avail'.from + j] = Len(delivered') + 1 + j
    <3>1. j \in 0 .. (to - (from + n)) - 1
      BY <1>6 DEF Reader!InBuffer
    <3>2. n + j \in 0 .. (to - from) - 1 /\ from + n + j = from + (n + j)
      BY <1>4, <1>5, <3>1
    <3>3. decompressed[from + (n + j)] = Len(delivered) + 1 + (n + j)
      BY <2>1, <3>2
    <3>4. Len(delivered) + 1 + (n + j) = Len(delivered') + 1 + j
      BY <1>4, <1>5, <1>7, <3>1
    <3> QED BY <1>6, <1>8, <3>2, <3>3, <3>4
  <2>4. \A i \in 0 .. prefixSize' - 1 : decompressed'[i] = After(q)' - prefixSize' + 1 + i
    BY <1>8, <1>9, <2>1
  <2> QED BY <2>2, <2>3, <2>4
<1>12. ReaderShape'
  <2>1. avail' \in [from : 0 .. D, to : 0 .. D] /\ avail'.from <= avail'.to
    BY <1>4, <1>5, <1>6
  <2>2. Reader!DecompressedCapacity' = Reader!DecompressedCapacity
    BY DEF Reader!DecompressedCapacity
  <2> QED BY <1>3, <1>7, <1>8, <2>1, <2>2 DEF Reading, ReaderShape
<1>13. WriterFacts' /\ file' = Reader!Bytes'
  BY <1>8, SameFrames
<1>14. Grows(delivered, delivered', maxBytes)
  <2>1. n <= maxBytes
    BY <1>1, <1>4 DEF Reader!Served, Reader!AtMost
  <2>2. Len(delivered') <= Len(delivered) + maxBytes
    BY <1>4, <1>5, <1>7, <2>1
  <2> QED BY <1>7, <2>2 DEF Grows
<1>15. Len(delivered) + minBytes <= Len(delivered')
  <2>1. minBytes <= to - from
    BY <1>4 DEF Reader!ReadFromBuffer
  <2>2. minBytes <= n
    BY <1>1, <1>4, <2>1 DEF Reader!Served, Reader!AtMost
  <2> QED BY <1>4, <1>5, <1>7, <2>2
<1> QED BY <1>2, <1>9, <1>10, <1>11, <1>12, <1>13, <1>14, <1>15 DEF Reading, Progress

(***************************************************************************)
(* tryRead, across the end of the buffer: what was in it, then the first   *)
(* bytes of the next frame.  The type correctness of the copies is here.   *)
(***************************************************************************)
LEMMA AcrossFrame ==
  ASSUME NEW q, Reading(q), UNCHANGED wvars,
         NEW maxBytes \in Nat, NEW minBytes \in Nat, minBytes <= maxBytes,
         minBytes > Reader!InBuffer,
         NEW id \in DOMAIN sink, Reader!ReadFrame(id),
         NEW n, n = Reader!AtMost(Len(sink[id].plain), Reader!Wanted(maxBytes)),
         delivered' = delivered \o Reader!Plaintext(decompressed, avail.from, Reader!InBuffer)
                                \o Reader!Plaintext(decompressed', 0, n),
         avail' = Reader!Slice(n, Len(sink[id].plain))
  PROVE  /\ id = q /\ n \in Nat /\ \E r : Took(q, r) /\ Reading(r)'
         /\ Grows(delivered, delivered', maxBytes)
         /\ Len(delivered') = Len(delivered) + Reader!InBuffer + n
<1>1. id = q /\ \E r : Took(q, r)
  BY FrameRead
<1>2. PICK r : Took(q, r)
  BY <1>1
<1>3. PICK D, from, m, p : /\ D = Reader!DecompressedCapacity /\ from = avail.from
                           /\ m = Reader!InBuffer /\ p = Len(sink[q].plain)
  OBVIOUS
<1>4. /\ D \in Nat /\ from \in Nat /\ m \in Nat /\ from + m <= D
      /\ decompressed \in [0 .. D - 1 -> Nat]
  BY <1>3, AvailableIs DEF Reading
<1>5. q \in 1 .. Len(sink) /\ p \in Nat /\ After(q) \in Nat
  BY <1>2, <1>3, FactsType DEF Took, Reading
<1>6. n \in Nat /\ n <= p
  <2>1. maxBytes - m \in Nat
    BY <1>3, <1>4
  <2> QED BY <1>1, <1>3, <1>5, <2>1 DEF Reader!AtMost, Reader!Wanted
<1>7. avail' = [from |-> n, to |-> p]
  BY <1>1, <1>3 DEF Reader!Slice
<1>8. PICK b, c, d, f, e : /\ b = decompressed /\ c = decompressed' /\ d = delivered
                           /\ f = Extended(d, b, from, m) /\ e = Extended(f, c, 0, n)
  OBVIOUS
<1>9. e = delivered' /\ d \in Seq(Nat)
  BY <1>3, <1>8 DEF Extended, Reading, ReaderShape
<1>10. Bytes(b, from, m)
  <2>1. \A j \in 0 .. m - 1 : from + j \in 0 .. D - 1
    BY <1>4
  <2> QED BY <1>4, <1>8, <2>1 DEF Bytes
<1>11. Bytes(c, 0, n)
  <2>1. c \in [0 .. D - 1 -> Nat] /\ p \in 1 .. D
    BY <1>2, <1>3, <1>8 DEF Took
  <2>2. \A j \in 0 .. n - 1 : 0 + j \in 0 .. D - 1
    BY <1>4, <1>5, <1>6, <2>1
  <2> QED BY <2>1, <2>2 DEF Bytes
<1>12. /\ f \in Seq(Nat) /\ Len(f) = Len(d) + m
       /\ IsStream(d) /\ Continues(d, b, from, m) => IsStream(f)
       /\ Grows(d, f, m)
  <2>1. d \in Seq(Nat) /\ from \in Nat /\ m \in Nat /\ f = Extended(d, b, from, m)
    BY <1>4, <1>8, <1>9
  <2> QED BY ONLY <1>10, <2>1, HandedOut
<1>13. /\ e \in Seq(Nat) /\ Len(e) = Len(f) + n
       /\ IsStream(f) /\ Continues(f, c, 0, n) => IsStream(e)
       /\ Grows(f, e, n)
  <2>1. 0 \in Nat /\ n \in Nat
    BY <1>6
  <2>2. f \in Seq(Nat) /\ e = Extended(f, c, 0, n)
    BY <1>8, <1>12
  <2> QED BY ONLY <1>11, <2>1, <2>2, HandedOut
<1>14. Len(f) = After(q)
  BY <1>3, <1>8, <1>12 DEF Reading, Progress, Counted
<1>15. ~Interrupted => IsStream(e)
  <2> SUFFICES ASSUME ~Interrupted PROVE IsStream(e)
    OBVIOUS
  <2>1. /\ \A k \in 1 .. Len(delivered) : delivered[k] = k
        /\ \A j \in 0 .. Reader!InBuffer - 1 : decompressed[avail.from + j] = Len(delivered) + 1 + j
    BY DEF Reading, Progress, InOrder
  <2>2. IsStream(d) /\ Continues(d, b, from, m)
    BY <1>3, <1>8, <2>1 DEF IsStream, Continues
  <2>3. Continues(f, c, 0, n)
    <3>1. \A i \in 0 .. p - 1 : c[i] = After(q) + 1 + i
      BY <1>2, <1>3, <1>8 DEF Took
    <3>2. \A j \in 0 .. n - 1 : j \in 0 .. p - 1 /\ 0 + j = j
      BY <1>5, <1>6
    <3>3. \A j \in 0 .. n - 1 : c[0 + j] = After(q) + 1 + j
      BY <3>1, <3>2
    <3> QED BY <1>14, <3>3 DEF Continues
  <2> QED BY <1>12, <1>13, <2>2, <2>3
<1>16. Len(delivered') = Len(delivered) + Reader!InBuffer + n
  BY <1>3, <1>8, <1>9, <1>12, <1>13
<1>17. Reading(r)'
  <2>1. Len(delivered') = Len(delivered) + Reader!InBuffer + n
    BY <1>16
  <2>2. ~Interrupted => \A k \in 1 .. Len(delivered') : delivered'[k] = k
    BY <1>9, <1>15 DEF IsStream
  <2>3. delivered' \in Seq(Nat)
    BY <1>9, <1>13
  <2>4. n <= Len(sink[q].plain) /\ avail' = [from |-> n, to |-> Len(sink[q].plain)]
    BY <1>3, <1>6, <1>7
  <2> QED BY <1>2, <1>6, <2>1, <2>2, <2>3, <2>4, FrameTaken
<1>18. Grows(delivered, delivered', maxBytes)
  <2>1. m + n <= maxBytes
    <3>1. Reader!Wanted(maxBytes) = maxBytes - m /\ maxBytes - m \in Nat
      BY <1>3, <1>4 DEF Reader!Wanted
    <3>2. n <= maxBytes - m
      BY <1>1, <1>3, <1>5, <3>1 DEF Reader!AtMost
    <3> QED BY <1>4, <1>6, <3>1, <3>2
  <2>2. d \in Seq(Nat) /\ f \in Seq(Nat) /\ e \in Seq(Nat)
    BY <1>9, <1>12, <1>13
  <2>3. Grows(d, f, m) /\ Grows(f, e, n)
    BY <1>12, <1>13
  <2>4. m \in Nat /\ n \in Nat
    BY <1>4, <1>6
  <2>5. Grows(d, e, maxBytes)
    BY ONLY <2>1, <2>2, <2>3, <2>4, maxBytes \in Nat, GrowsTwice
  <2> QED BY <1>8, <1>9, <2>5
<1> QED BY <1>1, <1>2, <1>6, <1>17, <1>18, <1>16

(* tryRead at the end of the file: what was in the buffer, and nothing more. *)
LEMMA AcrossEnd ==
  ASSUME NEW q, Reading(q), UNCHANGED wvars, Reader!UnchangedFrame,
         delivered' = delivered \o Reader!Plaintext(decompressed, avail.from, Reader!InBuffer),
         avail' = Reader!Slice(0, 0)
  PROVE  /\ Reading(q)' /\ Grows(delivered, delivered', Reader!InBuffer)
         /\ Len(delivered') = Len(delivered) + Reader!InBuffer
<1>1. PICK D, from, m : /\ D = Reader!DecompressedCapacity /\ from = avail.from
                        /\ m = Reader!InBuffer
  OBVIOUS
<1>2. /\ D \in Nat /\ from \in Nat /\ m \in Nat /\ from + m <= D
      /\ decompressed \in [0 .. D - 1 -> Nat]
  BY <1>1, AvailableIs DEF Reading
<1>3. PICK b, d, e : b = decompressed /\ d = delivered /\ e = Extended(d, b, from, m)
  OBVIOUS
<1>4. e = delivered' /\ d \in Seq(Nat)
  BY <1>1, <1>3 DEF Extended, Reading, ReaderShape
<1>5. Bytes(b, from, m)
  <2>1. \A j \in 0 .. m - 1 : from + j \in 0 .. D - 1
    BY <1>2
  <2> QED BY <1>2, <1>3, <2>1 DEF Bytes
<1>6. /\ e \in Seq(Nat) /\ Len(e) = Len(d) + m
      /\ IsStream(d) /\ Continues(d, b, from, m) => IsStream(e)
      /\ Grows(d, e, m)
  <2>1. d \in Seq(Nat) /\ from \in Nat /\ m \in Nat /\ e = Extended(d, b, from, m)
    BY <1>2, <1>3, <1>4
  <2> QED BY ONLY <1>5, <2>1, HandedOut
<1>7. ~Interrupted => IsStream(e)
  <2> SUFFICES ASSUME ~Interrupted PROVE IsStream(e)
    OBVIOUS
  <2>1. /\ \A k \in 1 .. Len(delivered) : delivered[k] = k
        /\ \A j \in 0 .. Reader!InBuffer - 1 : decompressed[avail.from + j] = Len(delivered) + 1 + j
    BY DEF Reading, Progress, InOrder
  <2>2. IsStream(d) /\ Continues(d, b, from, m)
    BY <1>1, <1>3, <2>1 DEF IsStream, Continues
  <2> QED BY <1>6, <2>2
<1>8. /\ Progress(q) /\ WriterFacts /\ file = Reader!Bytes
      /\ UNCHANGED << file, filePos, nextFrameSize, lastHash, compressed, decompressed, prefixSize >>
      /\ (Interrupted' <=> Interrupted)
  BY SameFrames DEF Reading, Reader!UnchangedFrame
<1>9. /\ q \in 1 .. Len(sink') + 1
      /\ Passed(q)' /\ Stage(q)' /\ Dictionaried(q)' /\ Leftovers(q)' /\ After(q)' = After(q)
  BY <1>8, PlaceKept
<1>10. avail' = [from |-> 0, to |-> 0] /\ Reader!InBuffer' = 0
  BY DEF Reader!Slice, Reader!InBuffer
<1>11. Len(delivered') = Len(delivered) + Reader!InBuffer
  BY <1>1, <1>3, <1>4, <1>6
<1>12. Counted(q)'
  <2>1. Len(delivered') = Len(delivered) + Reader!InBuffer
    BY <1>11
  <2>2. Len(delivered') \in Nat
    BY <1>4, <1>6
  <2> QED BY <1>8, <1>9, <1>10, <2>1, <2>2 DEF Progress, Counted
<1>13. InOrder(q)'
  <2>1. ~Interrupted' => \A k \in 1 .. Len(delivered') : delivered'[k] = k
    BY <1>4, <1>7, <1>8 DEF IsStream
  <2>2. ~Interrupted' => \A i \in 0 .. prefixSize' - 1 :
                           decompressed'[i] = After(q)' - prefixSize' + 1 + i
    BY <1>8, <1>9 DEF Progress, InOrder
  <2>3. \A j \in 0 .. Reader!InBuffer' - 1 : FALSE
    BY <1>10
  <2> QED BY <2>1, <2>2, <2>3 DEF InOrder
<1>14. ReaderShape'
  <2>1. /\ avail' \in [from : 0 .. D, to : 0 .. D] /\ avail'.from <= avail'.to
        /\ delivered' \in Seq(Nat)
    BY <1>2, <1>4, <1>6, <1>10
  <2>2. Reader!DecompressedCapacity' = Reader!DecompressedCapacity
    BY DEF Reader!DecompressedCapacity
  <2> QED BY <1>1, <1>8, <2>1, <2>2 DEF Reading, ReaderShape
<1>15. WriterFacts' /\ file' = Reader!Bytes'
  BY <1>8, SameFrames
<1>16. Grows(delivered, delivered', Reader!InBuffer)
  BY <1>1, <1>3, <1>4, <1>6
<1> QED BY <1>9, <1>12, <1>13, <1>14, <1>15, <1>16, <1>11 DEF Reading, Progress

(* A step that only ends the reader, or does nothing. *)
LEMMA ReadingKept ==
  ASSUME NEW q, Reading(q), UNCHANGED wvars, Reader!UnchangedFrame,
         UNCHANGED << avail, delivered >>
  PROVE  Reading(q)' /\ \A n \in Nat : Grows(delivered, delivered', n)
<1>1. Progress(q)'
  BY ProgressKept DEF Reading
<1>2. WriterFacts' /\ file' = Reader!Bytes'
  BY SameFrames DEF Reading, Reader!UnchangedFrame
<1>3. ReaderShape'
  BY DEF Reading, Reader!UnchangedFrame, ReaderShape, Reader!DecompressedCapacity
<1>4. ASSUME NEW n \in Nat PROVE Grows(delivered, delivered', n)
  <2>1. Len(delivered) \in Nat
    BY LenProperties DEF Reading, ReaderShape
  <2>2. Len(delivered) <= Len(delivered) /\ Len(delivered) <= Len(delivered) + n
    BY <2>1
  <2> QED BY <2>2 DEF Grows
<1> QED BY <1>1, <1>2, <1>3, <1>4 DEF Reading

(* tryRead keeps the reader's place, whatever sizes it is asked for. *)
LEMMA TryReadKeeps ==
  ASSUME NEW q, Reading(q), UNCHANGED wvars,
         NEW maxBytes \in Nat, NEW minBytes \in Nat, minBytes <= maxBytes,
         Reader!TryRead(minBytes, maxBytes)
  PROVE  /\ \E r : Reading(r)'
         /\ shortRead' \in {0, shortRead, minBytes}
         /\ rstatus' \in {"open", "aborted", "overrun", "exited"}
         /\ Grows(delivered, delivered', maxBytes)
<1>1. CASE Reader!ReadFromBuffer(minBytes, maxBytes)
  BY <1>1, FromBuffer DEF Reader!ReadFromBuffer, Reader!TryRead
<1>2. CASE Reader!ReadUnsupported(minBytes, maxBytes)
  BY <1>2, ReadingKept DEF Reader!ReadUnsupported
<1>3. CASE Reader!ReadAcross(minBytes, maxBytes)
  <2>1. minBytes > Reader!InBuffer
    BY <1>3 DEF Reader!ReadAcross
  <2>2. ASSUME NEW id \in DOMAIN sink, NEW n, n = Reader!AtMost(Len(sink[id].plain), Reader!Wanted(maxBytes)),
               Reader!ReadFrame(id),
               delivered' = delivered
                 \o Reader!Plaintext(decompressed, avail.from, Reader!InBuffer)
                 \o Reader!Plaintext(decompressed', 0, n),
               avail' = Reader!Slice(n, Len(sink[id].plain))
        PROVE  (\E r : Reading(r)') /\ Grows(delivered, delivered', maxBytes)
    BY <2>1, <2>2, AcrossFrame
  <2>3. CASE \E id \in DOMAIN sink :
          /\ Reader!ReadFrame(id)
          /\ LET n == Reader!AtMost(Len(sink[id].plain), Reader!Wanted(maxBytes)) IN
             /\ delivered' = delivered
                  \o Reader!Plaintext(decompressed, avail.from, Reader!InBuffer)
                  \o Reader!Plaintext(decompressed', 0, n)
             /\ avail' = Reader!Slice(n, Len(sink[id].plain))
             /\ shortRead' = IF Reader!InBuffer + n < minBytes THEN minBytes ELSE 0
          /\ UNCHANGED rstatus
    BY <2>2, <2>3 DEF Reader!TryRead
  <2>4. CASE /\ Reader!AtEnd
             /\ delivered' = delivered
                  \o Reader!Plaintext(decompressed, avail.from, Reader!InBuffer)
             /\ avail' = Reader!Slice(0, 0)
             /\ shortRead' = minBytes
             /\ Reader!UnchangedFrame
             /\ UNCHANGED rstatus
    <3>1. Reading(q)' /\ Grows(delivered, delivered', Reader!InBuffer)
      BY <2>4, AcrossEnd
    <3>2. Grows(delivered, delivered', maxBytes)
      <4>1. Reader!InBuffer \in Nat /\ Len(delivered) \in Nat /\ Len(delivered') \in Nat
        BY <3>1, AvailableIs, LenProperties DEF Reading, ReaderShape
      <4>2. Len(delivered') <= Len(delivered) + maxBytes
        BY <2>1, <3>1, <4>1 DEF Grows
      <4> QED BY <3>1, <4>2 DEF Grows
    <3> QED BY <2>4, <3>1, <3>2 DEF Reader!TryRead
  <2>5. CASE Reader!Dies
    BY <2>5, ReadingKept DEF Reader!Dies, Reader!UnchangedFrame
  <2> QED BY <1>3, <2>3, <2>4, <2>5, Zenon DEF Reader!ReadAcross
<1> QED BY <1>1, <1>2, <1>3 DEF Reader!TryRead

(* tryGetReadBuffer keeps the reader's place. *)
LEMMA GetBufferKeeps ==
  ASSUME NEW q, Reading(q), UNCHANGED wvars, Reader!TryGetReadBuffer
  PROVE  /\ \E r : Reading(r)'
         /\ shortRead' = shortRead /\ rstatus' \in {"open", "aborted", "overrun", "exited"}
         /\ UNCHANGED delivered
<1>1. rstatus = "open" /\ Reader!InBuffer = 0
  BY DEF Reader!TryGetReadBuffer
<1>2. ASSUME NEW id \in DOMAIN sink, Reader!ReadFrame(id),
             avail' = Reader!Slice(0, Len(sink[id].plain)), UNCHANGED delivered
      PROVE  \E r : Reading(r)'
  <2>1. id = q /\ \E r : Took(q, r)
    BY <1>2, FrameRead
  <2>2. PICK r : Took(q, r)
    BY <2>1
  <2>3. avail' = [from |-> 0, to |-> Len(sink[q].plain)]
    BY <1>2, <2>1 DEF Reader!Slice
  <2>4. /\ delivered \in Seq(Nat) /\ Len(delivered) \in Nat
        /\ ~Interrupted => \A k \in 1 .. Len(delivered) : delivered[k] = k
    BY DEF Reading, ReaderShape, Progress, InOrder
  <2>5. q \in 1 .. Len(sink) /\ Len(sink[q].plain) \in Nat
    BY <2>2, FactsType DEF Took, Reading
  <2>6. Len(delivered') = Len(delivered) + Reader!InBuffer + 0
    BY <1>1, <1>2, <2>4
  <2>7. /\ delivered' \in Seq(Nat) /\ 0 \in Nat /\ 0 <= Len(sink[q].plain)
        /\ ~Interrupted => \A k \in 1 .. Len(delivered') : delivered'[k] = k
    BY <1>2, <2>4, <2>5
  <2>8. Reading(r)'
    BY <2>2, <2>3, <2>6, <2>7, FrameTaken
  <2> QED BY <2>8
<1>3. CASE /\ Reader!AtEnd
           /\ avail' = Reader!Slice(0, 0)
           /\ Reader!UnchangedFrame
           /\ UNCHANGED << delivered, shortRead, rstatus >>
  <2>1. delivered' = delivered \o Reader!Plaintext(decompressed, avail.from, Reader!InBuffer)
    <3>1. Reader!Plaintext(decompressed, avail.from, Reader!InBuffer) = << >>
      BY <1>1 DEF Reader!Plaintext
    <3>2. delivered \in Seq(Nat)
      BY DEF Reading, ReaderShape
    <3> QED BY <1>3, <3>1, <3>2
  <2> QED BY <1>1, <1>3, <2>1, AcrossEnd
<1>4. CASE Reader!Dies
  BY <1>4, ReadingKept DEF Reader!Dies, Reader!UnchangedFrame
<1>5. CASE \E id \in DOMAIN sink :
          /\ Reader!ReadFrame(id)
          /\ avail' = Reader!Slice(0, Len(sink[id].plain))
          /\ UNCHANGED << delivered, shortRead, rstatus >>
  BY <1>1, <1>2, <1>5
<1>6. UNCHANGED delivered
  BY DEF Reader!TryGetReadBuffer, Reader!Dies
<1> QED BY <1>3, <1>4, <1>5, <1>6, Zenon DEF Reader!TryGetReadBuffer

-----------------------------------------------------------------------------
(***************************************************************************)
(* The constructor finds the header of the first frame of which anything   *)
(* landed, or that there is none, or garbage that will be refused.         *)
(***************************************************************************)
LEMMA OpenReads ==
  ASSUME WriterFacts, Reader!RInit, UNCHANGED wvars, Reader!Open
  PROVE  /\ \E q : Reading(q)'
         /\ shortRead' = 0 /\ rstatus' = "open"
<1>1. /\ FramesTyped /\ FramesChained /\ Len(sink) \in Nat /\ DOMAIN sink = 1 .. Len(sink)
      /\ After(1) = 0
  BY FactsType DEF WriterFacts, FrameInv, FramesChained
<1>2. PICK s, e, got : s = FrameStart(1) /\ e = Len(Reader!Bytes) /\ got = Reader!AtMost(4, e)
  OBVIOUS
<1>3. /\ Reader!Bytes \in Seq(Cells) /\ s = 2 /\ e \in Nat /\ e >= 2
      /\ 1 \in 1 .. Len(sink) + 1 /\ Len(sink) + 1 \in 1 .. Len(sink) + 1
  <2>1. 1 \in 1 .. Len(sink) + 1 /\ Len(sink) + 1 \in 1 .. Len(sink) + 1
    BY <1>1
  <2>2. Reader!Bytes \in Seq(Cells) /\ e = FrameStart(Len(sink) + 1) /\ e \in Nat
    BY <1>1, <1>2, <2>1, FileCells, FrameStarts
  <2> QED BY <1>1, <1>2, <2>1, <2>2, FrameStarts DEF HEADER_SIZE
<1>4. /\ got \in 2 .. 4 /\ got <= e
      /\ got = 2 => e = 2
      /\ got = 3 => e = 3
  BY <1>2, <1>3 DEF Reader!AtMost
<1>5. /\ file' = Reader!Bytes /\ filePos' = got
      /\ nextFrameSize' \in {0} \cup CompressedSizes \/ got > 2
      /\ got > 2 => nextFrameSize' = sink[Reader!Bytes[3].id].clen
      /\ lastHash' = IF got = 4 THEN Reader!Bytes[got] ELSE Reader!StaleCell
      /\ rstatus' = "open"
      /\ UNCHANGED << compressed, decompressed, prefixSize, avail, delivered, shortRead >>
  <2>1. Reader!HEADER_SIZE = 2 /\ Reader!HEADER_SIZE + Reader!FRAME_HEADER_SIZE = 4
        /\ Reader!HEADER_SIZE + 1 = 3
    BY DEF Reader!HEADER_SIZE, Reader!FRAME_HEADER_SIZE
  <2> QED BY <1>2, <2>1 DEF Reader!Open
<1>6. /\ prefixSize = 0 /\ avail = [from |-> 0, to |-> 0] /\ delivered = << >> /\ shortRead = 0
      /\ compressed = [i \in 0 .. BUFFER_SIZE - 1 |-> Reader!StaleCell]
      /\ decompressed = [i \in 0 .. Reader!DecompressedCapacity - 1 |-> 0]
  BY DEF Reader!RInit, Reader!CompressedCapacity
<1>7. /\ sink' = sink /\ (AllComplete' <=> AllComplete) /\ WriterFacts'
      /\ file' = Reader!Bytes'
      /\ \A r : /\ Passed(r)' <=> Passed(r)
                /\ After(r)' = After(r)
                /\ FrameStart(r)' = FrameStart(r)
  BY <1>5, SameFrames
(* Nothing has been read of payloads, and nothing has been decoded. *)
<1>8. ASSUME NEW r \in 1 .. Len(sink) + 1,
             \A i \in 1 .. r - 1 : sink[i].landed = 0, Stage(r)', nextFrameSize' \in Nat
      PROVE  Reading(r)'
  <2>1. Passed(r)' /\ r \in 1 .. Len(sink') + 1
    BY <1>7, <1>8 DEF Passed
  <2>2. \A i \in 1 .. r - 1 : ~Complete(sink[i])
    <3> SUFFICES ASSUME NEW i \in 1 .. r - 1 PROVE ~Complete(sink[i])
      OBVIOUS
    <3>1. i \in 1 .. Len(sink) /\ sink[i].landed = 0
      BY <1>1, <1>8
    <3>2. Complete(sink[i]) => sink[i].landed >= 3
      BY <3>1, FactsType
    <3> QED BY <3>1, <3>2
  <2>3. After(r) = 0 /\ After(r)' = 0
    <3>1. r \in 1 .. Len(sink) + 1 /\ 1 \in 1 .. Len(sink) + 1
      BY <1>3
    <3>2. After(r) = After(1)
      BY <1>1, <2>2, <3>1, AfterSkips
    <3> QED BY <1>1, <1>7, <3>2
  <2>4. Reader!InBuffer' = 0 /\ Len(delivered') = 0 /\ delivered' = << >> /\ prefixSize' = 0
    BY <1>5, <1>6 DEF Reader!InBuffer
  <2>5. Counted(r)'
    BY <2>3, <2>4 DEF Counted
  <2>6. InOrder(r)'
    BY <2>4 DEF InOrder
  <2>7. AllComplete' => r = 1
    <3> SUFFICES ASSUME AllComplete, r # 1 PROVE FALSE
      BY <1>7
    <3>1. 1 \in 1 .. r - 1 /\ 1 \in 1 .. Len(sink)
      BY <1>1
    <3> QED BY <2>2, <3>1 DEF AllComplete
  <2>8. Dictionaried(r)'
    BY <2>4, <2>7 DEF Dictionaried
  <2>9. Leftovers(r)'
    <3>1. BUFFER_SIZE \in Nat /\ BUFFER_SIZE >= 1
      BY FormatAssumption
    <3>2. \A i \in 0 .. BUFFER_SIZE - 1 : compressed'[i] = Reader!StaleCell
      BY <1>5, <1>6
    <3>3. 0 \in 0 .. BUFFER_SIZE - 1
      BY <3>1
    <3>4. Reader!StaleCell.kind = "stale"
      BY DEF Reader!StaleCell, Reader!Cell
    <3> QED BY <3>2, <3>3, <3>4 DEF Leftovers
  <2>10. ReaderShape'
    <3>1. Reader!DecompressedCapacity' = Reader!DecompressedCapacity
          /\ Reader!DecompressedCapacity \in Nat
      BY DecompressedRoom DEF Reader!DecompressedCapacity
    <3>2. filePos' \in 0 .. Len(file') /\ file' \in Seq(Cells)
      BY <1>2, <1>3, <1>4, <1>5
    <3>3. /\ avail' \in [from : 0 .. Reader!DecompressedCapacity,
                         to : 0 .. Reader!DecompressedCapacity]
          /\ avail'.from <= avail'.to
          /\ delivered' \in Seq(Nat) /\ prefixSize' \in 0 .. Reader!DecompressedCapacity
      BY <1>5, <1>6, <3>1
    <3>4. decompressed' \in [0 .. Reader!DecompressedCapacity - 1 -> Nat]
      BY <1>5, <1>6
    <3>5. DOMAIN compressed' = 0 .. BUFFER_SIZE - 1
      BY <1>5, <1>6
    <3> QED BY <1>8, <3>1, <3>2, <3>3, <3>4, <3>5 DEF ReaderShape
  <2> QED BY <1>7, <1>8, <2>1, <2>5, <2>6, <2>8, <2>9, <2>10 DEF Reading, Progress
<1>9. CASE got = 2
  <2>1. ASSUME NEW i \in 1 .. Len(sink) PROVE ~Complete(sink[i])
    <3>1. PICK m : m = sink[i].landed
      OBVIOUS
    <3>2. s + m <= e
      BY <1>1, <1>2, <1>3, <3>1, FrameFits
    <3>3. m \in Nat /\ (Complete(sink[i]) => m >= 3)
      BY <3>1, FactsType
    <3> QED BY ONLY <1>3, <1>4, <1>9, <3>2, <3>3
  <2>2. nextFrameSize' \in {0} \cup CompressedSizes /\ nextFrameSize' \in Nat
    <3>1. ~(got > 2)
      BY <1>9
    <3>2. nextFrameSize' \in {0} \cup CompressedSizes
      BY <1>5, <3>1
    <3> QED BY <3>2, FormatAssumption
  <2>3. lastHash'.kind # "hash"
    BY <1>5, <1>9 DEF Reader!StaleCell, Reader!Cell
  <2>4. Stage(1)'
    <3>1. CASE nextFrameSize' = 0
      <4>1. NoMore(1)'
        BY <1>7, <2>1, <3>1 DEF NoMore, Complete, FrameSize, FRAME_HEADER_SIZE
      <4> QED BY <4>1, <3>1 DEF Stage
    <3>2. CASE nextFrameSize' # 0
      <4>1. AllComplete => sink = << >>
        <5> SUFFICES ASSUME AllComplete, sink # << >> PROVE FALSE
          OBVIOUS
        <5>1. Len(sink) # 0
          BY <1>1, EmptySeq DEF FramesTyped
        <5>2. 1 \in 1 .. Len(sink)
          BY <1>1, <5>1
        <5> QED BY <2>1, <5>2 DEF AllComplete
      <4>2. Doomed'
        BY <1>7, <2>3, <3>2, <4>1 DEF Doomed
      <4> QED BY <4>2, <3>2 DEF Stage
    <3> QED BY <3>1, <3>2
  <2>5. \A i \in 1 .. 1 - 1 : sink[i].landed = 0
    OBVIOUS
  <2>6. Reading(1)'
    BY <1>3, <1>8, <2>2, <2>4, <2>5
  <2> QED BY <1>5, <1>6, <2>6
<1>10. CASE got > 2
  <2>1. s < e
    BY <1>3, <1>4, <1>10
  <2>2. PICK r \in 1 .. Len(sink) : HeaderOf(1, r)
    BY <1>1, <1>2, <1>3, <2>1, SizeFound
  <2>3. /\ r \in 1 .. Len(sink) + 1 /\ sink[r].landed > 0
        /\ \A i \in 1 .. r - 1 : sink[i].landed = 0
        /\ FrameStart(r) = 2
        /\ Reader!Bytes[3] = Reader!Cell("size", r, 0)
        /\ sink[r].landed >= 2 => Reader!Bytes[4] = Reader!Cell("hash", r, 0)
    <3>1. FrameStart(1) + 1 = 3 /\ FrameStart(1) + 2 = 4
      BY <1>2, <1>3
    <3> QED BY <1>1, <1>2, <1>3, <2>2, <3>1 DEF HeaderOf
  <2>4. nextFrameSize' = sink[r].clen
    BY <1>5, <1>10, <2>3, CellFields
  <2>5. PICK m : m = sink[r].landed
    OBVIOUS
  <2>6. /\ sink[r].clen \in Nat /\ sink[r].clen # 0 /\ m \in Nat
        /\ Complete(sink[r]) => m >= 3
    BY <2>5, FactsType
  <2>7. m >= 2 => got = 4
    <3>1. s + m <= e
      BY <1>1, <1>2, <1>3, <2>5, FrameFits
    <3> QED BY ONLY <1>3, <1>4, <2>6, <3>1
  <2>8. CASE m >= 2
    <3>1. lastHash' = Reader!Cell("hash", r, 0) /\ filePos' = FrameStart(r) + 2
      BY <1>5, <2>3, <2>5, <2>7, <2>8
    <3>2. AtFrame(r)'
      BY <1>7, <2>2, <2>4, <2>5, <2>8, <3>1 DEF AtFrame, Reader!Cell
    <3>3. Stage(r)' /\ nextFrameSize' \in Nat
      BY <2>4, <2>6, <3>2 DEF Stage
    <3>4. Reading(r)'
      BY <1>8, <2>3, <3>3
    <3> QED BY <1>5, <1>6, <3>4
  <2>9. CASE ~(m >= 2)
    <3>1. lastHash'.kind # "hash"
      <4>1. CASE got = 4
        <5>1. sink[r].landed < 2 /\ FrameStart(1) + 2 <= Len(Reader!Bytes)
              /\ FrameStart(1) + 2 = 4
          BY <1>2, <1>3, <1>4, <2>5, <2>6, <2>9, <4>1
        <5>2. Reader!Bytes[4].kind = "size"
          <6>1. r \in 1 .. Len(sink) /\ 1 \in 1 .. Len(sink) + 1
            BY <1>3
          <6> QED BY <1>1, <2>2, <5>1, <6>1, HashMissing
        <5> QED BY <1>5, <4>1, <5>2
      <4>2. CASE got # 4
        BY <1>5, <4>2 DEF Reader!StaleCell, Reader!Cell
      <4> QED BY <4>1, <4>2
    <3>2. ~AllComplete
      BY <2>6, <2>9 DEF AllComplete
    <3>3. Doomed'
      BY <1>7, <2>4, <2>6, <3>1, <3>2 DEF Doomed
    <3>4. Stage(r)' /\ nextFrameSize' \in Nat
      BY <2>4, <2>6, <3>3 DEF Stage
    <3>5. Reading(r)'
      BY <1>8, <2>3, <3>4
    <3> QED BY <1>5, <1>6, <3>5
  <2> QED BY <2>8, <2>9
<1> QED BY <1>4, <1>9, <1>10

-----------------------------------------------------------------------------
(* The whole invariant: of the writer, of its frames, and of the reader. *)
FileInv == WriterFacts /\ ReaderTypes /\ ReaderInv

(* A reader that is not new is reading. *)
LEMMA ReadersPlace ==
  ASSUME FileInv, rstatus # "new"
  PROVE  Written /\ \E q : Reading(q)
<1>1. ~Reader!RInit
  BY DEF Reader!RInit
<1>2. PICK q \in 1 .. Len(sink) + 1 : Progress(q)
  BY <1>1 DEF FileInv, ReaderInv
<1>3. Written /\ file = Reader!Bytes
  BY <1>1 DEF FileInv, ReaderInv
<1>4. Reading(q)
  BY <1>2, <1>3, ShapeOfTypes DEF Reading, FileInv, ReaderTypes
<1> QED BY <1>3, <1>4

(* And a step that leads to a place of a reader keeps the invariant. *)
LEMMA PlaceReached ==
  ASSUME NEW q, Reading(q)', Written', rstatus' \in {"open", "aborted", "overrun", "exited"},
         shortRead' \in 0 .. MAX_READ
  PROVE  FileInv'
<1>1. ReaderTypes'
  BY Zenon DEF Reading, ReaderTypes, ReaderShape, Reader!RTypeOK, Cells,
               Reader!CompressedCapacity
<1>2. /\ q \in 1 .. Len(sink') + 1 /\ Progress(q)' /\ file' = Reader!Bytes'
      /\ WriterFacts'
  BY DEF Reading, Progress
<1>3. rstatus' # "new"
  OBVIOUS
<1>4. ReaderInv'
  BY <1>2, <1>3, Zenon DEF ReaderInv
<1> QED BY <1>1, <1>2, <1>4 DEF FileInv

(* The invariant holds at the start, *)
LEMMA FileInvStarts == Init => FileInv
<1> SUFFICES ASSUME Init PROVE FileInv
  OBVIOUS
<1>1. WriterFacts
  BY InitEstablishes, FramesStart DEF Init, WriterFacts
<1>2. ReaderTypes
  <2>1. ReaderShape
    <3>1. Reader!DecompressedCapacity \in Nat
      BY DecompressedRoom
    <3>2. /\ file = << >> /\ filePos = 0 /\ nextFrameSize = 0 /\ prefixSize = 0
          /\ avail = [from |-> 0, to |-> 0] /\ delivered = << >>
          /\ compressed = [i \in 0 .. BUFFER_SIZE - 1 |-> Reader!StaleCell]
          /\ decompressed = [i \in 0 .. Reader!DecompressedCapacity - 1 |-> 0]
      BY DEF Init, Reader!RInit, Reader!CompressedCapacity
    <3>3. filePos \in 0 .. Len(file) /\ file \in Seq(Cells) /\ delivered \in Seq(Nat)
      BY <3>2
    <3>4. /\ avail \in [from : 0 .. Reader!DecompressedCapacity, to : 0 .. Reader!DecompressedCapacity]
          /\ avail.from <= avail.to /\ prefixSize \in 0 .. Reader!DecompressedCapacity
      BY <3>1, <3>2
    <3>5. decompressed \in [0 .. Reader!DecompressedCapacity - 1 -> Nat]
      BY <3>2
    <3>6. DOMAIN compressed = 0 .. BUFFER_SIZE - 1
      BY <3>2
    <3> QED BY <3>2, <3>3, <3>4, <3>5, <3>6 DEF ReaderShape
  <2>2. shortRead \in 0 .. MAX_READ /\ rstatus = "new"
    BY FileAssumption DEF Init, Reader!RInit
  <2> QED BY <2>1, <2>2, TypesOfShape DEF ReaderTypes
<1> QED BY <1>1, <1>2 DEF Init, FileInv, ReaderInv

(* and every step keeps it. *)
LEMMA FileInvKept ==
  ASSUME FileInv, [Next]_vars
  PROVE  FileInv'
<1>1. CASE [WNext]_wvars /\ UNCHANGED rvars
  <2>1. WriterFacts'
    BY <1>1, StepsAreCalls, WriterStep, StepKeepsFrames DEF FileInv, WriterFacts
  <2>2. CASE rstatus = "new"
    <3>1. Reader!RInit
      BY <2>2 DEF FileInv, ReaderInv
    <3>2. Reader!RInit'
      BY <1>1, <3>1 DEF rvars, Reader!RInit, Reader!CompressedCapacity,
                        Reader!DecompressedCapacity, Reader!StaleCell, Reader!Cell
    <3>3. ReaderTypes'
      BY <1>1 DEF FileInv, ReaderTypes, Reader!RTypeOK, rvars, Reader!CompressedCapacity,
                  Reader!DecompressedCapacity
    <3> QED BY <2>1, <3>2, <3>3 DEF FileInv, ReaderInv
  <2>3. CASE rstatus # "new"
    <3>1. PICK q : Reading(q)
      BY <2>3, ReadersPlace
    <3>2. Written
      BY <2>3, ReadersPlace
    <3>3. UNCHANGED wvars
      BY <1>1, <3>2, StepsAreCalls, ClosedStays DEF FileInv, WriterFacts, WInv, Written
    <3>4. Reader!UnchangedFrame /\ UNCHANGED << avail, delivered, shortRead, rstatus >>
      BY <1>1 DEF rvars, Reader!UnchangedFrame
    <3>5. Reading(q)' /\ Written'
      BY <3>1, <3>2, <3>3, <3>4, ReadingKept, SameFrames
    <3>6. /\ rstatus' \in {"open", "aborted", "overrun", "exited"}
          /\ shortRead' \in 0 .. MAX_READ
      BY <2>3, <3>4, ShapeOfTypes DEF FileInv, ReaderTypes
    <3> QED BY <3>5, <3>6, PlaceReached
  <2> QED BY <2>2, <2>3
<1>2. CASE Written /\ Reader!RNext /\ UNCHANGED wvars
  <2>1. Written' /\ shortRead \in 0 .. MAX_READ
    BY <1>2, SameFrames, ShapeOfTypes DEF FileInv, ReaderTypes
  <2>2. CASE Reader!Open
    <3>1. Reader!RInit
      BY <2>2 DEF FileInv, ReaderInv, Reader!Open
    <3>2. PICK q : Reading(q)'
      BY <1>2, <2>2, <3>1, OpenReads DEF FileInv
    <3>3. shortRead' \in 0 .. MAX_READ /\ rstatus' = "open"
      BY <1>2, <2>2, <3>1, OpenReads, FileAssumption DEF FileInv
    <3> QED BY <2>1, <3>2, <3>3, PlaceReached
  <2>3. CASE \E maxBytes \in 1 .. MAX_READ : \E minBytes \in 1 .. maxBytes :
               Reader!TryRead(minBytes, maxBytes)
    <3>1. PICK maxBytes \in 1 .. MAX_READ, minBytes \in 1 .. MAX_READ :
            minBytes <= maxBytes /\ Reader!TryRead(minBytes, maxBytes)
      BY <2>3, FileAssumption
    <3>2. rstatus # "new"
      BY <3>1 DEF Reader!TryRead
    <3>3. PICK q : Reading(q)
      BY <3>2, ReadersPlace
    <3>4. maxBytes \in Nat /\ minBytes \in Nat /\ minBytes \in 0 .. MAX_READ /\ 0 \in 0 .. MAX_READ
      BY FileAssumption
    <3>5. /\ \E r : Reading(r)'
          /\ shortRead' \in {0, shortRead, minBytes}
          /\ rstatus' \in {"open", "aborted", "overrun", "exited"}
      BY <1>2, <3>1, <3>3, <3>4, TryReadKeeps
    <3>6. shortRead' \in 0 .. MAX_READ
      BY <2>1, <3>4, <3>5
    <3> QED BY <2>1, <3>5, <3>6, PlaceReached
  <2>4. CASE Reader!TryGetReadBuffer
    <3>1. rstatus # "new"
      BY <2>4 DEF Reader!TryGetReadBuffer
    <3>2. PICK q : Reading(q)
      BY <3>1, ReadersPlace
    <3>3. /\ \E r : Reading(r)'
          /\ shortRead' = shortRead /\ rstatus' \in {"open", "aborted", "overrun", "exited"}
      BY <1>2, <2>4, <3>2, GetBufferKeeps
    <3> QED BY <2>1, <3>3, PlaceReached
  <2> QED BY <1>2, <2>2, <2>3, <2>4 DEF Reader!RNext
<1> QED BY <1>1, <1>2 DEF Next, vars

(***************************************************************************)
(* Whatever was written, failed or was torn, and however it is read.       *)
(***************************************************************************)
THEOREM FileInvariant == Spec => []FileInv
<1>1. Init => FileInv
  BY FileInvStarts
<1>2. FileInv /\ [Next]_vars => FileInv'
  BY FileInvKept
<1> QED BY <1>1, <1>2, PTL DEF Spec

(* bufferAvailable and filePos never leave the plaintext buffer and the file. *)
THEOREM ReaderKeepsTypes == Spec => []ReaderTypes
<1>1. FileInv => ReaderTypes
  BY DEF FileInv
<1> QED BY <1>1, FileInvariant, PTL

(* What a reader has handed out is in order. *)
LEMMA OrderOfDelivery ==
  ASSUME FileInv
  PROVE  DeliveredInOrder
<1>1. CASE rstatus = "new"
  <2>1. delivered = << >>
    BY <1>1 DEF FileInv, ReaderInv, Reader!RInit
  <2> QED BY <2>1 DEF DeliveredInOrder
<1>2. CASE rstatus # "new"
  BY <1>2, ReadersPlace DEF Reading, Progress, InOrder, DeliveredInOrder
<1> QED BY <1>1, <1>2

(***************************************************************************)
(* LZ4InputStream hands out the stream that was written, in order, and     *)
(* never a wrong byte, whatever became of the file.                        *)
(***************************************************************************)
THEOREM ReaderDeliversInOrder == Spec => []DeliveredInOrder
<1>1. FileInv => DeliveredInOrder
  BY OrderOfDelivery
<1> QED BY <1>1, FileInvariant, PTL

-----------------------------------------------------------------------------
(* Frame i as the complete frames are joined: its plaintext, or nothing. *)
KeptOf(i) == IF Complete(sink[i]) THEN sink[i].plain ELSE << >>
KeptParts == [i \in 1 .. Len(sink) |-> KeptOf(i)]

(* Where each of them starts is what its frame counts as stored before it. *)
LEMMA KeptStarts ==
  ASSUME WriterFacts, NEW s, s = KeptParts, NEW L, L = Len(sink)
  PROVE  /\ s \in Seq(Seq(Nat)) /\ Len(s) = L /\ L \in Nat
         /\ \A i \in 1 .. L : s[i] = KeptOf(i)
         /\ \A i \in 1 .. L + 1 : Start(s, i) = After(i)
         /\ After(L + 1) = stored /\ stored \in Nat
<1>1. /\ FramesTyped /\ FramesChained /\ Len(sink) \in Nat
      /\ stored \in Nat
      /\ \A i \in 1 .. Len(sink) :
           /\ sink[i].plain \in Seq(Nat) /\ Len(sink[i].plain) \in Nat
           /\ sink[i].after \in Nat /\ After(i) = sink[i].after
  BY FactsType DEF WriterFacts, FrameInv, FramesTyped
<1>2. /\ s \in Seq(Seq(Nat)) /\ Len(s) = L /\ L \in Nat
      /\ \A i \in 1 .. L : s[i] = KeptOf(i)
  <2>1. \A i \in 1 .. L : KeptOf(i) \in Seq(Nat)
    BY <1>1 DEF KeptOf
  <2> QED BY <1>1, <2>1 DEF KeptParts
<1>3. \A i \in 1 .. L : After(i + 1) = After(i) + Len(s[i]) /\ After(i) \in Nat
  <2> SUFFICES ASSUME NEW i \in 1 .. L
               PROVE  After(i + 1) = After(i) + Len(s[i]) /\ After(i) \in Nat
    OBVIOUS
  <2>1. /\ After(i + 1) = EndOf(sink[i]) /\ After(i) = sink[i].after
        /\ sink[i].after \in Nat /\ s[i] = KeptOf(i)
    BY <1>1, <1>2 DEF FramesChained
  <2>2. Len(s[i]) = IF Complete(sink[i]) THEN Len(sink[i].plain) ELSE 0
    BY <2>1 DEF KeptOf
  <2> QED BY <2>1, <2>2 DEF EndOf
<1> DEFINE S == {n \in Nat : n <= L => Start(s, n + 1) = After(n + 1)}
<1>4. 0 \in S
  <2>1. Start(s, 1) = 0
    BY <1>2, StartFirst
  <2>2. After(1) = 0 /\ 0 + 1 = 1
    BY <1>1 DEF FramesChained
  <2> QED BY <2>1, <2>2
<1>5. ASSUME NEW n \in 0 .. L - 1, n \in S PROVE n + 1 \in S
  <2>1. PICK i \in 1 .. L : i = n + 1
    BY <1>2
  <2>2. Start(s, i + 1) = Start(s, i) + Len(s[i])
    <3>1. i \in 1 .. Len(s)
      BY <1>2
    <3> QED BY <1>2, <3>1, StartNext
  <2>3. Start(s, i) = After(i)
    BY <1>2, <1>5, <2>1
  <2>4. Start(s, i + 1) = After(i + 1)
    BY <1>3, <2>2, <2>3
  <2> QED BY <2>1, <2>4
<1>6. \A n \in 0 .. L : n \in S
  <2> HIDE DEF S
  <2> QED BY <1>2, <1>4, <1>5, InductionUpTo
<1>7. ASSUME NEW i \in 1 .. L + 1 PROVE Start(s, i) = After(i)
  <2>1. i - 1 \in 0 .. L /\ (i - 1) + 1 = i
    BY <1>2
  <2>2. PICK n \in S : n = i - 1
    <3> HIDE DEF S
    <3> QED BY <1>6, <2>1
  <2>3. n <= L /\ n + 1 = i
    BY <1>2, <2>1, <2>2
  <2> QED BY <2>2, <2>3
<1>8. After(L + 1) = stored
  BY <1>1 DEF After
<1> QED BY <1>1, <1>2, <1>7, <1>8

(* No frame counts more bytes before it than are stored in all. *)
LEMMA AfterBounded ==
  ASSUME WriterFacts, NEW q \in 1 .. Len(sink) + 1
  PROVE  After(q) <= stored
<1>1. PICK s, L : s = KeptParts /\ L = Len(sink)
  OBVIOUS
<1>2. /\ s \in Seq(Seq(Nat)) /\ Len(s) = L /\ L \in Nat
      /\ \A i \in 1 .. L + 1 : Start(s, i) = After(i)
      /\ After(L + 1) = stored /\ stored \in Nat
  BY <1>1, KeptStarts
<1>3. q \in 1 .. Len(s) + 1 /\ L + 1 \in 1 .. Len(s) + 1 /\ q <= L + 1
  BY <1>1, <1>2
<1>4. Start(s, q) <= Start(s, L + 1)
  BY <1>2, <1>3, StartMonotone
<1> QED BY <1>1, <1>2, <1>3, <1>4

(* What is delivered or in the buffer is stored. *)
LEMMA ReadingBounded ==
  ASSUME NEW q, Reading(q)
  PROVE  /\ Len(delivered) \in Nat /\ stored \in Nat /\ Len(delivered) <= stored
         /\ Reader!InBuffer \in Nat /\ Len(delivered) + Reader!InBuffer <= stored
<1>1. /\ q \in 1 .. Len(sink) + 1 /\ WriterFacts /\ ReaderShape
      /\ Len(delivered) + Reader!InBuffer = After(q)
  BY DEF Reading, Progress, Counted
<1>2. PICK m, d, z : m = Reader!InBuffer /\ d = Len(delivered) /\ z = stored
  OBVIOUS
<1>3. m \in Nat /\ d \in Nat /\ z \in Nat
  <2>1. m \in Nat
    BY <1>1, <1>2, AvailableIs
  <2>2. d \in Nat /\ z \in Nat
    BY <1>1, <1>2 DEF ReaderShape, WriterFacts, WInv, TypeOK
  <2> QED BY <2>1, <2>2
<1>4. d + m <= z
  BY <1>1, <1>2, AfterBounded
<1> QED BY <1>2, <1>3, <1>4

(* At the end of the file nothing that was stored is missing. *)
LEMMA EndReached ==
  ASSUME NEW q, Reading(q), NothingLeft
  PROVE  Len(delivered) = stored
<1>1. /\ q \in 1 .. Len(sink) + 1 /\ Len(sink) \in Nat
      /\ Stage(q) /\ Counted(q) /\ FramesTyped /\ FramesChained
      /\ Len(delivered) \in Nat /\ avail.from \in Nat
  BY FactsType, DecompressedRoom
     DEF Reading, Progress, WriterFacts, FrameInv, ReaderShape
<1>2. ~AtFrame(q)
  <2> SUFFICES ASSUME AtFrame(q) PROVE FALSE
    OBVIOUS
  <2>1. q \in 1 .. Len(sink) /\ nextFrameSize = sink[q].clen
    BY <1>1 DEF AtFrame
  <2>2. sink[q].clen # 0
    BY <2>1, FactsType DEF Reading
  <2> QED BY <2>1, <2>2 DEF NothingLeft
<1>3. NoMore(q)
  BY <1>1, <1>2 DEF Stage, Doomed, NothingLeft
<1>4. After(Len(sink) + 1) = After(q)
  <2>1. /\ Len(sink) + 1 \in q .. Len(sink) + 1
        /\ \A i \in q .. (Len(sink) + 1) - 1 : ~Complete(sink[i])
    BY <1>1, <1>3 DEF NoMore
  <2>2. PICK r : r = Len(sink) + 1
    OBVIOUS
  <2> QED BY <1>1, <2>1, <2>2, AfterSkips
<1>5. After(Len(sink) + 1) = stored
  BY <1>1 DEF After
<1> QED BY <1>1, <1>4, <1>5 DEF Counted, Reader!InBuffer, NothingLeft

(***************************************************************************)
(* A reader that reaches the end of the file, torn or not, has delivered   *)
(* every complete frame: what is behind a torn frame is not overlooked.    *)
(***************************************************************************)
THEOREM ReaderDeliversStored == Spec => []EndDeliversStored
<1>1. FileInv => EndDeliversStored
  <2> SUFFICES ASSUME FileInv, rstatus = "open", NothingLeft
               PROVE  Len(delivered) = stored
    BY DEF EndDeliversStored, AtEndOfFile
  <2> QED BY ReadersPlace, EndReached
<1> QED BY <1>1, FileInvariant, PTL

-----------------------------------------------------------------------------
Readable ==
  /\ BUFFER_SIZE >= Window /\ FramesFit
  /\ WellChunked /\ SourcesKept /\ Len(sink) > 0

(***************************************************************************)
(* The frame to be read next of a readable file decodes: its matches find  *)
(* in the dictionary, not yet overwritten, what the compressor saw.        *)
(***************************************************************************)
LEMMA NextFrameGood ==
  ASSUME NEW q, Reading(q), Readable, ~Reader!AtEnd
  PROVE  ~Reader!Overruns /\ \E id \in DOMAIN sink : Reader!GoodFrame(id)
<1>1. /\ WriterFacts /\ ReaderShape /\ Stage(q) /\ Dictionaried(q) /\ InOrder(q)
      /\ q \in 1 .. Len(sink) + 1 /\ Len(sink) \in Nat /\ DOMAIN sink = 1 .. Len(sink)
      /\ AllComplete /\ nextFrameSize # 0
  BY FactsType DEF Reading, Progress, Readable, WellChunked, Reader!AtEnd
<1>2. AtFrame(q)
  <2>1. sink # << >>
    BY DEF Readable
  <2> QED BY <1>1, <2>1 DEF Stage, NoMore, Doomed
<1>3. /\ q \in 1 .. Len(sink) /\ Complete(sink[q]) /\ nextFrameSize = sink[q].clen
      /\ lastHash = Reader!Cell("hash", q, 0)
  BY <1>1, <1>2 DEF AtFrame, AllComplete
<1>4. ~Interrupted
  BY <1>1 DEF WriterFacts, FrameInv, InterruptionShows
<1>5. /\ FollowsOn(sink[q]) /\ Len(sink[q].plain) <= BUFFER_SIZE
      /\ RefersBack(sink[q]) /\ sink[q].clen \in CompressedSizes
  BY <1>1, <1>3, <1>4 DEF WriterFacts, FrameInv, FramesPlaced, InPlace, FramesMade, Made,
                          WInv, ReferencesPrecede
(* The frame and what lands behind it fit the buffer: of the last frame nothing lands behind it. *)
<1>6. nextFrameSize <= BUFFER_SIZE /\ Reader!Landing(nextFrameSize + 2) <= BUFFER_SIZE
  <2>1. PICK c, l, e, s : /\ c = nextFrameSize /\ l = Reader!Landing(nextFrameSize + 2)
                          /\ e = Len(file) /\ s = FrameStart(q)
    OBVIOUS
  <2>2. /\ c \in Nat /\ BUFFER_SIZE \in Nat /\ c + 2 \in Nat /\ sink[q].landed = c + 2
    <3>1. /\ sink[q].clen \in Nat /\ sink[q].landed \in Nat
          /\ Complete(sink[q]) <=> sink[q].landed = 2 + sink[q].clen
      BY <1>1, <1>3, FactsType
    <3> QED BY <1>3, <2>1, <3>1, FormatAssumption
  <2>3. l \in 0 .. c + 2 /\ filePos + l \in 0 .. e /\ filePos \in Nat /\ e \in Nat
    BY <1>1, <2>1, <2>2, LandingIs
  <2>4. c + (IF q < Len(sink) THEN 2 ELSE 0) <= BUFFER_SIZE
    BY <1>3, <2>1 DEF Readable, FramesFit, FRAME_HEADER_SIZE
  <2>5. CASE q < Len(sink)
    BY <2>1, <2>2, <2>3, <2>4, <2>5
  <2>6. CASE ~(q < Len(sink))
    <3>1. q = Len(sink) /\ q \in 1 .. Len(sink)
      <4>1. Len(sink) \in Nat /\ q \in 1 .. Len(sink)
        BY <1>1, <1>3
      <4> QED BY ONLY <2>6, <4>1
    <3>2. /\ e = FrameStart(q + 1) /\ FrameStart(q + 1) = s + sink[q].landed /\ s \in Nat
      <4>1. FramesTyped /\ file = Reader!Bytes
        BY <1>2, FactsType DEF Reading, Progress
      <4>2. q \in 1 .. Len(sink) + 1
        BY <1>1
      <4>3. FrameStart(q + 1) = FrameStart(q) + sink[q].landed
        BY <3>1, <4>1, FrameStarts
      <4>4. FrameStart(q) \in Nat
        BY <4>1, <4>2, FrameStarts
      <4>5. Len(file) = FrameStart(Len(sink) + 1)
        BY <4>1, FileCells
      <4> QED BY <2>1, <3>1, <4>3, <4>4, <4>5
    <3>3. filePos = s + 2
      BY <1>2, <2>1 DEF AtFrame
    <3>4. c <= BUFFER_SIZE
      BY <2>2, <2>4, <2>6
    <3>5. e = s + (c + 2)
      BY <2>2, <3>2
    <3>6. l <= c
      BY ONLY <2>2, <2>3, <3>2, <3>3, <3>5
    <3> QED BY <2>1, <2>2, <2>3, <3>4, <3>6
  <2> QED BY <2>5, <2>6
<1>7. ~Reader!Overruns
  <2>1. nextFrameSize \in Nat /\ BUFFER_SIZE \in Nat /\ nextFrameSize + 2 \in Nat
    BY <1>1, FormatAssumption DEF ReaderShape
  <2>2. Reader!Landing(nextFrameSize + 2) \in 0 .. nextFrameSize + 2
    BY <1>1, <2>1, LandingIs
  <2>3. PICK l : l = Reader!Landing(nextFrameSize + 2)
    OBVIOUS
  <2>4. ~(l > BUFFER_SIZE)
    BY <1>6, <2>1, <2>2, <2>3
  <2> QED BY <2>3, <2>4 DEF Reader!Overruns, Reader!FRAME_HEADER_SIZE, Reader!CompressedCapacity
<1>8. Reader!IsFrame(Reader!Received(nextFrameSize + Reader!FRAME_HEADER_SIZE), q, nextFrameSize)
  <2>1. PICK n, buffer : n = nextFrameSize + 2 /\ buffer = Reader!Received(n)
    OBVIOUS
  <2>2. \A i \in 0 .. nextFrameSize - 1 : buffer[i] = Reader!Cell("data", q, i + 1)
    BY <1>2, <1>3, <1>6, <2>1, FrameArrives
  <2>3. nextFrameSize + Reader!FRAME_HEADER_SIZE = n
    BY <2>1 DEF Reader!FRAME_HEADER_SIZE
  <2>4. nextFrameSize \in Nat /\ BUFFER_SIZE \in Nat
    BY <1>1, FormatAssumption DEF ReaderShape
  <2>5. \A i \in 0 .. nextFrameSize - 1 : Reader!CellAt(buffer, i) = buffer[i]
    BY <1>6, <2>4 DEF Reader!CellAt, Reader!CompressedCapacity
  <2> QED BY <1>1, <1>3, <2>1, <2>2, <2>3, <2>5 DEF Reader!IsFrame
<1>9. PICK p, w, z, a : p = Len(sink[q].plain) /\ w = Window /\ z = prefixSize /\ a = After(q)
  OBVIOUS
<1>10. /\ p \in Nat /\ w \in Nat /\ z \in Nat /\ a \in Nat /\ BUFFER_SIZE \in Nat /\ w <= BUFFER_SIZE
       /\ sink[q].after = a /\ sink[q].sees \in Seq(Nat) /\ p <= BUFFER_SIZE
  <2>1. p \in Nat /\ a \in Nat /\ sink[q].after = a /\ sink[q].sees \in Seq(Nat)
    BY <1>1, <1>3, <1>9, FactsType
  <2>2. w \in Nat /\ BUFFER_SIZE \in Nat /\ w <= BUFFER_SIZE
    BY <1>9, FormatAssumption DEF Readable
  <2>3. z \in Nat
    BY <1>1, <1>9, DecompressedRoom DEF ReaderShape
  <2> QED BY <1>5, <1>9, <2>1, <2>2, <2>3
<1>11. ASSUME NEW k \in 1 .. Len(sink[q].sees)
       PROVE  sink[q].sees[k] = a + 1 - k
  <2>1. sink[q].sees[k] # 0
    BY <1>3 DEF Readable, SourcesKept
  <2> QED BY <1>5, <1>10, <2>1 DEF RefersBack
<1>12. q = 1 => \A k \in 1 .. Len(sink[q].sees) : FALSE
  <2> SUFFICES ASSUME q = 1, NEW k \in 1 .. Len(sink[q].sees) PROVE FALSE
    OBVIOUS
  <2>1. 1 \in 1 .. Len(sink[q].sees)
    BY <1>10
  <2>2. a = 0
    BY <1>9 DEF WriterFacts, FrameInv, FramesChained, Reading
  <2>3. sink[q].sees[1] = a + 1 - 1
    BY ONLY <1>11, <2>1
  <2>4. a + 1 - 1 = 0
    BY ONLY <2>2
  <2> QED BY <1>3, <2>1, <2>3, <2>4 DEF Readable, SourcesKept
<1>13. q # 1 => z = BUFFER_SIZE
  <2> SUFFICES ASSUME q # 1 PROVE z = BUFFER_SIZE
    OBVIOUS
  <2>1. q - 1 \in 1 .. Len(sink) - 1
    BY <1>1, <1>3
  <2>2. Len(sink[q - 1].plain) = BUFFER_SIZE
    BY <2>1 DEF Readable, WellChunked
  <2> QED BY <1>1, <1>9, <2>2 DEF Dictionaried
<1>14. ASSUME NEW j \in 0 .. p - 1, NEW k \in 1 .. Len(sink[q].sees), j + k <= w
       PROVE  k <= z /\ Reader!Old(sink[q], j, k) = sink[q].sees[k]
  <2>1. z = BUFFER_SIZE /\ k \in Nat /\ k >= 1
    BY <1>10, <1>12, <1>13
  <2>2. k <= z /\ z - k \in 0 .. z - 1 /\ ~(z - k < j)
    BY <1>10, <1>14, <2>1
  <2>3. Reader!Old(sink[q], j, k) = decompressed[z - k]
    BY <1>9, <2>2 DEF Reader!Old
  <2>4. decompressed[z - k] = a - z + 1 + (z - k)
    BY <1>1, <1>4, <1>9, <2>2 DEF InOrder
  <2>5. a - z + 1 + (z - k) = a + 1 - k
    BY <1>10, <2>1
  <2> QED BY <1>11, <2>2, <2>3, <2>4, <2>5
<1>15. Reader!Decodable(sink[q])
  <2>1. Len(sink[q].plain) <= Reader!DecompressedCapacity
    BY <1>9, <1>10, DecompressedRoom
  <2> QED BY <1>9, <1>14, <2>1 DEF Reader!Decodable, Reader!Reaches
<1>16. lastHash.kind = "hash" /\ lastHash.id = q
  BY <1>3, CellFields
<1>17. Reader!GoodFrame(q)
  BY <1>8, <1>15, <1>16 DEF Reader!GoodFrame
<1> QED BY <1>1, <1>3, <1>7, <1>17

(* So the reader does not die of it. *)
LEMMA SurvivesReadable ==
  ASSUME FileInv, NeverRejected, [Next]_vars
  PROVE  NeverRejected'
<1>1. CASE rstatus \in {"aborted", "overrun"}
  <2>1. Written /\ rstatus # "new"
    BY <1>1, ReadersPlace
  <2>2. ~Reader!RNext
    BY <1>1 DEF Reader!RNext, Reader!Open, Reader!TryRead, Reader!TryGetReadBuffer
  <2>3. [WNext]_wvars /\ UNCHANGED rvars
    BY <2>2 DEF Next, vars
  <2>4. UNCHANGED wvars /\ rstatus' = rstatus
    BY <2>1, <2>3, StepsAreCalls, ClosedStays DEF FileInv, WriterFacts, WInv, Written, rvars
  <2> QED BY <2>4, SameFrames DEF NeverRejected, WellChunked, SourcesKept, FramesFit
<1>2. CASE rstatus \notin {"aborted", "overrun"} /\ rstatus' \in {"aborted", "overrun"}
  <2>1. Written /\ Reader!RNext /\ UNCHANGED wvars
    BY <1>2 DEF Next, vars, rvars
  <2>2. rstatus = "open" /\ Reader!Dies
    BY <1>2, <2>1 DEF Reader!RNext, Reader!Open, Reader!TryRead, Reader!TryGetReadBuffer,
           Reader!ReadFromBuffer, Reader!ReadAcross, Reader!ReadUnsupported
  <2>3. PICK q : Reading(q)
    BY <2>2, ReadersPlace
  <2>4. ~Readable
    BY <2>2, <2>3, NextFrameGood DEF Reader!Dies
  <2> QED BY <2>1, <2>4, SameFrames DEF NeverRejected, Readable, WellChunked, SourcesKept, FramesFit
<1>3. CASE rstatus' \notin {"aborted", "overrun"}
  BY <1>3 DEF NeverRejected
<1> QED BY <1>1, <1>2, <1>3

(***************************************************************************)
(* A file that was written completely, in blocks that are full but for the *)
(* last one and no smaller than the window of LZ4, with frames that fit    *)
(* the buffer they are read into, is never refused.                        *)
(***************************************************************************)
THEOREM ReaderNeverRejects == Spec => []NeverRejected
<1>1. Init => NeverRejected
  BY DEF Init, Reader!RInit, NeverRejected
<1>2. FileInv /\ NeverRejected /\ [Next]_vars => NeverRejected'
  BY SurvivesReadable
<1> QED BY <1>1, <1>2, FileInvariant, PTL DEF Spec

-----------------------------------------------------------------------------
(***************************************************************************)
(* A frame whose plaintext is shorter than a block is the last one of a    *)
(* well-chunked file: behind it the reader finds the end.                  *)
(***************************************************************************)
LEMMA ShortFrameIsLast ==
  ASSUME NEW q, Reading(q), NEW r, Took(q, r), UNCHANGED wvars, WellChunked,
         Len(sink[q].plain) < BUFFER_SIZE
  PROVE  nextFrameSize' = 0
<1>1. /\ q \in 1 .. Len(sink) /\ r \in q + 1 .. Len(sink) + 1 /\ Stage(r)'
      /\ Len(sink) \in Nat /\ sink' = sink /\ (AllComplete' <=> AllComplete)
      /\ Len(sink[q].plain) \in Nat /\ BUFFER_SIZE \in Nat /\ AllComplete
  BY FactsType, SameFrames, FormatAssumption DEF Took, Reading, WellChunked
<1>2. q = Len(sink)
  <2>1. q \notin 1 .. Len(sink) - 1
    BY <1>1 DEF WellChunked
  <2> QED BY <1>1, <2>1
<1>3. r = Len(sink) + 1 /\ sink # << >>
  BY <1>1, <1>2
<1>4. ~AtFrame(r)'
  BY <1>1, <1>3 DEF AtFrame
<1>5. ~Doomed'
  BY <1>1, <1>3 DEF Doomed
<1> QED BY <1>1, <1>4, <1>5 DEF Stage, NoMore

(* tryRead falls short only at the end. *)
LEMMA TryReadShort ==
  ASSUME NEW q, Reading(q), UNCHANGED wvars, ShortOnlyAtEnd,
         NEW maxBytes \in Nat, NEW minBytes \in Nat, minBytes <= maxBytes,
         Reader!TryRead(minBytes, maxBytes)
  PROVE  ShortOnlyAtEnd'
<1>1. /\ ShortOnlyAtEnd' <=>
           (WellChunked /\ shortRead' \in 1 .. BUFFER_SIZE => NothingLeft')
      /\ BUFFER_SIZE \in Nat
  BY SameFrames, FormatAssumption DEF ShortOnlyAtEnd, WellChunked
<1>2. CASE Reader!ReadFromBuffer(minBytes, maxBytes)
  <2>1. shortRead' = 0
    BY <1>2 DEF Reader!ReadFromBuffer
  <2> QED BY <1>1, <2>1
<1>3. CASE Reader!ReadUnsupported(minBytes, maxBytes) \/ Reader!Dies
  <2>1. UNCHANGED << shortRead, avail, nextFrameSize >>
    BY <1>3 DEF Reader!ReadUnsupported, Reader!Dies, Reader!UnchangedFrame
  <2> QED BY <1>1, <2>1 DEF ShortOnlyAtEnd, NothingLeft
<1>4. CASE Reader!ReadAcross(minBytes, maxBytes) /\ ~Reader!Dies
  <2>1. minBytes > Reader!InBuffer /\ Reader!InBuffer \in Nat
    BY <1>4, AvailableIs DEF Reader!ReadAcross, Reading
  <2>2. CASE \E id \in DOMAIN sink :
          /\ Reader!ReadFrame(id)
          /\ LET n == Reader!AtMost(Len(sink[id].plain), Reader!Wanted(maxBytes)) IN
             /\ delivered' = delivered
                  \o Reader!Plaintext(decompressed, avail.from, Reader!InBuffer)
                  \o Reader!Plaintext(decompressed', 0, n)
             /\ avail' = Reader!Slice(n, Len(sink[id].plain))
             /\ shortRead' = IF Reader!InBuffer + n < minBytes THEN minBytes ELSE 0
          /\ UNCHANGED rstatus
    <3>1. PICK id, n :
            /\ id \in DOMAIN sink
            /\ n = Reader!AtMost(Len(sink[id].plain), Reader!Wanted(maxBytes))
            /\ Reader!ReadFrame(id)
            /\ avail' = Reader!Slice(n, Len(sink[id].plain))
            /\ shortRead' = IF Reader!InBuffer + n < minBytes THEN minBytes ELSE 0
      BY <2>2
    <3>2. id = q /\ \E r : Took(q, r)
      BY <3>1, FrameRead
    <3>3. PICK r : Took(q, r)
      BY <3>2
    <3>4. q \in 1 .. Len(sink) /\ Len(sink[q].plain) \in Nat
      BY <3>3, FactsType DEF Took, Reading
    <3>5. ASSUME WellChunked, shortRead' \in 1 .. BUFFER_SIZE PROVE NothingLeft'
      <4>1. PICK p, m : p = Len(sink[q].plain) /\ m = Reader!InBuffer
        OBVIOUS
      <4>2. /\ m + n < minBytes /\ shortRead' = minBytes
        BY <3>1, <3>5, <4>1
      <4>3. n = IF p <= maxBytes - m THEN p ELSE maxBytes - m
        BY <3>1, <3>2, <4>1 DEF Reader!AtMost, Reader!Wanted
      <4>4. n = p /\ p < BUFFER_SIZE
        BY <1>1, <2>1, <3>4, <3>5, <4>1, <4>2, <4>3
      <4>5. nextFrameSize' = 0
        BY <3>3, <3>5, <4>1, <4>4, ShortFrameIsLast
      <4>6. avail'.from = avail'.to
        BY <3>1, <3>2, <4>1, <4>4 DEF Reader!Slice
      <4> QED BY <4>5, <4>6 DEF NothingLeft
    <3> QED BY <1>1, <3>5
  <2>3. CASE /\ Reader!AtEnd
             /\ avail' = Reader!Slice(0, 0)
             /\ Reader!UnchangedFrame
    <3>1. NothingLeft'
      BY <2>3 DEF NothingLeft, Reader!AtEnd, Reader!Slice, Reader!UnchangedFrame
    <3> QED BY <1>1, <3>1
  <2> QED BY <1>4, <2>2, <2>3, Zenon DEF Reader!ReadAcross
<1> QED BY <1>2, <1>3, <1>4 DEF Reader!TryRead

(* Every step keeps it that reads fall short only at the end. *)
LEMMA ShortKept ==
  ASSUME FileInv, ShortOnlyAtEnd, [Next]_vars
  PROVE  ShortOnlyAtEnd'
<1>1. CASE rstatus = "new"
  <2>1. Reader!RInit
    BY <1>1 DEF FileInv, ReaderInv
  <2>2. shortRead' = 0
    BY <1>1, <2>1 DEF Next, vars, rvars, Reader!RInit, Reader!RNext, Reader!Open, Reader!TryRead,
                      Reader!TryGetReadBuffer
  <2> QED BY <2>2, FormatAssumption DEF ShortOnlyAtEnd
<1>2. CASE rstatus # "new" /\ [WNext]_wvars /\ UNCHANGED rvars
  <2>1. UNCHANGED wvars
    BY <1>2, ReadersPlace, StepsAreCalls, ClosedStays DEF FileInv, WriterFacts, WInv, Written
  <2>2. UNCHANGED << shortRead, avail, nextFrameSize >>
    BY <1>2 DEF rvars
  <2> QED BY <2>1, <2>2, SameFrames DEF ShortOnlyAtEnd, WellChunked, NothingLeft
<1>3. CASE rstatus # "new" /\ Reader!RNext /\ UNCHANGED wvars
  <2>1. PICK q : Reading(q)
    BY <1>3, ReadersPlace
  <2>2. CASE \E maxBytes \in 1 .. MAX_READ : \E minBytes \in 1 .. maxBytes :
               Reader!TryRead(minBytes, maxBytes)
    <3>1. PICK maxBytes \in 1 .. MAX_READ, minBytes \in 1 .. MAX_READ :
            minBytes <= maxBytes /\ Reader!TryRead(minBytes, maxBytes)
      BY <2>2, FileAssumption
    <3>2. maxBytes \in Nat /\ minBytes \in Nat
      BY FileAssumption
    <3> QED BY <1>3, <2>1, <3>1, <3>2, TryReadShort
  <2>3. CASE Reader!TryGetReadBuffer
    <3>1. shortRead' = shortRead
      BY <1>3, <2>1, <2>3, GetBufferKeeps
    <3>2. NothingLeft => NothingLeft'
      <4> SUFFICES ASSUME NothingLeft PROVE NothingLeft'
        OBVIOUS
      <4>1. Reader!AtEnd
        BY DEF NothingLeft, Reader!AtEnd
      <4>2. UNCHANGED nextFrameSize /\ avail'.from = avail'.to
        BY <2>3, <4>1 DEF Reader!TryGetReadBuffer, Reader!ReadFrame, Reader!Dies, Reader!Slice,
               Reader!UnchangedFrame, NothingLeft
      <4> QED BY <4>2 DEF NothingLeft
    <3> QED BY <1>3, <3>1, <3>2, SameFrames DEF ShortOnlyAtEnd, WellChunked
  <2> QED BY <1>3, <2>2, <2>3 DEF Reader!RNext, Reader!Open
<1> QED BY <1>1, <1>2, <1>3 DEF Next, vars

(***************************************************************************)
(* What kj::InputStream promises of tryRead holds for reads of up to a     *)
(* block of a well-chunked file, although it reads at most one frame.      *)
(***************************************************************************)
THEOREM ReaderFallsShortAtEnd == Spec => []ShortOnlyAtEnd
<1>1. Init => ShortOnlyAtEnd
  BY FormatAssumption DEF Init, Reader!RInit, ShortOnlyAtEnd
<1>2. FileInv /\ ShortOnlyAtEnd /\ [Next]_vars => ShortOnlyAtEnd'
  BY ShortKept
<1> QED BY <1>1, <1>2, FileInvariant, PTL DEF Spec

-----------------------------------------------------------------------------
(***************************************************************************)
(* A buffer file implements the abstract ByteFile, as long as no error of  *)
(* the underlying stream meets a write larger than a buffer: what is       *)
(* accepted, what is kept and what is handed out are the numbers from 1 up *)
(* to three counts, and no step of either stream lowers a count.           *)
(***************************************************************************)

(* The first n bytes of the stream. *)
Upto(n) == [i \in 1 .. n |-> i]

(* A shorter beginning is a prefix of a longer one. *)
LEMMA UptoPrefix ==
  ASSUME NEW m \in Nat, NEW n \in Nat, m <= n
  PROVE  IsPrefix(Upto(m), Upto(n))
<1>1. PICK s, t : s = Upto(m) /\ t = Upto(n)
  OBVIOUS
<1>2. /\ s \in Seq(Nat) /\ Len(s) = m /\ \A i \in 1 .. m : s[i] = i
      /\ t \in Seq(Nat) /\ Len(t) = n /\ \A i \in 1 .. n : t[i] = i
  BY <1>1 DEF Upto
<1>3. SubSeq(s, 1, m) = s
  BY <1>2
<1>4. SubSeq(t, 1, m) = s
  <2>1. PICK u : u = SubSeq(t, 1, m)
    OBVIOUS
  <2>2. u \in Seq(Nat) /\ Len(u) = m /\ \A i \in 1 .. m : u[i] = t[i]
    <3>1. \A i \in 1 .. m : i \in 1 .. n
      BY <1>2
    <3> QED BY <1>2, <2>1, <3>1
  <2>3. \A i \in 1 .. m : u[i] = s[i]
    BY <1>2, <2>2
  <2>4. u = s
    BY <1>2, <2>2, <2>3, SeqEqual
  <2> QED BY <2>1, <2>4
<1> QED BY <1>1, <1>2, <1>3, <1>4, Zenon DEF IsPrefix

(* A sequence whose every element is its place is such a beginning. *)
LEMMA UptoIs ==
  ASSUME NEW d \in Seq(Nat), NEW n \in Nat, Len(d) = n, \A k \in 1 .. n : d[k] = k
  PROVE  d = Upto(n)
<1>1. /\ Upto(n) \in Seq(Nat) /\ Len(Upto(n)) = n
      /\ \A k \in 1 .. n : Upto(n)[k] = k
  BY DEF Upto
<1>2. \A k \in 1 .. n : d[k] = Upto(n)[k]
  BY <1>1
<1> QED BY <1>1, <1>2, SeqEqual

-----------------------------------------------------------------------------
(***************************************************************************)
(* The complete frames, one after the other, are the first bytes of the    *)
(* stream, as many as are stored.                                          *)
(***************************************************************************)
LEMMA KeptIsStream ==
  ASSUME WriterFacts, ~Interrupted
  PROVE  KeptBytes = Upto(stored)
<1>1. PICK s, L : s = KeptParts /\ L = Len(sink)
  OBVIOUS
<1>2. /\ s \in Seq(Seq(Nat)) /\ Len(s) = L /\ L \in Nat
      /\ \A i \in 1 .. L : s[i] = KeptOf(i)
      /\ \A i \in 1 .. L + 1 : Start(s, i) = After(i)
      /\ After(L + 1) = stored /\ stored \in Nat
  BY <1>1, KeptStarts
<1>3. PICK d : d = FlattenSeq(s)
  OBVIOUS
<1>4. d \in Seq(Nat) /\ Len(d) = stored
  <2>1. L + 1 \in 1 .. L + 1
    BY <1>2
  <2> QED BY <1>2, <1>3, <2>1, FlattenType, StartLast
<1>5. ASSUME NEW k \in 1 .. stored PROVE d[k] = k
  <2>1. PICK i \in 1 .. Len(s) : \E j \in 1 .. Len(s[i]) : k = Start(s, i) + j
    <3>1. k \in 1 .. Len(FlattenSeq(s))
      BY <1>3, <1>4
    <3> QED BY <1>2, <3>1, FlattenCovers
  <2>2. PICK j \in 1 .. Len(s[i]) : k = Start(s, i) + j
    BY <2>1
  <2>3. d[k] = s[i][j]
    BY <1>2, <1>3, <2>2, FlattenAt
  <2>4. i \in 1 .. L /\ i \in 1 .. L + 1 /\ i \in 1 .. Len(sink)
    BY <1>1, <1>2
  <2>5. Complete(sink[i]) /\ s[i] = sink[i].plain
    <3>1. s[i] = KeptOf(i)
      BY <1>2, <2>4
    <3>2. s[i] # << >>
      BY <2>2
    <3> QED BY <3>1, <3>2 DEF KeptOf
  <2>6. sink[i].plain[j] = sink[i].after + j
    <3>1. FollowsOn(sink[i])
      BY <2>4, <2>5 DEF WriterFacts, WInv, FramesInOrder
    <3> QED BY <2>2, <2>5, <3>1 DEF FollowsOn
  <2>7. Start(s, i) = sink[i].after
    BY <1>2, <2>4, FactsType
  <2> QED BY <2>2, <2>3, <2>5, <2>6, <2>7
<1>6. KeptBytes = d
  BY <1>1, <1>3 DEF KeptBytes, KeptParts, KeptOf
<1> QED BY <1>2, <1>4, <1>5, <1>6, UptoIs

(* Nor has the reader handed out more. *)
LEMMA DeliveredBounded ==
  ASSUME FileInv
  PROVE  /\ Len(delivered) \in Nat /\ stored \in Nat /\ Len(delivered) <= stored
         /\ delivered \in Seq(Nat)
<1>1. stored \in Nat
  BY DEF FileInv, WriterFacts, WInv, TypeOK
<1>2. CASE rstatus = "new"
  <2>1. delivered = << >>
    BY <1>2 DEF FileInv, ReaderInv, Reader!RInit
  <2> QED BY <1>1, <2>1
<1>3. CASE rstatus # "new"
  <2>1. PICK q : Reading(q)
    BY <1>3, ReadersPlace
  <2>2. delivered \in Seq(Nat)
    BY <2>1 DEF Reading, ReaderShape
  <2> QED BY <2>1, <2>2, ReadingBounded
<1> QED BY <1>2, <1>3

-----------------------------------------------------------------------------
(***************************************************************************)
(* No error meets a large write: the writes fit a buffer, or the           *)
(* underlying stream does not fail.                                        *)
(***************************************************************************)
Undisturbed == MAX_WRITE <= BUFFER_SIZE \/ ~MayFail

(* Then an error never leaves the loop over chunks, *)
LoopSafe == IF MAX_WRITE <= BUFFER_SIZE THEN ~inLarge ELSE status # "failed" /\ ~Interrupted

(* and what is stored, and what the destructor will flush, has been accepted. *)
Covered ==
  /\ stored <= accepted
  /\ Running /\ ~inLarge => stored + bufferPos.off <= accepted

(* No step interrupts a large write, when writes are small or nothing fails. *)
LEMMA LoopStaysSafe ==
  ASSUME Undisturbed, TypeOK, LoopSafe, [WNext]_wvars
  PROVE  LoopSafe'
<1>1. CASE MAX_WRITE <= BUFFER_SIZE
  BY <1>1, StepStaysSmall DEF LoopSafe
<1>2. CASE ~(MAX_WRITE <= BUFFER_SIZE)
  <2>0. ~MayFail /\ status # "failed" /\ ~Interrupted
    BY <1>2 DEF Undisturbed, LoopSafe
  <2>1. \A fails \in Outcomes : ~fails
    BY <2>0 DEF Outcomes
  <2>2. ASSUME NEW fails \in Outcomes,
               \/ \E size \in 1 .. MAX_WRITE : WriteSpills(size, fails)
               \/ \E size \in 1 .. MAX_WRITE : WriteLargeFill(size, fails)
               \/ WriteLargeChunk(fails)
               \/ Flush(fails)
        PROVE  status' = "open"
    BY <2>1, <2>2 DEF WriteSpills, WriteLargeFill, WriteLargeChunk, Flush
  <2>3. ASSUME NEW fails \in Outcomes, DestroyFlush(fails) \/ DestroyAcross(fails)
        PROVE  status' = "closed" /\ ~inLarge /\ inLarge' = inLarge
    BY <1>2, <2>0, <2>3 DEF DestroyFlush, DestroyAcross, Destroyed
  <2>4. CASE DestroyEmpty
    BY <1>2, <2>0, <2>4 DEF DestroyEmpty, Destroyed, LoopSafe, Interrupted
  <2>5. CASE \E size \in 1 .. MAX_WRITE : WriteFits(size)
    BY <1>2, <2>0, <2>5 DEF WriteFits, LoopSafe, Interrupted
  <2>6. CASE WriteLargeRest \/ SourceReused \/ Crash \/ UNCHANGED wvars
    BY <1>2, <2>0, <2>6 DEF WriteLargeRest, SourceReused, Crash, wvars, LoopSafe, Interrupted
  <2> QED BY <1>2, <2>0, <2>2, <2>3, <2>4, <2>5, <2>6 DEF WNext, LoopSafe, Interrupted
<1> QED BY <1>1, <1>2

(* A step that ends in an error has stored nothing and moved nothing. *)
LEMMA ErrorMovesNothing ==
  ASSUME Undisturbed, TypeOK, LoopSafe, [WNext]_wvars, status' = "failed"
  PROVE  ~inLarge /\ UNCHANGED << bufferPos, stored >>
<1>1. LoopSafe'
  BY LoopStaysSafe
<1>2. MAX_WRITE <= BUFFER_SIZE /\ ~inLarge
  BY <1>1 DEF LoopSafe
<1>3. \A size \in 1 .. MAX_WRITE : ~(size > BUFFER_SIZE)
  <2>1. MAX_WRITE \in Nat /\ BUFFER_SIZE \in Nat
    BY OutputAssumption, FormatAssumption
  <2> QED BY <1>2, <2>1
<1>4. ASSUME NEW size \in 1 .. MAX_WRITE, NEW fails \in Outcomes, WriteSpills(size, fails)
      PROVE  UNCHANGED << bufferPos, stored >>
  <2>1. fails
    BY <1>4 DEF WriteSpills
  <2>2. UNCHANGED bufferPos
    BY <1>4, <2>1 DEF WriteSpills
  <2>3. UNCHANGED stored
    BY <1>4, <2>1 DEF WriteSpills, CompressAndWrite
  <2> QED BY <2>2, <2>3
<1>5. ASSUME NEW fails \in Outcomes, Flush(fails) PROVE UNCHANGED << bufferPos, stored >>
  <2>1. fails
    BY <1>5 DEF Flush
  <2>2. UNCHANGED bufferPos
    BY <1>5, <2>1 DEF Flush
  <2>3. UNCHANGED stored
    BY <1>5, <2>1 DEF Flush, CompressAndWrite
  <2> QED BY <2>2, <2>3
<1>6. \A size \in 1 .. MAX_WRITE, fails \in Outcomes : ~WriteLargeFill(size, fails)
  BY <1>3 DEF WriteLargeFill
<1>7. ~(\E size \in 1 .. MAX_WRITE : WriteFits(size))
  BY DEF WriteFits
<1>8. \A fails \in Outcomes : ~WriteLargeChunk(fails) /\ ~DestroyFlush(fails) /\ ~DestroyAcross(fails)
  BY <1>2 DEF WriteLargeChunk, DestroyFlush, DestroyAcross
<1>9. ~WriteLargeRest /\ ~DestroyEmpty /\ ~Crash
  BY <1>2 DEF WriteLargeRest, DestroyEmpty, Crash
<1>10. SourceReused \/ UNCHANGED wvars => UNCHANGED << bufferPos, stored >>
  BY DEF SourceReused, wvars
<1> QED BY <1>2, <1>4, <1>5, <1>6, <1>7, <1>8, <1>9, <1>10 DEF WNext

(* The destructor flushes no more than was accepted. *)
LEMMA DestructorCovered ==
  ASSUME WInv, LoopSafe, Covered, NEW fails \in BOOLEAN,
         DestroyFlush(fails) \/ DestroyAcross(fails)
  PROVE  stored' <= accepted
<1>1. Destroyed /\ Running /\ ~inLarge
  BY DEF DestroyFlush, DestroyAcross, Destroyed, Running, LoopSafe
<1>2. bufferPos.buf = activeBuffer
  BY <1>1 DEF WInv, BufferHoldsTail, Running
<1>3. DestroyFlush(fails)
  BY <1>2 DEF DestroyAcross
<1>4. /\ stored \in Nat /\ accepted \in Nat /\ bufferPos.off \in Nat
      /\ activeBuffer \in Buffers /\ writeBuffer[activeBuffer] \in [Offsets -> Nat]
      /\ bufferPos.off \in 0 .. BUFFER_SIZE
  BY FormatAssumption DEF WInv, TypeOK
<1>5. Len(Contents(writeBuffer[activeBuffer], bufferPos.off)) = bufferPos.off
  BY <1>4, ContentsType
<1>6. stored' = stored \/ stored' = stored + bufferPos.off
  BY <1>3, <1>5 DEF DestroyFlush, CompressAndWrite
<1>7. stored + bufferPos.off <= accepted
  BY <1>1 DEF Covered
<1> QED BY <1>4, <1>6, <1>7

(* No step of the output stream lowers a count, and the order of the counts stays. *)
LEMMA CountsGrow ==
  ASSUME Undisturbed, WInv, WInv', BlockLeftBehind, LoopSafe, Covered, [WNext]_wvars
  PROVE  Covered' /\ stored <= stored' /\ accepted <= accepted'
<1>1. /\ stored \in Nat /\ accepted \in Nat /\ bufferPos.off \in Nat
      /\ stored' \in Nat /\ accepted' \in Nat /\ bufferPos'.off \in Nat /\ remaining' \in Nat
      /\ status' \in {"open", "failed", "closed", "crashed"}
  BY FormatAssumption DEF WInv, TypeOK
<1>2. accepted <= accepted'
  <2>1. \A size \in 1 .. MAX_WRITE : accepted <= accepted + size
    BY <1>1, OutputAssumption
  <2>2. \/ UNCHANGED accepted
        \/ \E size \in 1 .. MAX_WRITE : accepted' = accepted + size
    BY DEF WNext, WriteFits, WriteSpills, WriteLargeFill, WriteLargeChunk, WriteLargeRest, Flush,
           DestroyFlush, DestroyEmpty, DestroyAcross, SourceReused, Crash, wvars
  <2> QED BY <1>1, <2>1, <2>2
<1>3. stored <= stored'
  <2>1. CASE UNCHANGED << sink, stored >>
    BY <1>1, <2>1
  <2>2. ASSUME NEW fails \in BOOLEAN, NEW f, Hands(f, fails) PROVE stored <= stored'
    <3>1. f \in Frame /\ stored' = EndOf(f) /\ f.after = stored
      BY <2>2 DEF Hands
    <3>2. Len(f.plain) \in Nat
      BY <3>1 DEF Frame
    <3>3. stored' = stored + 0 \/ stored' = stored + Len(f.plain)
      BY <3>1 DEF EndOf
    <3> QED BY <1>1, <3>2, <3>3
  <2> QED BY <2>1, <2>2, StepsAreCalls, StepHands
<1>4. CASE status' = "open"
  <2>1. accepted' = stored' + (IF inLarge' THEN remaining' ELSE bufferPos'.off)
    BY <1>4 DEF WInv, BytesAccounted
  <2>2. CASE inLarge'
    <3>1. PICK a, s, r : a = accepted' /\ s = stored' /\ r = remaining'
      OBVIOUS
    <3>2. a = s + r /\ s \in Nat /\ r \in Nat
      BY <1>1, <2>1, <2>2, <3>1
    <3>3. s <= a
      BY ONLY <3>2
    <3> QED BY <1>2, <1>3, <2>2, <3>1, <3>3 DEF Covered
  <2>3. CASE ~inLarge'
    <3>1. PICK a, s, r : a = accepted' /\ s = stored' /\ r = bufferPos'.off
      OBVIOUS
    <3>2. a = s + r /\ s \in Nat /\ r \in Nat
      BY <1>1, <2>1, <2>3, <3>1
    <3>3. s <= a /\ s + r <= a
      BY ONLY <3>2
    <3> QED BY <1>2, <1>3, <3>1, <3>3 DEF Covered
  <2> QED BY <2>2, <2>3
<1>5. CASE status' = "failed"
  <2>1. ~inLarge /\ UNCHANGED << bufferPos, stored >>
    BY <1>5, ErrorMovesNothing DEF WInv
  <2>2. Running
    BY <1>5 DEF WNext, WriteFits, WriteSpills, WriteLargeFill, WriteLargeChunk, WriteLargeRest,
           Flush, DestroyFlush, DestroyEmpty, DestroyAcross, SourceReused, Destroyed, Crash, wvars,
           Running
  <2>3. stored + bufferPos.off <= accepted
    BY <2>1, <2>2 DEF Covered
  <2>4. stored' <= accepted' /\ stored' + bufferPos'.off <= accepted'
    BY <1>1, <1>2, <2>1, <2>3
  <2> QED BY <1>2, <1>3, <2>4 DEF Covered
<1>6. CASE status' \in {"closed", "crashed"}
  <2>0. \A fails \in Outcomes : fails \in BOOLEAN
    BY Zenon DEF Outcomes
  <2>1. ASSUME NEW fails \in Outcomes, DestroyFlush(fails) \/ DestroyAcross(fails)
        PROVE  stored' <= accepted
    BY <2>0, <2>1, DestructorCovered
  <2>2. ASSUME UNCHANGED stored PROVE stored' <= accepted
    BY <2>2 DEF Covered
  <2>3. \/ UNCHANGED stored
        \/ \E fails \in Outcomes : DestroyFlush(fails) \/ DestroyAcross(fails)
    BY <1>6 DEF WNext, WriteFits, WriteSpills, WriteLargeFill, WriteLargeChunk, WriteLargeRest,
           Flush, DestroyEmpty, SourceReused, Crash, wvars
  <2>4. stored' <= accepted
    BY <2>1, <2>2, <2>3 DEF Covered
  <2>5. stored' <= accepted'
    BY <1>1, <1>2, <2>4
  <2> QED BY <1>2, <1>3, <1>6, <2>5 DEF Covered, Running
<1> QED BY <1>1, <1>4, <1>5, <1>6

-----------------------------------------------------------------------------
(* The invariant under which the file is a ByteFile, *)
KeepsPromise == FileInv /\ LoopSafe /\ Covered

(* and what it says of the three sequences: they are beginnings of the stream. *)
Beginnings ==
  /\ KeptBytes = Upto(stored)
  /\ delivered = Upto(Len(delivered))
  /\ accepted \in Nat /\ stored \in Nat /\ Len(delivered) \in Nat
  /\ Len(delivered) <= stored /\ stored <= accepted

(* What is kept, and what is handed out, are beginnings of what was accepted. *)
LEMMA PromiseBegins ==
  ASSUME KeepsPromise
  PROVE  Beginnings
<1>1. WriterFacts /\ ~Interrupted /\ accepted \in Nat
  BY DEF KeepsPromise, FileInv, WriterFacts, WInv, TypeOK, LoopSafe, Interrupted
<1>2. KeptBytes = Upto(stored)
  BY <1>1, KeptIsStream
<1>3. /\ Len(delivered) \in Nat /\ stored \in Nat /\ Len(delivered) <= stored
      /\ delivered \in Seq(Nat)
  BY DeliveredBounded DEF KeepsPromise
<1>4. \A n \in 1 .. Len(delivered) : delivered[n] = n
  BY <1>1, OrderOfDelivery DEF KeepsPromise, DeliveredInOrder
<1>5. delivered = Upto(Len(delivered))
  BY <1>3, <1>4, UptoIs
<1> QED BY <1>1, <1>2, <1>3, <1>5 DEF KeepsPromise, Covered, Beginnings

(* Every step keeps the promise. *)
LEMMA PromiseKept ==
  ASSUME Undisturbed, KeepsPromise, [Next]_vars
  PROVE  KeepsPromise'
<1>1. FileInv'
  BY FileInvKept DEF KeepsPromise
<1>2. WInv /\ WInv' /\ BlockLeftBehind /\ TypeOK
  BY <1>1 DEF KeepsPromise, FileInv, WriterFacts, FrameInv, WInv
<1>3. [WNext]_wvars
  BY DEF Next, vars
<1>4. LoopSafe' /\ Covered'
  BY <1>2, <1>3, LoopStaysSafe, CountsGrow DEF KeepsPromise
<1> QED BY <1>1, <1>4 DEF KeepsPromise

(* The phase of the abstract file. *)
Phase == IF ~Written THEN "writing"
         ELSE IF rstatus \in {"new", "open"} THEN "written" ELSE "rejected"

(* ByteFile speaks of prefixes as the library does. *)
LEMMA PrefixIs ==
  ASSUME NEW m \in Nat, NEW n \in Nat, m <= n
  PROVE  Abstract!IsPrefix(Upto(m), Upto(n))
  BY UptoPrefix, Zenon DEF Abstract!IsPrefix, IsPrefix

(* What does not change of the counts and of the phase does not change the abstract file. *)
Unseen == UNCHANGED << Upto(accepted), KeptBytes, delivered, Phase >>

(* A step of the output stream is a Write, a Close, or not to be seen. *)
LEMMA WriterRefines ==
  ASSUME Undisturbed, KeepsPromise, KeepsPromise', Beginnings, Beginnings',
         [WNext]_wvars, UNCHANGED rvars
  PROVE  Abstract!Write \/ Abstract!Close \/ Unseen
<1>1. /\ accepted \in Nat /\ stored \in Nat /\ accepted' \in Nat /\ stored' \in Nat
      /\ KeptBytes = Upto(stored) /\ KeptBytes' = Upto(stored') /\ stored' <= accepted'
  BY DEF Beginnings, Upto
<1>2. stored <= stored' /\ accepted <= accepted'
  <2>1. WInv /\ WInv' /\ BlockLeftBehind
    BY DEF KeepsPromise, FileInv, WriterFacts, FrameInv
  <2> QED BY <2>1, CountsGrow DEF KeepsPromise
<1>3. /\ Abstract!IsPrefix(Upto(accepted), Upto(accepted'))
      /\ Abstract!IsPrefix(KeptBytes, KeptBytes')
      /\ Abstract!IsPrefix(KeptBytes', Upto(accepted'))
  BY <1>1, <1>2, PrefixIs
<1>4. UNCHANGED << delivered, rstatus >>
  BY DEF rvars
<1>5. CASE Written
  <2>1. UNCHANGED wvars
    BY <1>5, StepsAreCalls, ClosedStays DEF Written, KeepsPromise, FileInv, WriterFacts, WInv
  <2>2. UNCHANGED << accepted, stored, status >>
    BY <2>1, SameFrames
  <2> QED BY <1>1, <1>4, <2>2 DEF Unseen, Phase, Written, Upto
<1>6. CASE ~Written /\ ~Written'
  <2>1. Phase = "writing" /\ Phase' = "writing"
    BY <1>6 DEF Phase
  <2>2. Abstract!Write
    BY <1>3, <1>4, <2>1 DEF Abstract!Write, Abstract!Keep, Phase, Upto
  <2> QED BY <2>2
<1>7. CASE ~Written /\ Written'
  <2>1. rstatus = "new"
    BY <1>7, ReadersPlace DEF KeepsPromise
  <2>2. Phase = "writing" /\ Phase' = "written"
    BY <1>4, <1>7, <2>1 DEF Phase
  <2>3. UNCHANGED accepted
    BY <1>7 DEF Written, WNext, WriteFits, WriteSpills, WriteLargeFill, WriteLargeChunk,
           WriteLargeRest, Flush, DestroyFlush, DestroyEmpty, DestroyAcross, SourceReused, Crash,
           wvars
  <2>4. Abstract!Close
    BY <1>3, <1>4, <2>2, <2>3 DEF Abstract!Close, Abstract!Keep, Phase, Upto
  <2> QED BY <2>4
<1> QED BY <1>5, <1>6, <1>7

(* A step of the input stream is a Read, a Reject, or not to be seen. *)
LEMMA ReaderRefines ==
  ASSUME KeepsPromise, Beginnings, Beginnings',
         Written, Reader!RNext, UNCHANGED wvars
  PROVE  Abstract!Read \/ Abstract!Reject \/ Unseen
<1>1. /\ UNCHANGED << accepted, stored, status >> /\ Written'
  BY SameFrames
<1>2. /\ KeptBytes' = KeptBytes /\ Upto(accepted)' = Upto(accepted)
      /\ KeptBytes = Upto(stored)
      /\ delivered = Upto(Len(delivered)) /\ delivered' = Upto(Len(delivered'))
      /\ stored \in Nat /\ Len(delivered) \in Nat /\ Len(delivered') \in Nat
      /\ Len(delivered') <= stored
  BY <1>1 DEF Beginnings, Upto
<1>3. rstatus \in {"new", "open"} /\ Phase = "written"
  BY DEF Reader!RNext, Reader!Open, Reader!TryRead, Reader!TryGetReadBuffer, Phase
<1>4. CASE Reader!Open
  <2>1. rstatus' = "open" /\ UNCHANGED delivered
    BY <1>4 DEF Reader!Open
  <2>2. Phase' = "written"
    BY <1>1, <2>1 DEF Phase
  <2> QED BY <1>2, <1>3, <2>1, <2>2 DEF Unseen
<1>5. CASE ~Reader!Open
  <2>1. \/ \E maxBytes \in 1 .. MAX_READ : \E minBytes \in 1 .. maxBytes :
              Reader!TryRead(minBytes, maxBytes)
        \/ Reader!TryGetReadBuffer
    BY <1>5 DEF Reader!RNext
  <2>2. rstatus = "open"
    BY <2>1 DEF Reader!TryRead, Reader!TryGetReadBuffer
  <2>3. PICK q : Reading(q)
    BY <2>2, ReadersPlace DEF KeepsPromise
  <2>4. /\ rstatus' \in {"open", "aborted", "overrun", "exited"}
        /\ Len(delivered) <= Len(delivered')
    <3>1. CASE Reader!TryGetReadBuffer
      BY <1>2, <2>3, <3>1, GetBufferKeeps
    <3>2. ASSUME NEW maxBytes \in 1 .. MAX_READ, NEW minBytes \in 1 .. maxBytes,
                 Reader!TryRead(minBytes, maxBytes)
          PROVE  /\ rstatus' \in {"open", "aborted", "overrun", "exited"}
                 /\ Len(delivered) <= Len(delivered')
      <4>1. maxBytes \in Nat /\ minBytes \in Nat /\ minBytes <= maxBytes
        BY FileAssumption
      <4> QED BY <2>3, <3>2, <4>1, TryReadKeeps DEF Grows
    <3> QED BY <2>1, <3>1, <3>2
  <2>5. CASE rstatus' = "open"
    <3>1. Phase' = "written"
      BY <1>1, <2>5 DEF Phase
    <3>2. /\ Abstract!IsPrefix(delivered, delivered')
          /\ Abstract!IsPrefix(delivered', KeptBytes)
      BY <1>2, <2>4, PrefixIs
    <3>3. Abstract!Read
      BY <1>2, <1>3, <3>1, <3>2 DEF Abstract!Read, Phase, Upto
    <3> QED BY <3>3
  <2>6. CASE rstatus' # "open"
    <3>1. Phase' = "rejected"
      BY <1>1, <2>4, <2>6 DEF Phase
    <3>2. UNCHANGED delivered
      BY <2>1, <2>2, <2>6 DEF Reader!TryRead, Reader!ReadFromBuffer, Reader!ReadAcross,
             Reader!ReadUnsupported, Reader!TryGetReadBuffer, Reader!Dies
    <3>3. Abstract!Reject
      BY <1>2, <1>3, <3>1, <3>2 DEF Abstract!Reject, Phase, Upto
    <3> QED BY <3>3
  <2> QED BY <2>5, <2>6
<1> QED BY <1>4, <1>5

(***************************************************************************)
(* Output stream, file and input stream together implement the byte file:  *)
(* with errors, crashes and torn frames if the writes fit a buffer, and    *)
(* with writes of any size if the underlying stream does not fail.         *)
(***************************************************************************)
THEOREM FileImplementsByteFile ==
  ASSUME Undisturbed
  PROVE  Spec => ImplementsByteFile
<1>1. Init => KeepsPromise /\ Abstract!Init
  <2> SUFFICES ASSUME Init PROVE KeepsPromise /\ Abstract!Init
    OBVIOUS
  <2>1. FileInv
    BY FileInvStarts
  <2>2. /\ ~inLarge /\ status = "open" /\ stored = 0 /\ accepted = 0 /\ bufferPos.off = 0
        /\ delivered = << >> /\ sink = << >>
    BY DEF Init, WInit, Reader!RInit
  <2>3. KeepsPromise
    BY <2>1, <2>2 DEF KeepsPromise, LoopSafe, Interrupted, Covered
  <2>4. KeptBytes = Upto(0) /\ Upto(accepted) = << >> /\ Upto(0) = << >>
    BY <2>2, <2>3, PromiseBegins DEF Beginnings, Upto
  <2>5. Abstract!Init
    BY <2>2, <2>4 DEF Abstract!Init, Written, Upto
  <2> QED BY <2>3, <2>5
<1>2. KeepsPromise /\ [Next]_vars => KeepsPromise'
  BY PromiseKept
<1>3. KeepsPromise => Beginnings
  BY PromiseBegins
<1>4. /\ KeepsPromise /\ KeepsPromise' /\ Beginnings /\ Beginnings' /\ [Next]_vars
      => [Abstract!Next]_<< Upto(accepted), KeptBytes, delivered, Phase >>
  <2> SUFFICES ASSUME KeepsPromise, KeepsPromise', Beginnings, Beginnings', [Next]_vars
               PROVE  Abstract!Next \/ Unseen
    BY DEF Unseen
  <2>1. CASE [WNext]_wvars /\ UNCHANGED rvars
    BY <2>1, WriterRefines DEF Abstract!Next
  <2>2. CASE Written /\ Reader!RNext /\ UNCHANGED wvars
    BY <2>2, ReaderRefines DEF Abstract!Next
  <2> QED BY <2>1, <2>2 DEF Next, vars
<1> QED BY <1>1, <1>2, <1>3, <1>4, PTL DEF Spec, ImplementsByteFile, Abstract!Spec, Upto, Phase

=============================================================================
