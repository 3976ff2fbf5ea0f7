---------------------------- MODULE LZ4InputStream ----------------------------
(***************************************************************************)
(* The decompressing input stream: source/LZ4InputStream.cpp.              *)
(*                                                                         *)
(* It reads a frame together with the header of the next one, decodes it   *)
(* to the start of its one plaintext buffer, where the previous block,     *)
(* which is the decoder's dictionary, still lies, compares the hash, and   *)
(* serves reads from that buffer.  A mismatch ends the program (`throw;`   *)
(* with no exception to rethrow).                                          *)
(*                                                                         *)
(* The file is what the writer's calls of inner.write left: the cells that *)
(* landed of each frame of sink, one after the other.                      *)
(***************************************************************************)
EXTENDS LZ4Format, SequencesExt

CONSTANTS
  MAX_READ    \* bound: the largest maxBytes of a read

VARIABLES
  sink,          \* the writer's frames
  file,          \* the cells of the opened file
  filePos,       \* cells read from the underlying stream
  nextFrameSize,
  lastHash,      \* the hash cell that belongs to the next frame
  compressed,    \* compressedBuffer
  decompressed,  \* decompressedBuffer
  prefixSize,    \* LZ4_streamDecode_t: length of the block decoded last
  avail,         \* bufferAvailable: [from, to) in decompressedBuffer
  delivered,     \* history: the bytes handed to the caller
  shortRead,     \* history: minBytes of the last tryRead if it returned less, else 0
  rstatus

rvars == << file, filePos, nextFrameSize, lastHash, compressed, decompressed,
            prefixSize, avail, delivered, shortRead, rstatus >>

-----------------------------------------------------------------------------
(***************************************************************************)
(* The file's cells.  id is the frame a cell belongs to, and a payload     *)
(* cell is the k-th of that frame; a "stale" cell is memory that was never *)
(* written.                                                                *)
(***************************************************************************)
Cell(kind, id, k) == [kind |-> kind, id |-> id, k |-> k]
StaleCell == Cell("stale", 0, 0)

FrameCells(id) ==
  << Cell("size", id, 0), Cell("hash", id, 0) >>
    \o [k \in 1 .. sink[id].clen |-> Cell("data", id, k)]

FileHeader == << Cell("magic", 0, 0), Cell("bufsize", 0, 0) >>

Bytes ==
  FileHeader \o FlattenSeq([id \in DOMAIN sink |->
                              SubSeq(FrameCells(id), 1, sink[id].landed)])

(* compressedBuffer has BUFFER_SIZE cells, decompressedBuffer the bound and a header. *)
CompressedCapacity == BUFFER_SIZE
DecompressedCapacity == CompressBound(BUFFER_SIZE) + FRAME_HEADER_SIZE

(* inner.tryRead(dst, _, n): what is there, at most n cells. *)
Landing(n) == AtMost(n, Len(file) - filePos)

-----------------------------------------------------------------------------
RInit ==
  /\ file = << >>
  /\ filePos = 0
  /\ nextFrameSize = 0
  /\ lastHash = StaleCell
  /\ compressed = [i \in 0 .. CompressedCapacity - 1 |-> StaleCell]
  /\ decompressed = [i \in 0 .. DecompressedCapacity - 1 |-> 0]
  /\ prefixSize = 0
  /\ avail = [from |-> 0, to |-> 0]
  /\ delivered = << >>
  /\ shortRead = 0
  /\ rstatus = "new"

(***************************************************************************)
(* The constructor reads the file header and the first frame header into a *)
(* fresh buffer and does not look at how much it got: fields past the end  *)
(* of the file are whatever the memory held.                               *)
(***************************************************************************)
Open ==
  /\ rstatus = "new"
  /\ file' = Bytes
  /\ LET got == AtMost(HEADER_SIZE + FRAME_HEADER_SIZE, Len(file')) IN
     /\ filePos' = got
     /\ IF got > HEADER_SIZE
        THEN nextFrameSize' = sink[file'[HEADER_SIZE + 1].id].clen
        ELSE nextFrameSize' \in {0} \cup CompressedSizes
     /\ lastHash' = IF got = HEADER_SIZE + FRAME_HEADER_SIZE
                    THEN file'[got] ELSE StaleCell
  /\ rstatus' = "open"
  /\ UNCHANGED << compressed, decompressed, prefixSize, avail, delivered, shortRead >>

-----------------------------------------------------------------------------
(* readCompressed, inner.tryRead: the cells land at the start of compressedBuffer. *)
Received(n) ==
  [i \in 0 .. CompressedCapacity - 1 |->
     IF i < Landing(n) THEN file[filePos + i + 1] ELSE compressed[i]]

(* A cell of compressedBuffer, or of the memory behind it, to which no cell is read. *)
CellAt(buffer, i) == IF i < CompressedCapacity THEN buffer[i] ELSE StaleCell

(* The first n cells from the start of buffer are one whole frame. *)
IsFrame(buffer, id, n) ==
  /\ id \in DOMAIN sink
  /\ sink[id].clen = n
  /\ \A i \in 0 .. n - 1 : CellAt(buffer, i) = Cell("data", id, i + 1)

(***************************************************************************)
(* LZ4_decompress_safe_continue to the start of decompressedBuffer.  The   *)
(* dictionary is the block decoded last, in the same place: when byte p of *)
(* the new block is written, the bytes before it have replaced that part   *)
(* of the dictionary.  Old(p, k) is what the decoder finds k cells before  *)
(* the frame while it writes byte p.                                       *)
(***************************************************************************)
Old(f, p, k) ==
  LET at == prefixSize - k IN IF at < p THEN f.plain[at + 1] ELSE decompressed[at]

(* A match of byte p may reach k cells before the frame when the distance allows it. *)
Reaches(p, k) == p + k <= Window

Decodable(f) ==
  /\ Len(f.plain) <= DecompressedCapacity
  /\ \A p \in 0 .. Len(f.plain) - 1 : \A k \in 1 .. Len(f.sees) :
       Reaches(p, k) => /\ k <= prefixSize
                        /\ Old(f, p, k) = f.sees[k]

Decoded(f) ==
  [i \in 0 .. DecompressedCapacity - 1 |->
     IF i < Len(f.plain) THEN f.plain[i + 1] ELSE decompressed[i]]

(***************************************************************************)
(* readCompressed.  With nothing left it returns 0.  Otherwise it either   *)
(* overruns compressedBuffer, or it ends the program at the comparison of  *)
(* the hashes, or n bytes are decoded and the next header is taken over.   *)
(***************************************************************************)
AtEnd == nextFrameSize = 0

(* The frame and the header behind it are asked for at once; at the end of the file less lands. *)
Overruns == Landing(nextFrameSize + FRAME_HEADER_SIZE) > CompressedCapacity

(* A frame that decodes to the bytes its header's hash was computed of. *)
GoodFrame(id) ==
  /\ IsFrame(Received(nextFrameSize + FRAME_HEADER_SIZE), id, nextFrameSize)
  /\ Decodable(sink[id])
  /\ lastHash.kind = "hash"
  /\ sink[lastHash.id].plain = sink[id].plain

(* Deliberate error, for EndDeliversStored, ReplaySucceeds and ReadsToTheEnd: *)
(* a whole header is taken for none.                                          *)
NextHeaderShort(size, hash) ==
  /\ lastHash' = hash
  /\ IF Landing(nextFrameSize + FRAME_HEADER_SIZE) > nextFrameSize + FRAME_HEADER_SIZE
     THEN nextFrameSize' = sink[size.id].clen
     ELSE nextFrameSize' = 0

(* Deliberate error, for NeverRejected: the next frame's hash is not taken over. *)
NextHeaderStale(size, hash) ==
  /\ UNCHANGED lastHash
  /\ IF Landing(nextFrameSize + FRAME_HEADER_SIZE) = nextFrameSize + FRAME_HEADER_SIZE
     THEN nextFrameSize' = sink[size.id].clen
     ELSE nextFrameSize' = 0

(* The header behind the frame; with less than a whole one the file has ended. *)
NextHeader(size, hash) ==
  /\ lastHash' = hash
  /\ IF Landing(nextFrameSize + FRAME_HEADER_SIZE) = nextFrameSize + FRAME_HEADER_SIZE
     THEN nextFrameSize' = sink[size.id].clen
     ELSE nextFrameSize' = 0

ReadFrame(id) ==
  LET buffer == Received(nextFrameSize + FRAME_HEADER_SIZE) IN
  /\ ~AtEnd /\ ~Overruns
  /\ GoodFrame(id)
  /\ filePos' = filePos + Landing(nextFrameSize + FRAME_HEADER_SIZE)
  /\ compressed' = buffer
  /\ decompressed' = Decoded(sink[id])
  /\ prefixSize' = Len(sink[id].plain)
  /\ UNCHANGED file
  /\ NextHeader(CellAt(buffer, nextFrameSize), CellAt(buffer, nextFrameSize + 1))

(* Every other outcome ends the program, or leaves it with a damaged heap. *)
Dies ==
  /\ ~AtEnd
  /\ rstatus' = IF Overruns THEN "overrun" ELSE "aborted"
  /\ Overruns \/ \A id \in DOMAIN sink : ~GoodFrame(id)
  /\ UNCHANGED << file, filePos, nextFrameSize, lastHash, compressed, decompressed,
                  prefixSize, avail, delivered, shortRead >>

UnchangedFrame ==
  UNCHANGED << file, filePos, nextFrameSize, lastHash, compressed, decompressed, prefixSize >>

-----------------------------------------------------------------------------
InBuffer == avail.to - avail.from

(* Deliberate error, for DeliveredInOrder: what was copied out is kept. *)
SliceWhole(from, to) == [from |-> 0, to |-> to]

(* decompressedBuffer.slice(from, to) *)
Slice(from, to) == [from |-> from, to |-> to]

(* Deliberate error, for ShortOnlyAtEnd: the bytes copied are subtracted twice. *)
WantedTwice(maxBytes) == maxBytes - 2 * InBuffer

(* maxBytes -= fromFirstBuffer *)
Wanted(maxBytes) == maxBytes - InBuffer

(* Deliberate error, for ReaderTypes: what is available is not respected. *)
ServedUnbounded(maxBytes) == maxBytes

(* min(bufferAvailable.size(), maxBytes) *)
Served(maxBytes) == AtMost(InBuffer, maxBytes)

(* n cells of the plaintext in buffer, from offset from on. *)
Plaintext(buffer, from, n) == [i \in 1 .. n |-> buffer[from + i - 1]]

(* tryRead, minBytes <= bufferAvailable.size(): served from the buffer. *)
ReadFromBuffer(minBytes, maxBytes) ==
  LET n == Served(maxBytes) IN
  /\ minBytes <= InBuffer
  /\ delivered' = delivered \o Plaintext(decompressed, avail.from, n)
  /\ avail' = [avail EXCEPT !.from = @ + n]
  /\ shortRead' = 0
  /\ UnchangedFrame
  /\ UNCHANGED rstatus

(***************************************************************************)
(* tryRead, minBytes > bufferAvailable.size(): the rest of the buffer is   *)
(* copied out, one more frame is read, and what is still wanted is taken   *)
(* from it.  One frame is all it reads.                                    *)
(***************************************************************************)
ReadAcross(minBytes, maxBytes) ==
  LET first == Plaintext(decompressed, avail.from, InBuffer) IN
  /\ minBytes > InBuffer
  /\ Wanted(maxBytes) <= DecompressedCapacity
  /\ \/ \E id \in DOMAIN sink :
          /\ ReadFrame(id)
          /\ LET n == AtMost(Len(sink[id].plain), Wanted(maxBytes)) IN
             /\ delivered' = delivered \o first \o Plaintext(decompressed', 0, n)
             /\ avail' = Slice(n, Len(sink[id].plain))
             /\ shortRead' = IF InBuffer + n < minBytes THEN minBytes ELSE 0
          /\ UNCHANGED rstatus
     \/ /\ AtEnd
        /\ delivered' = delivered \o first
        /\ avail' = Slice(0, 0)
        /\ shortRead' = minBytes
        /\ UnchangedFrame
        /\ UNCHANGED rstatus
     \/ Dies

(* A read of more than the plaintext buffer holds: exit(42). *)
ReadUnsupported(minBytes, maxBytes) ==
  /\ minBytes > InBuffer
  /\ Wanted(maxBytes) > DecompressedCapacity
  /\ rstatus' = "exited"
  /\ UnchangedFrame
  /\ UNCHANGED << avail, delivered, shortRead >>

TryRead(minBytes, maxBytes) ==
  /\ rstatus = "open"
  /\ \/ ReadFromBuffer(minBytes, maxBytes)
     \/ ReadAcross(minBytes, maxBytes)
     \/ ReadUnsupported(minBytes, maxBytes)

(* tryGetReadBuffer: an empty buffer is refilled; what it returns is not consumed. *)
TryGetReadBuffer ==
  /\ rstatus = "open"
  /\ InBuffer = 0
  /\ \/ \E id \in DOMAIN sink :
          /\ ReadFrame(id)
          /\ avail' = Slice(0, Len(sink[id].plain))
          /\ UNCHANGED << delivered, shortRead, rstatus >>
     \/ /\ AtEnd
        /\ avail' = Slice(0, 0)
        /\ UnchangedFrame
        /\ UNCHANGED << delivered, shortRead, rstatus >>
     \/ Dies

RNext ==
  \/ Open
  \/ \E maxBytes \in 1 .. MAX_READ : \E minBytes \in 1 .. maxBytes :
       TryRead(minBytes, maxBytes)
  \/ TryGetReadBuffer

-----------------------------------------------------------------------------
(* Types of the reader's state. *)
RTypeOK ==
  /\ filePos \in 0 .. Len(file)
  /\ file \in Seq([kind : {"magic", "bufsize", "size", "hash", "data"}, id : Nat, k : Nat])
  /\ nextFrameSize \in Nat
  /\ DOMAIN compressed = 0 .. CompressedCapacity - 1
  /\ decompressed \in [0 .. DecompressedCapacity - 1 -> Nat]
  /\ prefixSize \in 0 .. DecompressedCapacity
  /\ avail \in [from : 0 .. DecompressedCapacity, to : 0 .. DecompressedCapacity]
  /\ avail.from <= avail.to
  /\ delivered \in Seq(Nat)
  /\ shortRead \in 0 .. MAX_READ
  /\ rstatus \in {"new", "open", "aborted", "overrun", "exited"}

==============================================================================
