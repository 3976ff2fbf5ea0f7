--------------------------- MODULE LZ4OutputStream ---------------------------
(***************************************************************************)
(* The compressing output stream: source/LZ4OutputStream.cpp.              *)
(*                                                                         *)
(* Bytes written are collected in one of two write buffers.  A full buffer *)
(* is compressed, framed and handed to the underlying stream (inner), and  *)
(* the other buffer becomes the active one, because the compressor keeps   *)
(* referring to the memory of the block it compressed last.  A write       *)
(* larger than a buffer is compressed straight from the caller's memory.   *)
(*                                                                         *)
(* Every call of inner.write may fail after taking some of the cells; the  *)
(* exception leaves the stream to its destructor, which flushes again.     *)
(* The process may die at any time.                                        *)
(***************************************************************************)
EXTENDS LZ4Format

CONSTANTS
  MAX_WRITE,   \* bound: the largest write
  MAX_BYTES,   \* bound: the length of the stream
  MAX_FLUSH,   \* bound: flush is called while there are fewer frames
  MayFail      \* whether inner.write may fail

ASSUME OutputAssumption ==
  /\ MAX_WRITE \in Nat
  /\ MAX_BYTES \in Nat
  /\ MAX_FLUSH \in Nat
  /\ MayFail \in BOOLEAN

VARIABLES
  writeBuffer,   \* the two write buffers
  activeBuffer,  \* which of them is active
  bufferPos,     \* pointer: the buffer it points into and the offset there
  dict,          \* what the LZ4 stream remembers of the block compressed last
  inLarge,       \* a write larger than a buffer is in its loop over chunks
  remaining,     \* bytes of that write still to be taken
  accepted,      \* history: stream bytes passed to write so far
  stored,        \* history: plaintext bytes in complete frames
  sink,          \* the frames handed to inner
  status

wvars == << writeBuffer, activeBuffer, bufferPos, dict, inLarge, remaining,
            accepted, stored, sink, status >>

Buffers == {0, 1}
Caller == 2          \* the memory of the caller of write
Offsets == 0 .. BUFFER_SIZE - 1

(***************************************************************************)
(* dict describes the memory of the dictionary: its region, the offset     *)
(* where it ends, its length, the stream position of the last byte that    *)
(* was compressed there, and whether that memory still holds those bytes   *)
(* (only the caller's memory can cease to).                                *)
(***************************************************************************)
Dictionary == [region : Buffers \cup {Caller},
               end    : Nat,
               len    : Nat,
               last   : Nat,
               live   : BOOLEAN]

NoDictionary == [region |-> Caller, end |-> 0, len |-> 0, last |-> 0, live |-> TRUE]

FreshBuffers == [b \in Buffers |-> [i \in Offsets |-> 0]]

WInit ==
  /\ writeBuffer = FreshBuffers
  /\ activeBuffer = 0
  /\ bufferPos = [buf |-> 0, off |-> 0]
  /\ dict = NoDictionary
  /\ inLarge = FALSE
  /\ remaining = 0
  /\ accepted = 0
  /\ stored = 0
  /\ sink = << >>
  /\ status = "open"

-----------------------------------------------------------------------------
(* activeBuffer.end() - bufferPos *)
Available == BUFFER_SIZE - bufferPos.off

(* Deliberate error, for BufferHoldsTail: the last byte is not copied. *)
CopyIntoShort(buffer, off, first, n) ==
  [i \in Offsets |-> IF i \in off .. off + n - 2 THEN first + (i - off) ELSE buffer[i]]

(* memcpy of the next n stream bytes, from position first on, to offset off *)
CopyInto(buffer, off, first, n) ==
  [i \in Offsets |-> IF i \in off .. off + n - 1 THEN first + (i - off) ELSE buffer[i]]

(* memcpy(bufferPos, src, available): the active buffer is filled up. *)
Filled ==
  [writeBuffer EXCEPT ![activeBuffer] = CopyInto(@, bufferPos.off, accepted + 1, Available)]

(* Deliberate error, for FramesInOrder: src is not advanced. *)
FirstNotAdvanced == accepted + 1

(* src += available *)
FirstNotTaken == accepted + 1 + Available

(* The first n cells of a buffer, as a sequence. *)
Contents(buffer, n) == [i \in 1 .. n |-> buffer[i - 1]]

(* The cell k places before the end of the dictionary, as the compressor reads it now. *)
DictSees(d, buffers, k) ==
  IF d.region \in Buffers THEN buffers[d.region][d.end - k]
  ELSE IF d.live THEN d.last - k + 1 ELSE 0

(***************************************************************************)
(* LZ4_compress_continue on n cells at the start of region: the part of    *)
(* the dictionary it may refer to.  A source that overlaps the front of    *)
(* the dictionary (a retry from the same buffer) cuts it off.              *)
(***************************************************************************)
UsableHistory(region, n) ==
  IF dict.region = region /\ region \in Buffers /\ n < dict.end
  THEN dict.end - n
  ELSE dict.len

(***************************************************************************)
(* compressAndWrite(src, size) up to the return of inner.write.  The       *)
(* compressed frame refers to the dictionary or not, as the data has it;   *)
(* all its cells are taken, or, when inner fails, a part of them.          *)
(***************************************************************************)
CompressAndWrite(region, plain, buffers, history, fails) ==
  \E clen \in {c \in CompressedSizes : c <= CompressBound(Len(plain))},
     seen \in {0, AtMost(history, Window)} :
  \E landed \in IF fails THEN 0 .. FRAME_HEADER_SIZE + clen - 1
                         ELSE {FRAME_HEADER_SIZE + clen} :
    /\ sink' = Append(sink, [plain  |-> plain,
                             clen   |-> clen,
                             sees   |-> [k \in 1 .. seen |-> DictSees(dict, buffers, k)],
                             landed |-> landed,
                             after  |-> stored])
    /\ stored' = IF fails THEN stored ELSE stored + Len(plain)

(* The dictionary after a block at the start of a write buffer. *)
DictIsBuffer(b, plain) ==
  dict' = [region |-> b, end |-> Len(plain), len |-> Len(plain),
           last |-> plain[Len(plain)], live |-> TRUE]

(* Deliberate error, for ReferencesPrecede: the buffers are not switched. *)
SameBuffer == activeBuffer

(* activeBuffer == writeBuffer[0] ? writeBuffer[1] : writeBuffer[0] *)
OtherBuffer == 1 - activeBuffer

-----------------------------------------------------------------------------
(* Deliberate error, for TypeOK: the size is not compared with what is available. *)
WriteFitsUnchecked(size) ==
  /\ status = "open" /\ ~inLarge
  /\ writeBuffer' = [writeBuffer EXCEPT
       ![activeBuffer] = CopyInto(@, bufferPos.off, accepted + 1, size)]
  /\ bufferPos' = [bufferPos EXCEPT !.off = @ + size]
  /\ accepted' = accepted + size
  /\ UNCHANGED << activeBuffer, dict, inLarge, remaining, stored, sink, status >>

(***************************************************************************)
(* write, when the bytes fit: they are copied behind bufferPos, or the     *)
(* caller has put them there already, where getWriteBuffer pointed         *)
(* (src == bufferPos).  Either way bufferPos advances over them.           *)
(***************************************************************************)
WriteFits(size) ==
  /\ status = "open" /\ ~inLarge
  /\ size <= Available
  /\ writeBuffer' = [writeBuffer EXCEPT
       ![activeBuffer] = CopyInto(@, bufferPos.off, accepted + 1, size)]
  /\ bufferPos' = [bufferPos EXCEPT !.off = @ + size]
  /\ accepted' = accepted + size
  /\ UNCHANGED << activeBuffer, dict, inLarge, remaining, stored, sink, status >>

(***************************************************************************)
(* write, available < size <= activeBuffer.size(): the active buffer is    *)
(* filled and written out, the rest starts the other buffer.  When inner   *)
(* throws, the buffer stays filled but bufferPos and activeBuffer stay.    *)
(***************************************************************************)
WriteSpills(size, fails) ==
  LET plain == Contents(Filled[activeBuffer], BUFFER_SIZE) IN
  /\ status = "open" /\ ~inLarge
  /\ Available < size /\ size <= BUFFER_SIZE
  /\ CompressAndWrite(activeBuffer, plain, Filled,
                      UsableHistory(activeBuffer, BUFFER_SIZE), fails)
  /\ DictIsBuffer(activeBuffer, plain)
  /\ accepted' = accepted + size
  /\ IF fails
     THEN /\ writeBuffer' = Filled
          /\ status' = "failed"
          /\ UNCHANGED << activeBuffer, bufferPos >>
     ELSE /\ writeBuffer' = [Filled EXCEPT
               ![OtherBuffer] = CopyInto(@, 0, FirstNotTaken, size - Available)]
          /\ activeBuffer' = OtherBuffer
          /\ bufferPos' = [buf |-> OtherBuffer, off |-> size - Available]
          /\ UNCHANGED status
  /\ UNCHANGED << inLarge, remaining >>

(***************************************************************************)
(* write, size > activeBuffer.size(), first part: the active buffer is     *)
(* filled and written out.  compressAndWrite switches the active buffer;   *)
(* bufferPos is not touched before the loop over the chunks is done.       *)
(***************************************************************************)
WriteLargeFill(size, fails) ==
  LET plain == Contents(Filled[activeBuffer], BUFFER_SIZE) IN
  /\ status = "open" /\ ~inLarge
  /\ size > BUFFER_SIZE
  /\ CompressAndWrite(activeBuffer, plain, Filled,
                      UsableHistory(activeBuffer, BUFFER_SIZE), fails)
  /\ DictIsBuffer(activeBuffer, plain)
  /\ writeBuffer' = Filled
  /\ accepted' = accepted + size
  /\ IF fails
     THEN /\ status' = "failed"
          /\ UNCHANGED << activeBuffer, inLarge, remaining >>
     ELSE /\ activeBuffer' = OtherBuffer
          /\ inLarge' = TRUE
          /\ remaining' = size - Available
          /\ UNCHANGED status
  /\ UNCHANGED bufferPos

(***************************************************************************)
(* One round of the loop: a chunk is compressed from the caller's memory,  *)
(* where it follows the chunk before it.                                   *)
(***************************************************************************)
WriteLargeChunk(fails) ==
  LET first == accepted - remaining + 1
      plain == [i \in 1 .. BUFFER_SIZE |-> first + i - 1]
      before == IF dict.region = Caller THEN dict.len ELSE 0
  IN
  /\ status = "open" /\ inLarge
  /\ remaining >= BUFFER_SIZE
  /\ CompressAndWrite(Caller, plain, writeBuffer, UsableHistory(Caller, BUFFER_SIZE), fails)
  /\ dict' = [region |-> Caller, end |-> before + BUFFER_SIZE, len |-> before + BUFFER_SIZE,
              last |-> first + BUFFER_SIZE - 1, live |-> TRUE]
  /\ IF fails
     THEN /\ status' = "failed"
          /\ UNCHANGED << activeBuffer, remaining >>
     ELSE /\ activeBuffer' = OtherBuffer
          /\ remaining' = remaining - BUFFER_SIZE
          /\ UNCHANGED status
  /\ UNCHANGED << writeBuffer, bufferPos, inLarge, accepted >>

(* Deliberate error, for DictionaryIntact: the rest goes where bufferPos pointed before. *)
WriteLargeRestStale ==
  /\ status = "open" /\ inLarge
  /\ remaining < BUFFER_SIZE
  /\ writeBuffer' = [writeBuffer EXCEPT
       ![bufferPos.buf] = CopyInto(@, 0, accepted - remaining + 1, remaining)]
  /\ bufferPos' = [bufferPos EXCEPT !.off = remaining]
  /\ inLarge' = FALSE
  /\ remaining' = 0
  /\ UNCHANGED << activeBuffer, dict, accepted, stored, sink, status >>

(* After the loop: bufferPos is set, and what is left goes into the active buffer. *)
WriteLargeRest ==
  /\ status = "open" /\ inLarge
  /\ remaining < BUFFER_SIZE
  /\ writeBuffer' = [writeBuffer EXCEPT
       ![activeBuffer] = CopyInto(@, 0, accepted - remaining + 1, remaining)]
  /\ bufferPos' = [buf |-> activeBuffer, off |-> remaining]
  /\ inLarge' = FALSE
  /\ remaining' = 0
  /\ UNCHANGED << activeBuffer, dict, accepted, stored, sink, status >>

-----------------------------------------------------------------------------
(* flush with something in the buffer (with nothing in it, flush does nothing). *)
Flush(fails) ==
  LET plain == Contents(writeBuffer[activeBuffer], bufferPos.off) IN
  /\ status = "open" /\ ~inLarge
  /\ bufferPos.off > 0
  /\ CompressAndWrite(activeBuffer, plain, writeBuffer,
                      UsableHistory(activeBuffer, bufferPos.off), fails)
  /\ DictIsBuffer(activeBuffer, plain)
  /\ IF fails
     THEN /\ status' = "failed"
          /\ UNCHANGED << activeBuffer, bufferPos >>
     ELSE /\ activeBuffer' = OtherBuffer
          /\ bufferPos' = [buf |-> OtherBuffer, off |-> 0]
          /\ UNCHANGED status
  /\ UNCHANGED << writeBuffer, inLarge, remaining, accepted >>

(***************************************************************************)
(* The destructor, in the normal course or while an exception unwinds the  *)
(* stack: flush, whose own exceptions are swallowed by the unwind detector *)
(* or by ~ProtoWriter.  Then the members are freed.                        *)
(***************************************************************************)
Destroyed == (status = "open" /\ ~inLarge) \/ status = "failed"

Freed ==
  /\ writeBuffer' = FreshBuffers
  /\ activeBuffer' = 0
  /\ bufferPos' = [buf |-> 0, off |-> 0]
  /\ dict' = NoDictionary
  /\ remaining' = 0

DestroyFlush(fails) ==
  LET plain == Contents(writeBuffer[activeBuffer], bufferPos.off) IN
  /\ Destroyed
  /\ bufferPos.buf = activeBuffer
  /\ bufferPos.off > 0
  /\ CompressAndWrite(activeBuffer, plain, writeBuffer,
                      UsableHistory(activeBuffer, bufferPos.off), fails)
  /\ status' = "closed"
  /\ Freed
  /\ UNCHANGED << inLarge, accepted >>

(* Deliberate error, for CloseLosesNothing: the destructor does not flush. *)
DestroyUnflushed ==
  /\ Destroyed
  /\ status' = "closed"
  /\ Freed
  /\ UNCHANGED << inLarge, accepted, stored, sink >>

DestroyEmpty ==
  /\ Destroyed
  /\ bufferPos.buf = activeBuffer => bufferPos.off = 0
  /\ status' = "closed"
  /\ Freed
  /\ UNCHANGED << inLarge, accepted, stored, sink >>

(***************************************************************************)
(* An exception in the loop over chunks can leave bufferPos in the other   *)
(* buffer.  How the two addresses compare is up to the allocator: either   *)
(* nothing is flushed (DestroyEmpty) or everything from the active buffer  *)
(* up to bufferPos is, which goes past the end of the buffer.              *)
(***************************************************************************)
DestroyAcross(fails) ==
  LET plain == Append(Contents(writeBuffer[activeBuffer], BUFFER_SIZE), 0) IN
  /\ Destroyed
  /\ bufferPos.buf # activeBuffer
  /\ CompressAndWrite(activeBuffer, plain, writeBuffer, dict.len, fails)
  /\ status' = "closed"
  /\ Freed
  /\ UNCHANGED << inLarge, accepted >>

(* The caller frees or overwrites the memory of a write that has returned. *)
SourceReused ==
  /\ dict.region = Caller /\ dict.live /\ dict.len > 0
  /\ Destroyed
  /\ dict' = [dict EXCEPT !.live = FALSE]
  /\ UNCHANGED << writeBuffer, activeBuffer, bufferPos, inLarge, remaining,
                  accepted, stored, sink, status >>

(* The process dies; the cells handed to the underlying stream remain.     *)
Crash ==
  /\ status \in {"open", "failed"}
  /\ status' = "crashed"
  /\ Freed
  /\ UNCHANGED << inLarge, accepted, stored, sink >>

Outcomes == IF MayFail THEN BOOLEAN ELSE {FALSE}

WNext ==
  \/ \E size \in 1 .. MAX_WRITE :
       /\ accepted + size <= MAX_BYTES
       /\ \/ WriteFits(size)
          \/ \E fails \in Outcomes : WriteSpills(size, fails)
          \/ \E fails \in Outcomes : WriteLargeFill(size, fails)
  \/ \E fails \in Outcomes : WriteLargeChunk(fails)
  \/ WriteLargeRest
  \/ Len(sink) < MAX_FLUSH /\ \E fails \in Outcomes : Flush(fails)
  \/ \E fails \in Outcomes : DestroyFlush(fails)
  \/ DestroyEmpty
  \/ \E fails \in Outcomes : DestroyAcross(fails)
  \/ SourceReused
  \/ Crash

WSpec == WInit /\ [][WNext]_wvars
-----------------------------------------------------------------------------
(* Types of the stream's state. *)
TypeOK ==
  /\ writeBuffer \in [Buffers -> [Offsets -> Nat]]
  /\ activeBuffer \in Buffers
  /\ bufferPos \in [buf : Buffers, off : 0 .. BUFFER_SIZE]
  /\ dict \in Dictionary
  /\ inLarge \in BOOLEAN
  /\ remaining \in Nat
  /\ accepted \in Nat
  /\ stored \in Nat
  /\ sink \in Seq(Frame)
  /\ status \in {"open", "failed", "closed", "crashed"}

(***************************************************************************)
(* The stream was destroyed after an exception inside the loop over the    *)
(* chunks of a large write, the one case in which the bytes the destructor *)
(* flushes are not those that follow (see FlushedDataFollows below).       *)
(***************************************************************************)
Interrupted == inLarge /\ status = "closed"

(* The bytes of frame f are those that come next in the stream. *)
FollowsOn(f) == \A n \in 1 .. Len(f.plain) : f.plain[n] = f.after + n

(***************************************************************************)
(* The complete frames carry the stream from its first byte on, in order,  *)
(* none lost and none twice, whichever way the writes fell on the buffers  *)
(* and although a failed frame is tried again by the destructor: the       *)
(* copies, the switch of buffers and bufferPos in write, flush and         *)
(* compressAndWrite agree with each other.                                 *)
(***************************************************************************)
FramesInOrder ==
  ~Interrupted => \A i \in 1 .. Len(sink) : Complete(sink[i]) => FollowsOn(sink[i])

(***************************************************************************)
(* The bytes the compressor may refer to are still where it left them:     *)
(* no write between two compressions touches the block compressed last.    *)
(* This is what the two buffers are for.                                   *)
(***************************************************************************)
DictionaryIntact ==
  dict.region \in Buffers =>
    \A k \in 1 .. dict.len : DictSees(dict, writeBuffer, k) = dict.last - k + 1

(***************************************************************************)
(* Bytes accepted and not yet in a frame are the contents of the active    *)
(* buffer up to bufferPos, so that the next flush misses none of them.     *)
(***************************************************************************)
BufferHoldsTail ==
  status \in {"open", "failed"} /\ ~inLarge =>
    /\ bufferPos.buf = activeBuffer
    /\ \A i \in 0 .. bufferPos.off - 1 : writeBuffer[activeBuffer][i] = stored + 1 + i

(***************************************************************************)
(* A stream destroyed without an error of the underlying stream has handed *)
(* over every byte it accepted (flush in ~LZ4OutputStream).                *)
(***************************************************************************)
AllComplete == \A i \in 1 .. Len(sink) : Complete(sink[i])

CloseLosesNothing == status = "closed" /\ AllComplete /\ ~inLarge => stored = accepted

(***************************************************************************)
(* What a frame refers to precedes it in the file: the byte k cells before *)
(* it in the compressor's dictionary is the byte k before its first one in *)
(* the stream, so a reader that keeps what it decoded can resolve it.  (0  *)
(* is memory of a caller that was reused; a frame the underlying stream    *)
(* did not take leaves the dictionary ahead of the file.)                  *)
(***************************************************************************)
RefersBack(f) ==
  \A k \in 1 .. Len(f.sees) : f.sees[k] # 0 => f.sees[k] = f.after + 1 - k

ReferencesPrecede ==
  AllComplete => \A i \in 1 .. Len(sink) : RefersBack(sink[i])

(***************************************************************************)
(* The invariant of the stream, which each action preserves on its own.    *)
(* Every accepted byte is in a frame, in the buffer or still to be taken   *)
(* from the caller; the dictionary is the block before the bytes to come,  *)
(* in the buffer that is not active, or in the caller's memory; an error   *)
(* of inner shows in the sink.  The rest are the properties above.         *)
(***************************************************************************)
Running == status \in {"open", "failed"}

BytesAccounted ==
  status = "open" => accepted = stored + (IF inLarge THEN remaining ELSE bufferPos.off)

DictionaryPlaced ==
  /\ dict.len <= dict.end /\ dict.len <= dict.last
  /\ dict.region \in Buffers => dict.len = dict.end /\ dict.end <= BUFFER_SIZE
  /\ status = "open" => dict.last = stored /\ dict.region # activeBuffer

ErrorsShow == status = "failed" => ~AllComplete

WInv ==
  /\ TypeOK
  /\ BytesAccounted
  /\ BufferHoldsTail
  /\ DictionaryPlaced
  /\ DictionaryIntact
  /\ ErrorsShow
  /\ FramesInOrder
  /\ ReferencesPrecede
  /\ CloseLosesNothing

(***************************************************************************)
(* What LZ4OutputStream.h says of flush: the frame it emits holds the data *)
(* in the buffer, that is, the bytes that follow those already stored.     *)
(* Without the exemption of an interrupted large write this does not hold. *)
(***************************************************************************)
FlushedDataFollows ==
  \A i \in 1 .. Len(sink) : Complete(sink[i]) => FollowsOn(sink[i])

=============================================================================
