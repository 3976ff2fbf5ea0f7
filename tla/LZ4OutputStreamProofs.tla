------------------------ MODULE LZ4OutputStreamProofs ------------------------
(***************************************************************************)
(* Proofs about the output stream: WInv holds in every state, for every    *)
(* buffer size, window, size of frames and sequence of calls, and with it  *)
(* the safety properties of LZ4OutputStream.tla; and about the frames that *)
(* it leaves behind.                                                       *)
(***************************************************************************)
EXTENDS LZ4OutputStream, TLAPS, SequenceTheorems

-----------------------------------------------------------------------------
(* Buffers and what is copied into them.                                   *)

(* The first n cells of a buffer are a sequence of n stream bytes. *)
LEMMA ContentsType ==
  ASSUME NEW buffer \in [Offsets -> Nat], NEW n \in 0 .. BUFFER_SIZE
  PROVE  /\ Contents(buffer, n) \in Seq(Nat)
         /\ Len(Contents(buffer, n)) = n
         /\ \A i \in 1 .. n : Contents(buffer, n)[i] = buffer[i - 1]
  BY FormatAssumption DEF Contents, Offsets

(* What the compressor finds in its dictionary is a stream byte or 0. *)
LEMMA DictSeesType ==
  ASSUME TypeOK, DictionaryPlaced,
         NEW buffers \in [Buffers -> [Offsets -> Nat]],
         NEW k \in 1 .. dict.len
  PROVE  DictSees(dict, buffers, k) \in Nat
<1>1. dict.end \in Nat /\ dict.len \in Nat /\ dict.last \in Nat
  BY DEF TypeOK, Dictionary
<1>2. CASE dict.region \in Buffers
  <2>1. dict.end - k \in Offsets
    BY <1>1, <1>2, FormatAssumption DEF DictionaryPlaced, Offsets
  <2> QED BY <1>2, <2>1 DEF DictSees
<1>3. CASE dict.region = Caller
  BY <1>1, <1>3 DEF DictSees, DictionaryPlaced, Buffers, Caller
<1> QED BY <1>2, <1>3 DEF TypeOK, Dictionary

(* The dictionary the compressor uses is no longer than the one it has. *)
LEMMA UsableHistoryType ==
  ASSUME TypeOK, DictionaryPlaced, NEW region \in Buffers \cup {Caller}, NEW n \in Nat
  PROVE  UsableHistory(region, n) \in 0 .. dict.len
  BY DEF UsableHistory, TypeOK, DictionaryPlaced, Dictionary

-----------------------------------------------------------------------------
(* The frame that a call of compressAndWrite appends. *)
NewFrame(f, plain, buffers, fails) ==
  /\ f \in Frame
  /\ f.plain = plain
  /\ f.after = stored
  /\ f.clen \in CompressedSizes /\ f.landed <= FrameSize(f)
  /\ Complete(f) <=> ~fails
  /\ \A k \in 1 .. Len(f.sees) :
       k \in 1 .. dict.len /\ f.sees[k] = DictSees(dict, buffers, k)
  /\ sink' = Append(sink, f)
  /\ stored' = IF fails THEN stored ELSE stored + Len(plain)

(* compressAndWrite appends one frame, complete unless inner failed. *)
LEMMA CompressAndWriteAppends ==
  ASSUME TypeOK, DictionaryPlaced,
         NEW region, NEW plain \in Seq(Nat), NEW buffers \in [Buffers -> [Offsets -> Nat]],
         NEW history \in 0 .. dict.len, NEW fails \in BOOLEAN,
         CompressAndWrite(region, plain, buffers, history, fails)
  PROVE  \E f : NewFrame(f, plain, buffers, fails)
<1>1. PICK clen \in CompressedSizes, seen \in {0, AtMost(history, Window)} :
        \E landed \in IF fails THEN 0 .. FRAME_HEADER_SIZE + clen - 1
                               ELSE {FRAME_HEADER_SIZE + clen} :
          /\ sink' = Append(sink, [plain  |-> plain,
                                   clen   |-> clen,
                                   sees   |-> [k \in 1 .. seen |-> DictSees(dict, buffers, k)],
                                   landed |-> landed,
                                   after  |-> stored])
          /\ stored' = IF fails THEN stored ELSE stored + Len(plain)
  BY DEF CompressAndWrite
<1>2. PICK landed \in IF fails THEN 0 .. FRAME_HEADER_SIZE + clen - 1
                               ELSE {FRAME_HEADER_SIZE + clen} :
          /\ sink' = Append(sink, [plain  |-> plain,
                                   clen   |-> clen,
                                   sees   |-> [k \in 1 .. seen |-> DictSees(dict, buffers, k)],
                                   landed |-> landed,
                                   after  |-> stored])
          /\ stored' = IF fails THEN stored ELSE stored + Len(plain)
  BY <1>1
<1> DEFINE sees == [k \in 1 .. seen |-> DictSees(dict, buffers, k)]
           f == [plain |-> plain, clen |-> clen, sees |-> sees,
                 landed |-> landed, after |-> stored]
<1>3. clen \in Nat \ {0} /\ landed \in Nat /\ stored \in Nat /\ dict.len \in Nat
  BY FormatAssumption DEF FRAME_HEADER_SIZE, TypeOK, Dictionary
<1>4. seen \in 0 .. dict.len
  BY <1>3, FormatAssumption DEF AtMost
<1>5. sees \in Seq(Nat) /\ Len(sees) = seen
  <2>1. \A k \in 1 .. seen : DictSees(dict, buffers, k) \in Nat
    BY <1>3, <1>4, DictSeesType
  <2> QED BY <1>3, <1>4, <2>1
<1>6. f \in Frame
  BY <1>3, <1>5 DEF Frame
<1>7. /\ f.clen \in CompressedSizes /\ f.landed <= FrameSize(f)
      /\ Complete(f) <=> ~fails
  BY <1>3 DEF Complete, FrameSize, FRAME_HEADER_SIZE
<1>8. \A k \in 1 .. Len(f.sees) :
        k \in 1 .. dict.len /\ f.sees[k] = DictSees(dict, buffers, k)
  BY <1>3, <1>4, <1>5
<1>9. NewFrame(f, plain, buffers, fails)
  BY <1>2, <1>6, <1>7, <1>8 DEF NewFrame
<1> QED BY <1>9

-----------------------------------------------------------------------------
(* What the frame appended by an action does to the sink.                  *)

(* The sink has its type again, and it is complete only if the frame is. *)
LEMMA SinkGrows ==
  ASSUME TypeOK,
         NEW plain \in Seq(Nat), NEW buffers, NEW fails \in BOOLEAN,
         NEW f, NewFrame(f, plain, buffers, fails)
  PROVE  /\ sink' \in Seq(Frame)
         /\ stored' \in Nat
         /\ AllComplete' => AllComplete /\ ~fails
<1>1. sink \in Seq(Frame) /\ stored \in Nat /\ f \in Frame
  BY DEF TypeOK, NewFrame
<1>2. /\ sink' \in Seq(Frame)
      /\ Len(sink') = Len(sink) + 1
      /\ \A i \in 1 .. Len(sink) : sink'[i] = sink[i]
      /\ sink'[Len(sink) + 1] = f
  BY <1>1, AppendProperties DEF NewFrame
<1>3. stored' \in Nat
  BY <1>1 DEF NewFrame
<1>4. AllComplete' => AllComplete /\ ~fails
  <2>1. SUFFICES ASSUME AllComplete' PROVE AllComplete /\ ~fails
    OBVIOUS
  <2>2. Len(sink) \in Nat
    BY <1>1
  <2>3. \A i \in 1 .. Len(sink) : Complete(sink'[i])
    BY <1>2, <2>1, <2>2 DEF AllComplete
  <2>4. Complete(sink'[Len(sink) + 1])
    BY <1>2, <2>1, <2>2 DEF AllComplete
  <2> QED BY <1>2, <2>3, <2>4 DEF AllComplete, NewFrame
<1> QED BY <1>2, <1>3, <1>4

(* A frame of the bytes that come next keeps the frames in order. *)
LEMMA OrderKept ==
  ASSUME TypeOK, FramesInOrder, ~Interrupted,
         NEW plain \in Seq(Nat), NEW buffers, NEW fails \in BOOLEAN,
         NEW f, NewFrame(f, plain, buffers, fails),
         \A n \in 1 .. Len(plain) : plain[n] = stored + n
  PROVE  FramesInOrder'
<1>1. sink \in Seq(Frame) /\ f \in Frame
  BY DEF TypeOK, NewFrame
<1>2. FollowsOn(f)
  BY DEF FollowsOn, NewFrame
<1>3. \A i \in 1 .. Len(sink) : Complete(sink[i]) => FollowsOn(sink[i])
  BY DEF FramesInOrder
<1>4. \A i \in 1 .. Len(sink') : sink'[i] = f \/ (i \in 1 .. Len(sink) /\ sink'[i] = sink[i])
  BY <1>1, AppendProperties DEF NewFrame
<1>5. ASSUME NEW i \in 1 .. Len(sink'), Complete(sink'[i])
      PROVE  FollowsOn(sink'[i])
  BY <1>2, <1>3, <1>4, <1>5
<1> QED BY <1>5 DEF FramesInOrder, Complete, FrameSize, FRAME_HEADER_SIZE, FollowsOn

(* While no call of inner has failed, the new frame refers to bytes before it. *)
LEMMA ReferencesKept ==
  ASSUME WInv, status = "open",
         NEW plain \in Seq(Nat), NEW buffers \in [Buffers -> [Offsets -> Nat]],
         NEW fails \in BOOLEAN,
         NEW f, NewFrame(f, plain, buffers, fails),
         dict.region \in Buffers => buffers[dict.region] = writeBuffer[dict.region]
  PROVE  ReferencesPrecede'
<1>1. sink \in Seq(Frame) /\ f \in Frame /\ stored \in Nat /\ dict \in Dictionary
  BY DEF WInv, TypeOK, NewFrame
<1>2. RefersBack(f)
  <2>1. SUFFICES ASSUME NEW k \in 1 .. Len(f.sees), f.sees[k] # 0
                 PROVE  f.sees[k] = f.after + 1 - k
    BY DEF RefersBack
  <2>2. k \in 1 .. dict.len /\ f.sees[k] = DictSees(dict, buffers, k) /\ f.after = stored
    BY DEF NewFrame
  <2>3. dict.last = stored
    BY DEF WInv, DictionaryPlaced
  <2>4. DictSees(dict, buffers, k) = DictSees(dict, writeBuffer, k)
    BY DEF DictSees
  <2>5. CASE dict.region \in Buffers
    <3>1. DictSees(dict, writeBuffer, k) = dict.last - k + 1
      BY <2>2, <2>5 DEF WInv, DictionaryIntact
    <3> QED BY <1>1, <2>2, <2>3, <2>4, <3>1
  <2>6. CASE dict.region \notin Buffers
    BY <1>1, <2>1, <2>2, <2>3, <2>6 DEF DictSees
  <2> QED BY <2>5, <2>6
<1>3. \A i \in 1 .. Len(sink') : sink'[i] = f \/ (i \in 1 .. Len(sink) /\ sink'[i] = sink[i])
  BY <1>1, AppendProperties DEF NewFrame
<1>4. AllComplete' => AllComplete
  BY SinkGrows DEF WInv
<1>5. ASSUME AllComplete', NEW i \in 1 .. Len(sink')
      PROVE  RefersBack(sink'[i])
  BY <1>2, <1>3, <1>4, <1>5 DEF WInv, ReferencesPrecede
<1> QED BY <1>5 DEF ReferencesPrecede, RefersBack

-----------------------------------------------------------------------------
(* The blocks handed to the compressor, and the dictionary afterwards.     *)

(* memcpy changes the n bytes from off on, and no others. *)
LEMMA CopyIntoIs ==
  ASSUME NEW buffer, NEW off, NEW first, NEW n, NEW full,
         buffer \in [Offsets -> Nat], off \in Nat, first \in Nat, n \in Nat,
         full = CopyInto(buffer, off, first, n)
  PROVE  /\ full \in [Offsets -> Nat]
         /\ \A i \in Offsets :
              full[i] = IF i \in off .. off + n - 1 THEN first + (i - off) ELSE buffer[i]
<1>1. \A i \in Offsets : i \in Nat
  BY DEF Offsets
<1>2. \A i \in Offsets : i \in off .. off + n - 1 => first + (i - off) \in Nat
  BY <1>1
<1> QED BY <1>2 DEF CopyInto

(* While the stream is open a full active buffer is the next block of the stream. *)
LEMMA FilledContents ==
  ASSUME WInv, status = "open", ~inLarge
  PROVE  /\ Filled \in [Buffers -> [Offsets -> Nat]]
         /\ \A i \in Offsets : Filled[activeBuffer][i] = stored + 1 + i
         /\ \A b \in Buffers : b # activeBuffer => Filled[b] = writeBuffer[b]
         /\ Available \in 0 .. BUFFER_SIZE
         /\ FirstNotTaken = stored + BUFFER_SIZE + 1
<1> DEFINE copied == CopyInto(writeBuffer[activeBuffer], bufferPos.off, accepted + 1, Available)
<1>1. /\ writeBuffer \in [Buffers -> [Offsets -> Nat]] /\ activeBuffer \in Buffers
      /\ bufferPos \in [buf : Buffers, off : 0 .. BUFFER_SIZE]
      /\ accepted \in Nat /\ stored \in Nat
  BY DEF WInv, TypeOK
<1>2. accepted = stored + bufferPos.off
  BY DEF WInv, BytesAccounted
<1>3. \A i \in 0 .. bufferPos.off - 1 : writeBuffer[activeBuffer][i] = stored + 1 + i
  BY DEF WInv, BufferHoldsTail
<1>4. Available \in 0 .. BUFFER_SIZE /\ FirstNotTaken = stored + BUFFER_SIZE + 1
  BY <1>1, <1>2, FormatAssumption DEF Available, FirstNotTaken
<1>5. copied \in [Offsets -> Nat] /\ \A i \in Offsets : copied[i] = stored + 1 + i
  <2>1. writeBuffer[activeBuffer] \in [Offsets -> Nat] /\ bufferPos.off \in 0 .. BUFFER_SIZE
    BY <1>1
  <2>2. /\ copied \in [Offsets -> Nat]
        /\ \A i \in Offsets :
             copied[i] = IF i \in bufferPos.off .. bufferPos.off + Available - 1
                         THEN accepted + 1 + (i - bufferPos.off)
                         ELSE writeBuffer[activeBuffer][i]
    <3>1. bufferPos.off \in Nat /\ Available \in Nat /\ accepted + 1 \in Nat
      BY <1>1, <1>4, <2>1, FormatAssumption
    <3>2. PICK buffer, off, first, n :
            /\ buffer = writeBuffer[activeBuffer] /\ off = bufferPos.off
            /\ first = accepted + 1 /\ n = Available
      OBVIOUS
    <3>3. buffer \in [Offsets -> Nat] /\ off \in Nat /\ first \in Nat /\ n \in Nat
      BY <2>1, <3>1, <3>2
    <3>4. copied = CopyInto(buffer, off, first, n)
      BY <3>2
    <3>5. /\ copied \in [Offsets -> Nat]
          /\ \A i \in Offsets :
               copied[i] = IF i \in off .. off + n - 1 THEN first + (i - off) ELSE buffer[i]
      BY ONLY <3>3, <3>4, CopyIntoIs
    <3> QED BY <3>2, <3>5
  <2>3. \A i \in Offsets : i \in 0 .. bufferPos.off - 1
                         \/ i \in bufferPos.off .. bufferPos.off + Available - 1
    BY <2>1, FormatAssumption DEF Offsets, Available
  <2> QED BY <1>1, <1>2, <1>3, <2>1, <2>2, <2>3
<1>6. Filled = [writeBuffer EXCEPT ![activeBuffer] = copied]
  BY DEF Filled
<1> QED BY <1>1, <1>4, <1>5, <1>6

(* The block that a spilling or a large write hands to the compressor. *)
LEMMA FilledBlock ==
  ASSUME WInv, status = "open", ~inLarge
  PROVE  /\ Contents(Filled[activeBuffer], BUFFER_SIZE) \in Seq(Nat)
         /\ Len(Contents(Filled[activeBuffer], BUFFER_SIZE)) = BUFFER_SIZE
         /\ \A n \in 1 .. BUFFER_SIZE :
              Contents(Filled[activeBuffer], BUFFER_SIZE)[n] = stored + n
<1>1. activeBuffer \in Buffers /\ stored \in Nat
  BY DEF WInv, TypeOK
<1>2. Filled[activeBuffer] \in [Offsets -> Nat]
  BY <1>1, FilledContents
<1>3. \A i \in Offsets : Filled[activeBuffer][i] = stored + 1 + i
  BY FilledContents
<1>4. \A n \in 1 .. BUFFER_SIZE : n - 1 \in Offsets
  BY FormatAssumption DEF Offsets
<1>5. BUFFER_SIZE \in 0 .. BUFFER_SIZE
  BY FormatAssumption
<1>6. /\ Contents(Filled[activeBuffer], BUFFER_SIZE) \in Seq(Nat)
      /\ Len(Contents(Filled[activeBuffer], BUFFER_SIZE)) = BUFFER_SIZE
      /\ \A n \in 1 .. BUFFER_SIZE :
           Contents(Filled[activeBuffer], BUFFER_SIZE)[n] = Filled[activeBuffer][n - 1]
  BY <1>2, <1>5, ContentsType
<1> QED BY <1>1, <1>3, <1>4, <1>6, FormatAssumption

(* The bytes that flush hands to the compressor. *)
LEMMA TailBlock ==
  ASSUME WInv, Running, ~inLarge
  PROVE  /\ Contents(writeBuffer[activeBuffer], bufferPos.off) \in Seq(Nat)
         /\ Len(Contents(writeBuffer[activeBuffer], bufferPos.off)) = bufferPos.off
         /\ \A n \in 1 .. bufferPos.off :
              Contents(writeBuffer[activeBuffer], bufferPos.off)[n] = stored + n
<1>1. activeBuffer \in Buffers /\ stored \in Nat /\ bufferPos.off \in 0 .. BUFFER_SIZE
  BY DEF WInv, TypeOK
<1>2. writeBuffer[activeBuffer] \in [Offsets -> Nat]
  BY <1>1 DEF WInv, TypeOK
<1>3. \A i \in 0 .. bufferPos.off - 1 : writeBuffer[activeBuffer][i] = stored + 1 + i
  BY DEF WInv, BufferHoldsTail, Running
<1>4. /\ Contents(writeBuffer[activeBuffer], bufferPos.off) \in Seq(Nat)
      /\ Len(Contents(writeBuffer[activeBuffer], bufferPos.off)) = bufferPos.off
      /\ \A n \in 1 .. bufferPos.off :
           Contents(writeBuffer[activeBuffer], bufferPos.off)[n] = writeBuffer[activeBuffer][n - 1]
  BY <1>1, <1>2, ContentsType
<1>5. \A n \in 1 .. bufferPos.off : n - 1 \in 0 .. bufferPos.off - 1 /\ n \in Nat
  BY <1>1
<1> QED BY <1>1, <1>3, <1>4, <1>5

(* After a block of a write buffer the dictionary is that block, as it lies there. *)
LEMMA DictionaryIsBlock ==
  ASSUME NEW b \in Buffers, NEW plain \in Seq(Nat), DictIsBuffer(b, plain),
         stored \in Nat,
         Len(plain) \in 1 .. BUFFER_SIZE,
         \A n \in 1 .. Len(plain) : plain[n] = stored + n,
         \A i \in 0 .. Len(plain) - 1 : writeBuffer'[b][i] = stored + 1 + i
  PROVE  /\ dict' \in Dictionary
         /\ dict'.region = b /\ dict'.last = stored + Len(plain)
         /\ dict'.len = dict'.end /\ dict'.len <= dict'.last /\ dict'.end <= BUFFER_SIZE
         /\ DictionaryIntact'
<1> DEFINE size == Len(plain)
<1>1. /\ dict'.region = b /\ dict'.end = size /\ dict'.len = size
      /\ dict'.last = plain[size] /\ dict'.live = TRUE
      /\ dict' = [region |-> b, end |-> size, len |-> size, last |-> plain[size], live |-> TRUE]
  BY DEF DictIsBuffer
<1>2. size \in Nat /\ size \in 1 .. size /\ size <= BUFFER_SIZE
  BY FormatAssumption
<1>3. plain[size] = stored + size
  BY <1>2
<1>4. dict' \in Dictionary
  BY <1>1, <1>2, <1>3 DEF Dictionary
<1>5. ASSUME NEW k \in 1 .. size
      PROVE  DictSees(dict', writeBuffer', k) = dict'.last - k + 1
  <2>1. size - k \in 0 .. size - 1
    BY <1>2
  <2>2. writeBuffer'[b][size - k] = stored + 1 + (size - k)
    BY <2>1
  <2>3. DictSees(dict', writeBuffer', k) = writeBuffer'[b][size - k]
    BY <1>1 DEF DictSees
  <2> QED BY <1>1, <1>2, <1>3, <2>2, <2>3
<1>6. DictionaryIntact'
  BY <1>1, <1>5 DEF DictionaryIntact, DictSees
<1> QED BY <1>1, <1>2, <1>3, <1>4, <1>6

-----------------------------------------------------------------------------
(* Every action preserves the invariant. *)

(* A fresh stream satisfies the invariant. *)
LEMMA InitEstablishes == WInit => WInv
<1> SUFFICES ASSUME WInit PROVE WInv
  OBVIOUS
<1> USE DEF WInit
<1>1. TypeOK
  <2>1. writeBuffer \in [Buffers -> [Offsets -> Nat]]
    BY DEF FreshBuffers
  <2>2. dict \in Dictionary
    BY DEF NoDictionary, Dictionary
  <2>3. activeBuffer \in Buffers /\ bufferPos \in [buf : Buffers, off : 0 .. BUFFER_SIZE]
    BY FormatAssumption DEF Buffers
  <2>4. sink \in Seq(Frame)
    BY EmptySeq
  <2>5. inLarge \in BOOLEAN /\ remaining \in Nat /\ accepted \in Nat /\ stored \in Nat
    OBVIOUS
  <2> QED BY <2>1, <2>2, <2>3, <2>4, <2>5 DEF TypeOK
<1>2. BytesAccounted /\ BufferHoldsTail
  BY DEF BytesAccounted, BufferHoldsTail
<1>3. DictionaryPlaced /\ DictionaryIntact
  BY DEF DictionaryPlaced, DictionaryIntact, NoDictionary, Buffers, Caller
<1>4. ErrorsShow /\ CloseLosesNothing
  BY DEF ErrorsShow, CloseLosesNothing
<1>5. FramesInOrder /\ ReferencesPrecede
  BY DEF FramesInOrder, ReferencesPrecede
<1> QED BY <1>1, <1>2, <1>3, <1>4, <1>5 DEF WInv

(* An action that leaves sink and stored alone keeps what is said of the frames. *)
LEMMA FramesUntouched ==
  ASSUME WInv, UNCHANGED << sink, stored >>, ~Interrupted
  PROVE  FramesInOrder' /\ ReferencesPrecede' /\ (AllComplete' <=> AllComplete)
  BY DEF WInv, FramesInOrder, ReferencesPrecede, AllComplete, Complete, FrameSize,
         FRAME_HEADER_SIZE, FollowsOn, RefersBack

(* A write that fits only fills the active buffer. *)
LEMMA WriteFitsPreserves ==
  ASSUME WInv, NEW size \in Nat, WriteFits(size)
  PROVE  WInv'
<1> USE DEF WriteFits
<1> DEFINE copied == CopyInto(writeBuffer[activeBuffer], bufferPos.off, accepted + 1, size)
<1>1. /\ writeBuffer \in [Buffers -> [Offsets -> Nat]] /\ activeBuffer \in Buffers
      /\ bufferPos \in [buf : Buffers, off : 0 .. BUFFER_SIZE]
      /\ accepted \in Nat /\ stored \in Nat
  BY DEF WInv, TypeOK
<1>2. /\ copied \in [Offsets -> Nat]
      /\ \A i \in Offsets :
           copied[i] = IF i \in bufferPos.off .. bufferPos.off + size - 1
                       THEN accepted + 1 + (i - bufferPos.off) ELSE writeBuffer[activeBuffer][i]
  <2>1. /\ writeBuffer[activeBuffer] \in [Offsets -> Nat]
        /\ bufferPos.off \in 0 .. BUFFER_SIZE /\ accepted + 1 \in Nat
    BY <1>1
  <2>2. PICK buffer, off, first, n, full :
          /\ buffer = writeBuffer[activeBuffer] /\ off = bufferPos.off
          /\ first = accepted + 1 /\ n = size /\ full = copied
    OBVIOUS
  <2>3. buffer \in [Offsets -> Nat] /\ off \in Nat /\ first \in Nat /\ n \in Nat
    BY <2>1, <2>2
  <2>4. full = CopyInto(buffer, off, first, n)
    BY <2>2
  <2>5. /\ full \in [Offsets -> Nat]
        /\ \A i \in Offsets :
             full[i] = IF i \in off .. off + n - 1 THEN first + (i - off) ELSE buffer[i]
    BY ONLY <2>3, <2>4, CopyIntoIs
  <2> QED BY <2>2, <2>5
<1>3. accepted = stored + bufferPos.off /\ bufferPos.buf = activeBuffer
  BY DEF WInv, BytesAccounted, BufferHoldsTail
<1>4. writeBuffer' = [writeBuffer EXCEPT ![activeBuffer] = copied]
  OBVIOUS
<1>5. TypeOK'
  <2>1. bufferPos' \in [buf : Buffers, off : 0 .. BUFFER_SIZE]
    BY <1>1, FormatAssumption DEF Available
  <2>2. writeBuffer' \in [Buffers -> [Offsets -> Nat]]
    BY <1>1, <1>2, <1>4
  <2> QED BY <1>1, <2>1, <2>2 DEF WInv, TypeOK
<1>6. BytesAccounted'
  BY <1>1, <1>3 DEF BytesAccounted
<1>7. BufferHoldsTail'
  <2>1. bufferPos'.buf = activeBuffer' /\ bufferPos'.off = bufferPos.off + size
    BY <1>1, <1>3
  <2>2. \A i \in 0 .. bufferPos.off + size - 1 : i \in Offsets
    <3>1. PICK off : off = bufferPos.off
      OBVIOUS
    <3>2. off \in Nat /\ off + size <= BUFFER_SIZE /\ BUFFER_SIZE \in Nat
      BY <1>1, <3>1, FormatAssumption DEF Available
    <3>3. \A i \in 0 .. off + size - 1 : i \in 0 .. BUFFER_SIZE - 1
      BY ONLY <3>2, size \in Nat
    <3> QED BY <3>1, <3>3 DEF Offsets
  <2>3. \A i \in 0 .. bufferPos.off - 1 : writeBuffer[activeBuffer][i] = stored + 1 + i
    BY DEF WInv, BufferHoldsTail
  <2>4. \A i \in 0 .. bufferPos.off + size - 1 : copied[i] = stored + 1 + i
    BY <1>1, <1>2, <1>3, <2>2, <2>3
  <2> QED BY <1>1, <1>4, <2>1, <2>4 DEF BufferHoldsTail
<1>8. DictionaryPlaced'
  BY DEF WInv, DictionaryPlaced
<1>9. DictionaryIntact'
  BY <1>1, <1>4 DEF WInv, DictionaryIntact, DictionaryPlaced, DictSees
<1>10. ErrorsShow' /\ CloseLosesNothing'
  BY DEF ErrorsShow, CloseLosesNothing
<1>11. FramesInOrder' /\ ReferencesPrecede'
  BY FramesUntouched DEF Interrupted
<1> QED BY <1>5, <1>6, <1>7, <1>8, <1>9, <1>10, <1>11 DEF WInv

(* A write that spills frames the full buffer and goes on in the other one. *)
LEMMA WriteSpillsPreserves ==
  ASSUME WInv, NEW size \in Nat, NEW fails \in BOOLEAN, WriteSpills(size, fails)
  PROVE  WInv'
<1> DEFINE plain == Contents(Filled[activeBuffer], BUFFER_SIZE)
           rest == CopyInto(Filled[OtherBuffer], 0, FirstNotTaken, size - Available)
<1>1. /\ status = "open" /\ ~inLarge
      /\ Available < size /\ size <= BUFFER_SIZE
      /\ CompressAndWrite(activeBuffer, plain, Filled,
                          UsableHistory(activeBuffer, BUFFER_SIZE), fails)
      /\ DictIsBuffer(activeBuffer, plain)
      /\ accepted' = accepted + size
      /\ UNCHANGED << inLarge, remaining >>
  BY DEF WriteSpills
<1>2. /\ activeBuffer \in Buffers /\ OtherBuffer \in Buffers /\ OtherBuffer # activeBuffer
      /\ bufferPos \in [buf : Buffers, off : 0 .. BUFFER_SIZE]
      /\ accepted \in Nat /\ stored \in Nat /\ remaining \in Nat
      /\ BUFFER_SIZE \in Nat /\ BUFFER_SIZE >= 1
      /\ accepted = stored + bufferPos.off
  BY <1>1, FormatAssumption DEF WInv, TypeOK, OtherBuffer, Buffers, BytesAccounted
<1>3. /\ Filled \in [Buffers -> [Offsets -> Nat]]
      /\ \A i \in Offsets : Filled[activeBuffer][i] = stored + 1 + i
      /\ \A b \in Buffers : b # activeBuffer => Filled[b] = writeBuffer[b]
      /\ Available \in 0 .. BUFFER_SIZE /\ Available = BUFFER_SIZE - bufferPos.off
      /\ FirstNotTaken = stored + BUFFER_SIZE + 1
  BY <1>1, FilledContents DEF Available
<1>4. /\ plain \in Seq(Nat) /\ Len(plain) = BUFFER_SIZE
      /\ \A n \in 1 .. BUFFER_SIZE : plain[n] = stored + n
  BY <1>1, FilledBlock
<1>5. PICK f : NewFrame(f, plain, Filled, fails)
  <2>1. UsableHistory(activeBuffer, BUFFER_SIZE) \in 0 .. dict.len
    BY <1>2, UsableHistoryType DEF WInv
  <2> QED BY <1>1, <1>3, <1>4, <2>1, CompressAndWriteAppends DEF WInv
<1>6. sink' \in Seq(Frame) /\ stored' \in Nat /\ (AllComplete' => AllComplete /\ ~fails)
  BY <1>4, <1>5, SinkGrows DEF WInv
<1>7. FramesInOrder'
  BY <1>1, <1>4, <1>5, OrderKept DEF WInv, Interrupted
<1>8. ReferencesPrecede'
  <2>1. dict.region \in Buffers => Filled[dict.region] = writeBuffer[dict.region]
    BY <1>1, <1>3 DEF WInv, DictionaryPlaced
  <2> QED BY <1>1, <1>3, <1>4, <1>5, <2>1, ReferencesKept
<1>9. \A i \in 0 .. BUFFER_SIZE - 1 : i \in Offsets
  BY DEF Offsets
<1>10. CASE fails
  <2>1. /\ writeBuffer' = Filled /\ status' = "failed"
        /\ UNCHANGED << activeBuffer, bufferPos >> /\ stored' = stored
    BY <1>5, <1>10 DEF WriteSpills, NewFrame
  <2>2. /\ dict' \in Dictionary /\ dict'.len = dict'.end /\ dict'.len <= dict'.last
        /\ dict'.end <= BUFFER_SIZE /\ DictionaryIntact'
    <3>1. /\ Len(plain) \in 1 .. BUFFER_SIZE
          /\ \A n \in 1 .. Len(plain) : plain[n] = stored + n
          /\ \A i \in 0 .. Len(plain) - 1 : writeBuffer'[activeBuffer][i] = stored + 1 + i
      BY <1>2, <1>3, <1>4, <1>9, <2>1
    <3> HIDE DEF plain
    <3> QED BY <1>1, <1>2, <1>4, <3>1, DictionaryIsBlock
  <2>3. TypeOK'
    BY <1>1, <1>2, <1>3, <1>6, <2>1, <2>2 DEF WInv, TypeOK
  <2>4. BytesAccounted' /\ CloseLosesNothing'
    BY <2>1 DEF BytesAccounted, CloseLosesNothing
  <2>5. BufferHoldsTail'
    BY <1>1, <1>2, <1>3, <1>9, <2>1 DEF WInv, BufferHoldsTail
  <2>6. DictionaryPlaced'
    BY <2>1, <2>2 DEF DictionaryPlaced, Dictionary
  <2>7. ErrorsShow'
    BY <1>6, <1>10 DEF ErrorsShow
  <2> QED BY <1>7, <1>8, <2>2, <2>3, <2>4, <2>5, <2>6, <2>7 DEF WInv
<1>11. CASE ~fails
  <2>1. /\ writeBuffer' = [Filled EXCEPT ![OtherBuffer] = rest]
        /\ activeBuffer' = OtherBuffer
        /\ bufferPos' = [buf |-> OtherBuffer, off |-> size - Available]
        /\ status' = "open" /\ stored' = stored + BUFFER_SIZE
    BY <1>1, <1>4, <1>5, <1>11 DEF WriteSpills, NewFrame
  <2>2. size - Available \in 0 .. BUFFER_SIZE
    BY <1>1, <1>2, <1>3
  <2>3. /\ rest \in [Offsets -> Nat]
        /\ \A i \in 0 .. size - Available - 1 : rest[i] = stored + BUFFER_SIZE + 1 + i
    <3>1. Filled[OtherBuffer] \in [Offsets -> Nat]
      BY <1>2, <1>3
    <3>2. \A i \in 0 .. size - Available - 1 : i \in Offsets
      BY <1>2, <2>2 DEF Offsets
    <3>3. FirstNotTaken \in Nat
      BY <1>2, <1>3
    <3>4. rest \in [Offsets -> Nat]
      BY <2>2, <3>1, <3>3, <1>2 DEF CopyInto, Offsets
    <3>5. \A i \in 0 .. size - Available - 1 : rest[i] = FirstNotTaken + (i - 0)
      BY <2>2, <3>2 DEF CopyInto
    <3> QED BY <1>2, <1>3, <3>4, <3>5
  <2>4. writeBuffer'[activeBuffer] = Filled[activeBuffer] /\ writeBuffer'[OtherBuffer] = rest
    BY <1>2, <1>3, <2>1
  <2>5. /\ dict' \in Dictionary /\ dict'.region = activeBuffer
        /\ dict'.last = stored + BUFFER_SIZE
        /\ dict'.len = dict'.end /\ dict'.len <= dict'.last
        /\ dict'.end <= BUFFER_SIZE /\ DictionaryIntact'
    <3> HIDE DEF plain
    <3>1. Len(plain) \in 1 .. BUFFER_SIZE /\ \A n \in 1 .. Len(plain) : plain[n] = stored + n
      BY <1>2, <1>4
    <3>2. \A i \in 0 .. BUFFER_SIZE - 1 : Filled[activeBuffer][i] = stored + 1 + i
      BY <1>3, <1>9
    <3>3. \A i \in 0 .. Len(plain) - 1 : writeBuffer'[activeBuffer][i] = stored + 1 + i
      BY <1>4, <2>4, <3>2
    <3> QED BY <1>1, <1>2, <1>4, <3>1, <3>3, DictionaryIsBlock
  <2>6. TypeOK'
    <3>1. writeBuffer' \in [Buffers -> [Offsets -> Nat]]
      BY <1>2, <1>3, <2>1, <2>3
    <3>2. bufferPos' \in [buf : Buffers, off : 0 .. BUFFER_SIZE]
      BY <1>2, <2>1, <2>2
    <3> QED BY <1>1, <1>2, <1>6, <2>1, <2>5, <3>1, <3>2 DEF WInv, TypeOK
  <2>7. BytesAccounted' /\ CloseLosesNothing'
    BY <1>1, <1>2, <1>3, <2>1 DEF BytesAccounted, CloseLosesNothing
  <2>8. BufferHoldsTail'
    BY <1>2, <2>1, <2>3, <2>4 DEF BufferHoldsTail
  <2>9. DictionaryPlaced' /\ ErrorsShow'
    BY <1>2, <2>1, <2>5 DEF DictionaryPlaced, Dictionary, ErrorsShow
  <2> QED BY <1>7, <1>8, <2>5, <2>6, <2>7, <2>8, <2>9 DEF WInv
<1> QED BY <1>10, <1>11

(* A large write frames the buffer it has filled, *)
LEMMA WriteLargeFillPreserves ==
  ASSUME WInv, NEW size \in Nat, NEW fails \in BOOLEAN, WriteLargeFill(size, fails)
  PROVE  WInv'
<1> DEFINE plain == Contents(Filled[activeBuffer], BUFFER_SIZE)
<1>1. /\ status = "open" /\ ~inLarge
      /\ size > BUFFER_SIZE
      /\ CompressAndWrite(activeBuffer, plain, Filled,
                          UsableHistory(activeBuffer, BUFFER_SIZE), fails)
      /\ DictIsBuffer(activeBuffer, plain)
      /\ writeBuffer' = Filled
      /\ accepted' = accepted + size
      /\ UNCHANGED bufferPos
  BY DEF WriteLargeFill
<1>2. /\ activeBuffer \in Buffers /\ OtherBuffer \in Buffers /\ OtherBuffer # activeBuffer
      /\ bufferPos \in [buf : Buffers, off : 0 .. BUFFER_SIZE]
      /\ accepted \in Nat /\ stored \in Nat /\ remaining \in Nat
      /\ BUFFER_SIZE \in Nat /\ BUFFER_SIZE >= 1
      /\ accepted = stored + bufferPos.off
  BY <1>1, FormatAssumption DEF WInv, TypeOK, OtherBuffer, Buffers, BytesAccounted
<1>3. /\ Filled \in [Buffers -> [Offsets -> Nat]]
      /\ \A i \in Offsets : Filled[activeBuffer][i] = stored + 1 + i
      /\ \A b \in Buffers : b # activeBuffer => Filled[b] = writeBuffer[b]
      /\ Available \in 0 .. BUFFER_SIZE /\ Available = BUFFER_SIZE - bufferPos.off
  BY <1>1, FilledContents DEF Available
<1>4. /\ plain \in Seq(Nat) /\ Len(plain) = BUFFER_SIZE
      /\ \A n \in 1 .. BUFFER_SIZE : plain[n] = stored + n
  BY <1>1, FilledBlock
<1>5. PICK f : NewFrame(f, plain, Filled, fails)
  <2>1. UsableHistory(activeBuffer, BUFFER_SIZE) \in 0 .. dict.len
    BY <1>2, UsableHistoryType DEF WInv
  <2> QED BY <1>1, <1>3, <1>4, <2>1, CompressAndWriteAppends DEF WInv
<1>6. sink' \in Seq(Frame) /\ stored' \in Nat /\ (AllComplete' => AllComplete /\ ~fails)
  BY <1>4, <1>5, SinkGrows DEF WInv
<1>7. FramesInOrder'
  BY <1>1, <1>4, <1>5, OrderKept DEF WInv, Interrupted
<1>8. ReferencesPrecede'
  <2>1. dict.region \in Buffers => Filled[dict.region] = writeBuffer[dict.region]
    BY <1>1, <1>3 DEF WInv, DictionaryPlaced
  <2> QED BY <1>1, <1>3, <1>4, <1>5, <2>1, ReferencesKept
<1>9. \A i \in 0 .. BUFFER_SIZE - 1 : i \in Offsets
  BY DEF Offsets
<1>10. /\ dict' \in Dictionary /\ dict'.region = activeBuffer
       /\ dict'.last = stored + BUFFER_SIZE
       /\ dict'.len = dict'.end /\ dict'.len <= dict'.last
       /\ dict'.end <= BUFFER_SIZE /\ DictionaryIntact'
  <2> HIDE DEF plain
  <2>1. Len(plain) \in 1 .. BUFFER_SIZE /\ \A n \in 1 .. Len(plain) : plain[n] = stored + n
    BY <1>2, <1>4
  <2>2. \A i \in 0 .. Len(plain) - 1 : writeBuffer'[activeBuffer][i] = stored + 1 + i
    BY <1>1, <1>3, <1>4, <1>9
  <2> QED BY <1>1, <1>2, <1>4, <2>1, <2>2, DictionaryIsBlock
<1>11. CASE fails
  <2>1. /\ status' = "failed" /\ stored' = stored
        /\ UNCHANGED << activeBuffer, inLarge, remaining >>
    BY <1>5, <1>11 DEF WriteLargeFill, NewFrame
  <2>2. TypeOK'
    <3>1. writeBuffer' \in [Buffers -> [Offsets -> Nat]] /\ UNCHANGED bufferPos
      BY <1>1, <1>3
    <3>2. accepted' \in Nat
      <4>1. accepted \in Nat
        BY <1>2
      <4>2. accepted' = accepted + size
        BY DEF WriteLargeFill
      <4> QED BY ONLY <4>1, <4>2, size \in Nat
    <3> QED BY <1>1, <1>6, <1>10, <2>1, <3>1, <3>2 DEF WInv, TypeOK
  <2>3. BytesAccounted' /\ CloseLosesNothing'
    BY <2>1 DEF BytesAccounted, CloseLosesNothing
  <2>4. BufferHoldsTail'
    <3>1. bufferPos'.buf = activeBuffer' /\ bufferPos'.off = bufferPos.off
      BY <1>1, <2>1 DEF WInv, BufferHoldsTail
    <3>2. \A i \in 0 .. bufferPos.off - 1 : i \in Offsets
      BY <1>2, <1>9
    <3>3. \A i \in 0 .. bufferPos.off - 1 : writeBuffer'[activeBuffer'][i] = stored' + 1 + i
      BY <1>1, <1>3, <2>1, <3>2
    <3> QED BY <3>1, <3>3 DEF BufferHoldsTail
  <2>5. DictionaryPlaced' /\ ErrorsShow'
    BY <1>6, <1>10, <1>11, <2>1 DEF DictionaryPlaced, Dictionary, ErrorsShow
  <2> QED BY <1>7, <1>8, <1>10, <2>2, <2>3, <2>4, <2>5 DEF WInv
<1>12. CASE ~fails
  <2>1. /\ status' = "open" /\ stored' = stored + BUFFER_SIZE
        /\ activeBuffer' = OtherBuffer
        /\ inLarge' = TRUE /\ remaining' = size - Available
    BY <1>1, <1>4, <1>5, <1>12 DEF WriteLargeFill, NewFrame
  <2>2. TypeOK'
    <3>1. remaining' \in Nat /\ inLarge' \in BOOLEAN /\ accepted' \in Nat
      BY <1>1, <1>2, <1>3, <2>1
    <3> QED BY <1>1, <1>2, <1>3, <1>6, <1>10, <2>1, <3>1 DEF WInv, TypeOK
  <2>3. BytesAccounted' /\ CloseLosesNothing'
    BY <1>1, <1>2, <1>3, <2>1 DEF BytesAccounted, CloseLosesNothing
  <2>4. BufferHoldsTail'
    BY <2>1 DEF BufferHoldsTail
  <2>5. DictionaryPlaced' /\ ErrorsShow'
    BY <1>2, <1>10, <2>1 DEF DictionaryPlaced, Dictionary, ErrorsShow
  <2> QED BY <1>7, <1>8, <1>10, <2>2, <2>3, <2>4, <2>5 DEF WInv
<1> QED BY <1>11, <1>12

(* then chunks of its own memory, which become the dictionary, *)
LEMMA WriteLargeChunkPreserves ==
  ASSUME WInv, NEW fails \in BOOLEAN, WriteLargeChunk(fails)
  PROVE  WInv'
<1> DEFINE first == accepted - remaining + 1
           plain == [i \in 1 .. BUFFER_SIZE |-> first + i - 1]
           before == IF dict.region = Caller THEN dict.len ELSE 0
<1>1. /\ status = "open" /\ inLarge
      /\ remaining >= BUFFER_SIZE
      /\ CompressAndWrite(Caller, plain, writeBuffer, UsableHistory(Caller, BUFFER_SIZE), fails)
      /\ dict' = [region |-> Caller, end |-> before + BUFFER_SIZE, len |-> before + BUFFER_SIZE,
                  last |-> first + BUFFER_SIZE - 1, live |-> TRUE]
      /\ UNCHANGED << writeBuffer, bufferPos, inLarge, accepted >>
  BY DEF WriteLargeChunk
<1>2. /\ activeBuffer \in Buffers /\ OtherBuffer \in Buffers
      /\ writeBuffer \in [Buffers -> [Offsets -> Nat]]
      /\ accepted \in Nat /\ stored \in Nat /\ remaining \in Nat
      /\ BUFFER_SIZE \in Nat /\ BUFFER_SIZE >= 1
      /\ accepted = stored + remaining
      /\ dict.len \in Nat /\ dict.last \in Nat /\ dict.last = stored /\ dict.len <= dict.last
  BY <1>1, FormatAssumption
  DEF WInv, TypeOK, OtherBuffer, Buffers, BytesAccounted, Dictionary, DictionaryPlaced
<1>3. first = stored + 1 /\ before \in 0 .. stored
  BY <1>2
<1>4. /\ plain \in Seq(Nat) /\ Len(plain) = BUFFER_SIZE
      /\ \A n \in 1 .. BUFFER_SIZE : plain[n] = stored + n
  BY <1>2, <1>3
<1>5. PICK f : NewFrame(f, plain, writeBuffer, fails)
  <2>1. UsableHistory(Caller, BUFFER_SIZE) \in 0 .. dict.len
    BY <1>2, UsableHistoryType DEF WInv
  <2> QED BY <1>1, <1>2, <1>4, <2>1, CompressAndWriteAppends DEF WInv
<1>6. sink' \in Seq(Frame) /\ stored' \in Nat /\ (AllComplete' => AllComplete /\ ~fails)
  BY <1>4, <1>5, SinkGrows DEF WInv
<1>7. FramesInOrder'
  BY <1>1, <1>4, <1>5, OrderKept DEF WInv, Interrupted
<1>8. ReferencesPrecede'
  BY <1>1, <1>2, <1>4, <1>5, ReferencesKept
<1>9. /\ dict' \in Dictionary /\ dict'.region = Caller /\ dict'.region \notin Buffers
      /\ dict'.last = stored + BUFFER_SIZE
      /\ dict'.len = dict'.end /\ dict'.len <= dict'.last
  BY <1>1, <1>2, <1>3 DEF Dictionary, Caller, Buffers
<1>10. DictionaryIntact'
  BY <1>9 DEF DictionaryIntact
<1>11. CASE fails
  <2>1. /\ status' = "failed" /\ stored' = stored
        /\ UNCHANGED << activeBuffer, remaining >>
    BY <1>5, <1>11 DEF WriteLargeChunk, NewFrame
  <2>2. TypeOK'
    BY <1>1, <1>2, <1>6, <1>9, <2>1 DEF WInv, TypeOK
  <2>3. BytesAccounted' /\ CloseLosesNothing' /\ BufferHoldsTail'
    BY <1>1, <2>1 DEF BytesAccounted, CloseLosesNothing, BufferHoldsTail
  <2>4. DictionaryPlaced' /\ ErrorsShow'
    BY <1>6, <1>9, <1>11, <2>1 DEF DictionaryPlaced, Dictionary, ErrorsShow
  <2> QED BY <1>7, <1>8, <1>10, <2>2, <2>3, <2>4 DEF WInv
<1>12. CASE ~fails
  <2>1. /\ status' = "open" /\ stored' = stored + BUFFER_SIZE
        /\ activeBuffer' = OtherBuffer /\ remaining' = remaining - BUFFER_SIZE
    BY <1>1, <1>4, <1>5, <1>12 DEF WriteLargeChunk, NewFrame
  <2>2. TypeOK'
    BY <1>1, <1>2, <1>6, <1>9, <2>1 DEF WInv, TypeOK
  <2>3. BytesAccounted' /\ CloseLosesNothing' /\ BufferHoldsTail'
    BY <1>1, <1>2, <2>1 DEF BytesAccounted, CloseLosesNothing, BufferHoldsTail
  <2>4. DictionaryPlaced' /\ ErrorsShow'
    BY <1>2, <1>9, <2>1 DEF DictionaryPlaced, Dictionary, ErrorsShow
  <2> QED BY <1>7, <1>8, <1>10, <2>2, <2>3, <2>4 DEF WInv
<1> QED BY <1>11, <1>12

(* and leaves the rest in the active buffer. *)
LEMMA WriteLargeRestPreserves ==
  ASSUME WInv, WriteLargeRest
  PROVE  WInv'
<1> DEFINE rest == CopyInto(writeBuffer[activeBuffer], 0, accepted - remaining + 1, remaining)
<1>1. /\ status = "open" /\ inLarge
      /\ remaining < BUFFER_SIZE
      /\ writeBuffer' = [writeBuffer EXCEPT ![activeBuffer] = rest]
      /\ bufferPos' = [buf |-> activeBuffer, off |-> remaining]
      /\ inLarge' = FALSE
      /\ remaining' = 0
      /\ UNCHANGED << activeBuffer, dict, accepted, stored, sink, status >>
  BY DEF WriteLargeRest
<1>2. /\ activeBuffer \in Buffers
      /\ writeBuffer \in [Buffers -> [Offsets -> Nat]]
      /\ writeBuffer[activeBuffer] \in [Offsets -> Nat]
      /\ accepted \in Nat /\ stored \in Nat /\ remaining \in Nat
      /\ BUFFER_SIZE \in Nat
      /\ accepted - remaining = stored
  BY <1>1, FormatAssumption DEF WInv, TypeOK, BytesAccounted
<1>3. rest \in [Offsets -> Nat] /\ \A i \in 0 .. remaining - 1 : rest[i] = stored + 1 + i
  BY <1>1, <1>2 DEF CopyInto, Offsets
<1>4. TypeOK'
  <2>1. writeBuffer' \in [Buffers -> [Offsets -> Nat]]
    BY <1>1, <1>2, <1>3
  <2>2. bufferPos' \in [buf : Buffers, off : 0 .. BUFFER_SIZE]
    BY <1>1, <1>2
  <2> QED BY <1>1, <2>1, <2>2 DEF WInv, TypeOK
<1>5. BytesAccounted'
  BY <1>1, <1>2 DEF BytesAccounted
<1>6. BufferHoldsTail'
  BY <1>1, <1>2, <1>3 DEF BufferHoldsTail
<1>7. DictionaryPlaced'
  BY <1>1 DEF WInv, DictionaryPlaced
<1>8. DictionaryIntact'
  BY <1>1, <1>2 DEF WInv, DictionaryIntact, DictionaryPlaced, DictSees
<1>9. ErrorsShow' /\ CloseLosesNothing'
  BY <1>1 DEF ErrorsShow, CloseLosesNothing
<1>10. FramesInOrder' /\ ReferencesPrecede'
  BY <1>1, FramesUntouched DEF Interrupted
<1> QED BY <1>4, <1>5, <1>6, <1>7, <1>8, <1>9, <1>10 DEF WInv

(* flush frames what there is and starts the other buffer. *)
LEMMA FlushPreserves ==
  ASSUME WInv, NEW fails \in BOOLEAN, Flush(fails)
  PROVE  WInv'
<1> DEFINE plain == Contents(writeBuffer[activeBuffer], bufferPos.off)
           size == bufferPos.off
<1>1. /\ status = "open" /\ ~inLarge
      /\ size > 0
      /\ CompressAndWrite(activeBuffer, plain, writeBuffer,
                          UsableHistory(activeBuffer, size), fails)
      /\ DictIsBuffer(activeBuffer, plain)
      /\ UNCHANGED << writeBuffer, inLarge, remaining, accepted >>
  BY DEF Flush
<1>2. /\ activeBuffer \in Buffers /\ OtherBuffer \in Buffers /\ OtherBuffer # activeBuffer
      /\ writeBuffer \in [Buffers -> [Offsets -> Nat]]
      /\ bufferPos \in [buf : Buffers, off : 0 .. BUFFER_SIZE]
      /\ accepted \in Nat /\ stored \in Nat /\ remaining \in Nat
      /\ BUFFER_SIZE \in Nat
      /\ size \in 1 .. BUFFER_SIZE
      /\ accepted = stored + size
  BY <1>1, FormatAssumption DEF WInv, TypeOK, OtherBuffer, Buffers, BytesAccounted
<1>3. \A i \in 0 .. size - 1 : writeBuffer[activeBuffer][i] = stored + 1 + i
  BY <1>1 DEF WInv, BufferHoldsTail
<1>4. /\ plain \in Seq(Nat) /\ Len(plain) = size
      /\ \A n \in 1 .. size : plain[n] = stored + n
  BY <1>1, TailBlock DEF Running
<1>5. PICK f : NewFrame(f, plain, writeBuffer, fails)
  <2>1. UsableHistory(activeBuffer, size) \in 0 .. dict.len
    BY <1>2, UsableHistoryType DEF WInv
  <2> QED BY <1>1, <1>2, <1>4, <2>1, CompressAndWriteAppends DEF WInv
<1>6. sink' \in Seq(Frame) /\ stored' \in Nat /\ (AllComplete' => AllComplete /\ ~fails)
  BY <1>4, <1>5, SinkGrows DEF WInv
<1>7. FramesInOrder'
  BY <1>1, <1>4, <1>5, OrderKept DEF WInv, Interrupted
<1>8. ReferencesPrecede'
  BY <1>1, <1>2, <1>4, <1>5, ReferencesKept
<1>9. /\ dict' \in Dictionary /\ dict'.region = activeBuffer
      /\ dict'.last = stored + size
      /\ dict'.len = dict'.end /\ dict'.len <= dict'.last
      /\ dict'.end <= BUFFER_SIZE /\ DictionaryIntact'
  <2> HIDE DEF plain
  <2>1. Len(plain) \in 1 .. BUFFER_SIZE /\ \A n \in 1 .. Len(plain) : plain[n] = stored + n
    BY <1>2, <1>4
  <2>2. \A i \in 0 .. Len(plain) - 1 : writeBuffer'[activeBuffer][i] = stored + 1 + i
    BY <1>1, <1>3, <1>4
  <2> QED BY <1>1, <1>2, <1>4, <2>1, <2>2, DictionaryIsBlock
<1>10. CASE fails
  <2>1. /\ status' = "failed" /\ stored' = stored
        /\ UNCHANGED << activeBuffer, bufferPos >>
    BY <1>5, <1>10 DEF Flush, NewFrame
  <2>2. TypeOK'
    BY <1>1, <1>2, <1>6, <1>9, <2>1 DEF WInv, TypeOK
  <2>3. BytesAccounted' /\ CloseLosesNothing'
    BY <2>1 DEF BytesAccounted, CloseLosesNothing
  <2>4. BufferHoldsTail'
    BY <1>1, <1>3, <2>1 DEF WInv, BufferHoldsTail
  <2>5. DictionaryPlaced' /\ ErrorsShow'
    BY <1>6, <1>9, <1>10, <2>1 DEF DictionaryPlaced, Dictionary, ErrorsShow
  <2> QED BY <1>7, <1>8, <1>9, <2>2, <2>3, <2>4, <2>5 DEF WInv
<1>11. CASE ~fails
  <2>1. /\ status' = "open" /\ stored' = stored + size
        /\ activeBuffer' = OtherBuffer
        /\ bufferPos' = [buf |-> OtherBuffer, off |-> 0]
    BY <1>1, <1>4, <1>5, <1>11 DEF Flush, NewFrame
  <2>2. TypeOK'
    BY <1>1, <1>2, <1>6, <1>9, <2>1 DEF WInv, TypeOK
  <2>3. BytesAccounted' /\ CloseLosesNothing'
    BY <1>1, <1>2, <2>1 DEF BytesAccounted, CloseLosesNothing
  <2>4. BufferHoldsTail'
    BY <2>1 DEF BufferHoldsTail
  <2>5. DictionaryPlaced' /\ ErrorsShow'
    BY <1>2, <1>9, <2>1 DEF DictionaryPlaced, Dictionary, ErrorsShow
  <2> QED BY <1>7, <1>8, <1>9, <2>2, <2>3, <2>4, <2>5 DEF WInv
<1> QED BY <1>10, <1>11

(* Freed members satisfy every part of the invariant that speaks of them. *)
LEMMA FreedPreserves ==
  ASSUME WInv, Freed, status' \in {"closed", "crashed"}, UNCHANGED << inLarge, accepted >>,
         sink' \in Seq(Frame), stored' \in Nat
  PROVE  /\ TypeOK' /\ BytesAccounted' /\ BufferHoldsTail'
         /\ DictionaryPlaced' /\ DictionaryIntact' /\ ErrorsShow'
<1>1. writeBuffer' \in [Buffers -> [Offsets -> Nat]]
  BY DEF Freed, FreshBuffers
<1>2. activeBuffer' \in Buffers /\ bufferPos' \in [buf : Buffers, off : 0 .. BUFFER_SIZE]
  BY FormatAssumption DEF Freed, Buffers
<1>3. dict' \in Dictionary
  BY DEF Freed, NoDictionary, Dictionary
<1>4. TypeOK'
  BY <1>1, <1>2, <1>3 DEF WInv, TypeOK, Freed
<1>5. BytesAccounted' /\ BufferHoldsTail' /\ ErrorsShow'
  BY DEF BytesAccounted, BufferHoldsTail, ErrorsShow
<1>6. DictionaryPlaced' /\ DictionaryIntact'
  BY DEF Freed, NoDictionary, DictionaryPlaced, DictionaryIntact, Buffers, Caller
<1> QED BY <1>4, <1>5, <1>6

(* A destructor with bytes left frames them, *)
LEMMA DestroyFlushPreserves ==
  ASSUME WInv, NEW fails \in BOOLEAN, DestroyFlush(fails)
  PROVE  WInv'
<1> DEFINE plain == Contents(writeBuffer[activeBuffer], bufferPos.off)
           size == bufferPos.off
<1>1. /\ Destroyed
      /\ size > 0
      /\ CompressAndWrite(activeBuffer, plain, writeBuffer,
                          UsableHistory(activeBuffer, size), fails)
      /\ status' = "closed"
      /\ Freed
      /\ UNCHANGED << inLarge, accepted >>
  BY DEF DestroyFlush
<1>2. /\ activeBuffer \in Buffers
      /\ writeBuffer \in [Buffers -> [Offsets -> Nat]]
      /\ writeBuffer[activeBuffer] \in [Offsets -> Nat]
      /\ accepted \in Nat /\ stored \in Nat /\ inLarge \in BOOLEAN
      /\ size \in 0 .. BUFFER_SIZE /\ size \in Nat
  BY FormatAssumption DEF WInv, TypeOK
<1>3. plain \in Seq(Nat) /\ Len(plain) = size
  BY <1>2, ContentsType
<1>4. PICK f : NewFrame(f, plain, writeBuffer, fails)
  <2>1. UsableHistory(activeBuffer, size) \in 0 .. dict.len
    BY <1>2, UsableHistoryType DEF WInv
  <2> QED BY <1>1, <1>2, <1>3, <2>1, CompressAndWriteAppends DEF WInv
<1>5. sink' \in Seq(Frame) /\ stored' \in Nat /\ (AllComplete' => AllComplete /\ ~fails)
  BY <1>3, <1>4, SinkGrows DEF WInv
<1>6. /\ TypeOK' /\ BytesAccounted' /\ BufferHoldsTail'
      /\ DictionaryPlaced' /\ DictionaryIntact' /\ ErrorsShow'
  BY <1>1, <1>5, FreedPreserves
<1>7. FramesInOrder'
  <2>1. CASE inLarge
    BY <1>1, <2>1 DEF FramesInOrder, Interrupted
  <2>2. CASE ~inLarge
    <3>1. \A n \in 1 .. Len(plain) : plain[n] = stored + n
      BY <1>1, <1>3, <2>2, TailBlock DEF Running, Destroyed
    <3> QED BY <1>3, <1>4, <2>2, <3>1, OrderKept DEF WInv, Interrupted
  <2> QED BY <2>1, <2>2
<1>8. ReferencesPrecede' /\ CloseLosesNothing'
  <2>1. CASE status = "open"
    <3>1. ReferencesPrecede'
      BY <1>2, <1>3, <1>4, <2>1, ReferencesKept
    <3>2. ~inLarge /\ accepted = stored + size
      BY <1>1, <2>1 DEF Destroyed, WInv, BytesAccounted
    <3>3. CloseLosesNothing'
      BY <1>1, <1>2, <1>3, <1>4, <1>5, <3>2 DEF CloseLosesNothing, NewFrame
    <3> QED BY <3>1, <3>3
  <2>2. CASE status = "failed"
    BY <1>5, <2>2 DEF WInv, ErrorsShow, ReferencesPrecede, CloseLosesNothing
  <2> QED BY <1>1, <2>1, <2>2 DEF Destroyed
<1> QED BY <1>6, <1>7, <1>8 DEF WInv

(* one without does not, *)
LEMMA DestroyEmptyPreserves ==
  ASSUME WInv, DestroyEmpty
  PROVE  WInv'
<1>1. /\ Destroyed
      /\ bufferPos.buf = activeBuffer => bufferPos.off = 0
      /\ status' = "closed" /\ Freed
      /\ UNCHANGED << inLarge, accepted, stored, sink >>
  BY DEF DestroyEmpty
<1>2. ~Interrupted
  BY <1>1 DEF Interrupted, Destroyed
<1>3. /\ TypeOK' /\ BytesAccounted' /\ BufferHoldsTail'
      /\ DictionaryPlaced' /\ DictionaryIntact' /\ ErrorsShow'
  BY <1>1, FreedPreserves DEF WInv, TypeOK
<1>4. FramesInOrder' /\ ReferencesPrecede' /\ (AllComplete' <=> AllComplete)
  <2>1. ReferencesPrecede' /\ (AllComplete' <=> AllComplete)
    BY <1>1, <1>2, FramesUntouched
  <2>2. FramesInOrder'
    BY <1>1, <1>2, FramesUntouched
  <2> QED BY <2>1, <2>2
<1>5. CloseLosesNothing'
  <2>1. CASE status = "open"
    <3>1. ~inLarge
      BY <1>1, <2>1 DEF Destroyed
    <3>2. bufferPos.off = 0
      BY <1>1, <2>1, <3>1 DEF WInv, BufferHoldsTail
    <3>3. stored = accepted
      BY <2>1, <3>1, <3>2 DEF WInv, BytesAccounted, TypeOK
    <3> QED BY <1>1, <3>3 DEF CloseLosesNothing
  <2>2. CASE status = "failed"
    BY <1>4, <2>2 DEF WInv, ErrorsShow, CloseLosesNothing
  <2> QED BY <1>1, <2>1, <2>2 DEF Destroyed
<1> QED BY <1>3, <1>4, <1>5 DEF WInv

(* and one whose bufferPos is in the other buffer frames what is no tail. *)
LEMMA DestroyAcrossPreserves ==
  ASSUME WInv, NEW fails \in BOOLEAN, DestroyAcross(fails)
  PROVE  WInv'
<1> DEFINE block == Contents(writeBuffer[activeBuffer], BUFFER_SIZE)
           plain == Append(block, 0)
<1>1. /\ Destroyed
      /\ bufferPos.buf # activeBuffer
      /\ CompressAndWrite(activeBuffer, plain, writeBuffer, dict.len, fails)
      /\ status' = "closed"
      /\ Freed
      /\ UNCHANGED << inLarge, accepted >>
  BY DEF DestroyAcross
<1>2. /\ activeBuffer \in Buffers
      /\ writeBuffer \in [Buffers -> [Offsets -> Nat]]
      /\ writeBuffer[activeBuffer] \in [Offsets -> Nat]
      /\ inLarge \in BOOLEAN /\ dict.len \in Nat /\ dict.len \in 0 .. dict.len
  BY DEF WInv, TypeOK, Dictionary
<1>3. status = "failed" /\ inLarge
  BY <1>1, <1>2 DEF Destroyed, WInv, BufferHoldsTail
<1>4. plain \in Seq(Nat)
  <2>1. block \in Seq(Nat)
    BY <1>2, FormatAssumption, ContentsType
  <2> QED BY <2>1
<1>5. PICK f : NewFrame(f, plain, writeBuffer, fails)
  BY <1>1, <1>2, <1>4, CompressAndWriteAppends DEF WInv
<1>6. sink' \in Seq(Frame) /\ stored' \in Nat /\ (AllComplete' => AllComplete /\ ~fails)
  BY <1>4, <1>5, SinkGrows DEF WInv
<1>7. /\ TypeOK' /\ BytesAccounted' /\ BufferHoldsTail'
      /\ DictionaryPlaced' /\ DictionaryIntact' /\ ErrorsShow'
  BY <1>1, <1>6, FreedPreserves
<1>8. FramesInOrder'
  BY <1>1, <1>3 DEF FramesInOrder, Interrupted
<1>9. ReferencesPrecede' /\ CloseLosesNothing'
  BY <1>3, <1>6 DEF WInv, ErrorsShow, ReferencesPrecede, CloseLosesNothing
<1> QED BY <1>7, <1>8, <1>9 DEF WInv

(* Memory of the caller's that is reused kills the dictionary in it, and no other. *)
LEMMA SourceReusedPreserves ==
  ASSUME WInv, SourceReused
  PROVE  WInv'
<1>1. /\ Destroyed
      /\ dict.region = Caller
      /\ dict' = [dict EXCEPT !.live = FALSE]
      /\ UNCHANGED << writeBuffer, activeBuffer, bufferPos, inLarge, remaining,
                      accepted, stored, sink, status >>
  BY DEF SourceReused
<1>2. /\ dict' \in Dictionary
      /\ dict'.region = Caller /\ dict'.region \notin Buffers
      /\ dict'.len = dict.len /\ dict'.end = dict.end /\ dict'.last = dict.last
  <2>1. dict \in [region : Buffers \cup {Caller}, end : Nat, len : Nat, last : Nat, live : BOOLEAN]
    BY DEF WInv, TypeOK, Dictionary
  <2>2. Caller \notin Buffers
    BY DEF Caller, Buffers
  <2> QED BY <1>1, <2>1, <2>2 DEF Dictionary
<1>3. TypeOK'
  BY <1>1, <1>2 DEF WInv, TypeOK
<1>4. FramesInOrder' /\ ReferencesPrecede' /\ (AllComplete' <=> AllComplete)
  <2>1. ~Interrupted
    BY <1>1 DEF Interrupted, Destroyed
  <2> QED BY <1>1, <2>1, FramesUntouched
<1>5. BytesAccounted' /\ BufferHoldsTail' /\ ErrorsShow' /\ CloseLosesNothing'
  BY <1>1, <1>4 DEF WInv, BytesAccounted, BufferHoldsTail, ErrorsShow, CloseLosesNothing
<1>6. DictionaryPlaced' /\ DictionaryIntact'
  BY <1>1, <1>2 DEF WInv, DictionaryPlaced, DictionaryIntact
<1> QED BY <1>3, <1>4, <1>5, <1>6 DEF WInv

(* A crash leaves the sink as it is. *)
LEMMA CrashPreserves ==
  ASSUME WInv, Crash
  PROVE  WInv'
<1>1. /\ status \in {"open", "failed"} /\ status' = "crashed" /\ Freed
      /\ UNCHANGED << inLarge, accepted, stored, sink >>
  BY DEF Crash
<1>2. /\ TypeOK' /\ BytesAccounted' /\ BufferHoldsTail'
      /\ DictionaryPlaced' /\ DictionaryIntact' /\ ErrorsShow'
  BY <1>1, FreedPreserves DEF WInv, TypeOK
<1>3. FramesInOrder' /\ ReferencesPrecede'
  <2>1. ~Interrupted
    BY <1>1 DEF Interrupted
  <2> QED BY <1>1, <2>1, FramesUntouched
<1>4. CloseLosesNothing'
  BY <1>1 DEF CloseLosesNothing
<1> QED BY <1>2, <1>3, <1>4 DEF WInv

(* Nothing happens. *)
LEMMA StutterPreserves ==
  ASSUME WInv, UNCHANGED wvars
  PROVE  WInv'
<1> USE DEF wvars
<1>1. TypeOK'
  BY DEF WInv, TypeOK
<1>2. BytesAccounted' /\ BufferHoldsTail'
  BY DEF WInv, BytesAccounted, BufferHoldsTail
<1>3. DictionaryPlaced' /\ DictionaryIntact'
  BY DEF WInv, DictionaryPlaced, DictionaryIntact, DictSees
<1>4. /\ AllComplete' <=> AllComplete
      /\ Interrupted' <=> Interrupted
  BY DEF AllComplete, Complete, FrameSize, FRAME_HEADER_SIZE, Interrupted
<1>5. ErrorsShow' /\ CloseLosesNothing'
  BY <1>4 DEF WInv, ErrorsShow, CloseLosesNothing
<1>6. FramesInOrder' /\ ReferencesPrecede'
  BY <1>4 DEF WInv, FramesInOrder, ReferencesPrecede, Complete, FrameSize,
              FRAME_HEADER_SIZE, FollowsOn, RefersBack
<1> QED BY <1>1, <1>2, <1>3, <1>5, <1>6 DEF WInv

-----------------------------------------------------------------------------
(***************************************************************************)
(* Any call of the stream, whatever the size of a write and the number of  *)
(* calls: the steps of WNext without its bounds, which are there for TLC.  *)
(***************************************************************************)
WCall ==
  \/ \E size \in Nat : WriteFits(size)
  \/ \E size \in Nat, fails \in BOOLEAN : WriteSpills(size, fails)
  \/ \E size \in Nat, fails \in BOOLEAN : WriteLargeFill(size, fails)
  \/ \E fails \in BOOLEAN : WriteLargeChunk(fails)
  \/ WriteLargeRest
  \/ \E fails \in BOOLEAN : Flush(fails)
  \/ \E fails \in BOOLEAN : DestroyFlush(fails)
  \/ DestroyEmpty
  \/ \E fails \in BOOLEAN : DestroyAcross(fails)
  \/ SourceReused
  \/ Crash

(* The steps of the specification are such calls. *)
LEMMA StepsAreCalls ==
  ASSUME [WNext]_wvars
  PROVE  [WCall]_wvars
<1>1. \A fails \in Outcomes : fails \in BOOLEAN
  BY Zenon DEF Outcomes
<1>2. \A size \in 1 .. MAX_WRITE : size \in Nat
  BY OutputAssumption
<1> QED BY <1>1, <1>2, Zenon DEF WNext, WCall

(* Every call keeps the invariant of the stream. *)
LEMMA WriterStep ==
  ASSUME WInv, [WCall]_wvars
  PROVE  WInv'
<1>1. ASSUME NEW size \in Nat, WriteFits(size) PROVE WInv'
  BY <1>1, WriteFitsPreserves
<1>2. ASSUME NEW size \in Nat, NEW fails \in BOOLEAN, WriteSpills(size, fails)
      PROVE  WInv'
  BY <1>2, WriteSpillsPreserves
<1>3. ASSUME NEW size \in Nat, NEW fails \in BOOLEAN, WriteLargeFill(size, fails)
      PROVE  WInv'
  BY <1>3, WriteLargeFillPreserves
<1>4. ASSUME NEW fails \in BOOLEAN, WriteLargeChunk(fails) PROVE WInv'
  BY <1>4, WriteLargeChunkPreserves
<1>5. ASSUME NEW fails \in BOOLEAN, Flush(fails) PROVE WInv'
  BY <1>5, FlushPreserves
<1>6. ASSUME NEW fails \in BOOLEAN, DestroyFlush(fails) PROVE WInv'
  BY <1>6, DestroyFlushPreserves
<1>7. ASSUME NEW fails \in BOOLEAN, DestroyAcross(fails) PROVE WInv'
  BY <1>7, DestroyAcrossPreserves
<1> QED BY <1>1, <1>2, <1>3, <1>4, <1>5, <1>6, <1>7, WriteLargeRestPreserves,
           DestroyEmptyPreserves, SourceReusedPreserves, CrashPreserves, StutterPreserves
        DEF WCall

(***************************************************************************)
(* The invariant of LZ4OutputStream.cpp: whatever calls are made, in       *)
(* whatever order, whichever of them fail and wherever the process dies.   *)
(***************************************************************************)
THEOREM WriterInvariant == WSpec => []WInv
<1>1. WInit => WInv
  BY InitEstablishes
<1>2. WInv /\ [WNext]_wvars => WInv'
  BY StepsAreCalls, WriterStep
<1> QED BY <1>1, <1>2, PTL DEF WSpec

(* Types of the stream's state; in particular bufferPos never leaves its buffer. *)
THEOREM WriterTypes == WSpec => []TypeOK
<1>1. WInv => TypeOK
  BY DEF WInv
<1> QED BY <1>1, WriterInvariant, PTL

(***************************************************************************)
(* The complete frames are the stream from its first byte on, in order:    *)
(* nothing is lost, repeated or swapped on the way through the buffers.    *)
(***************************************************************************)
THEOREM WriterKeepsOrder == WSpec => []FramesInOrder
<1>1. WInv => FramesInOrder
  BY DEF WInv
<1> QED BY <1>1, WriterInvariant, PTL

(* The block the compressor refers to is not written over before the next one is compressed. *)
THEOREM WriterKeepsDictionary == WSpec => []DictionaryIntact
<1>1. WInv => DictionaryIntact
  BY DEF WInv
<1> QED BY <1>1, WriterInvariant, PTL

(* What is accepted and not framed yet is in the active buffer, up to bufferPos. *)
THEOREM WriterHoldsTail == WSpec => []BufferHoldsTail
<1>1. WInv => BufferHoldsTail
  BY DEF WInv
<1> QED BY <1>1, WriterInvariant, PTL

(* A destructor that meets no error hands over every byte. *)
THEOREM WriterLosesNothing == WSpec => []CloseLosesNothing
<1>1. WInv => CloseLosesNothing
  BY DEF WInv
<1> QED BY <1>1, WriterInvariant, PTL

(***************************************************************************)
(* Every match of a frame refers to the bytes right before the frame, so a *)
(* reader that has decoded the frames before it has what it needs.         *)
(***************************************************************************)
THEOREM WriterRefersBack == WSpec => []ReferencesPrecede
<1>1. WInv => ReferencesPrecede
  BY DEF WInv
<1> QED BY <1>1, WriterInvariant, PTL

-----------------------------------------------------------------------------
(***************************************************************************)
(* The frames the output stream leaves behind: their sizes, which bytes of *)
(* the stream they carry, and how each follows on the one before it, also  *)
(* those that were torn or that the destructor flushed from the wrong      *)
(* buffer.  This is what a reader can rely on.                             *)
(***************************************************************************)

(* The plaintext bytes in complete frames once f has been handed over. *)
EndOf(f) == f.after + (IF Complete(f) THEN Len(f.plain) ELSE 0)

(* The same before the q-th frame, counted from the sink. *)
After(q) == IF q <= Len(sink) THEN sink[q].after ELSE stored

Made(f) ==
  /\ f.clen \in CompressedSizes
  /\ Len(f.plain) >= 1
  /\ f.landed <= FrameSize(f)

(* A block of the stream, or, from a destructor that interrupts a large write, not. *)
InPlace(f) == FollowsOn(f) /\ Len(f.plain) <= BUFFER_SIZE

OutOfPlace(f) ==
  \/ f.plain[Len(f.plain)] = 0
  \/ f.plain[1] + BUFFER_SIZE <= f.after

FramesMade == \A i \in 1 .. Len(sink) : Made(sink[i])

FramesPlaced ==
  \A i \in 1 .. Len(sink) :
    InPlace(sink[i]) \/ (i = Len(sink) /\ Interrupted /\ OutOfPlace(sink[i]))

FramesChained ==
  /\ After(1) = 0
  /\ \A i \in 1 .. Len(sink) : After(i + 1) = EndOf(sink[i])

InterruptionShows == Interrupted => ~AllComplete

(***************************************************************************)
(* In the loop of a large write bufferPos still points into the buffer     *)
(* that was filled before it, whose first byte lies ever further back.     *)
(***************************************************************************)
BlockLeftBehind ==
  inLarge /\ Running =>
    LET oldest == writeBuffer[bufferPos.buf][0] IN
    /\ oldest + BUFFER_SIZE <= stored + 1
    /\ bufferPos.buf = activeBuffer => oldest + 2 * BUFFER_SIZE <= stored + 1

FrameInv ==
  /\ FramesMade
  /\ FramesPlaced
  /\ FramesChained
  /\ InterruptionShows
  /\ BlockLeftBehind

-----------------------------------------------------------------------------
(* What an action that calls compressAndWrite hands over. *)
Hands(f, fails) ==
  /\ f \in Frame /\ Made(f)
  /\ sink' = Append(sink, f)
  /\ f.after = stored /\ stored' = EndOf(f)
  /\ Complete(f) <=> ~fails
  /\ Running
  /\ InPlace(f) \/ (status' = "closed" /\ inLarge' /\ OutOfPlace(f))

(* A block of the bytes that come next. *)
LEMMA NextBlockHands ==
  ASSUME TypeOK, Running, NEW plain \in Seq(Nat), NEW buffers, NEW fails \in BOOLEAN,
         NEW f, NewFrame(f, plain, buffers, fails),
         Len(plain) \in 1 .. BUFFER_SIZE,
         \A n \in 1 .. Len(plain) : plain[n] = stored + n
  PROVE  Hands(f, fails)
<1>1. f.plain = plain /\ f.after = stored
  BY DEF NewFrame
<1>2. InPlace(f)
  BY <1>1 DEF InPlace, FollowsOn
<1>3. Made(f)
  BY <1>1 DEF Made, NewFrame
<1>4. stored' = EndOf(f)
  <2>1. stored \in Nat /\ stored + 0 = stored
    BY DEF TypeOK
  <2> QED BY <1>1, <2>1 DEF EndOf, NewFrame
<1> QED BY <1>2, <1>3, <1>4 DEF Hands, NewFrame

(* A block that the destructor takes from the wrong place. *)
LEMMA WrongBlockHands ==
  ASSUME TypeOK, Running, NEW plain \in Seq(Nat), NEW buffers, NEW fails \in BOOLEAN,
         NEW f, NewFrame(f, plain, buffers, fails),
         Len(plain) >= 1,
         plain[Len(plain)] = 0 \/ plain[1] + BUFFER_SIZE <= stored,
         status' = "closed", inLarge'
  PROVE  Hands(f, fails)
<1>1. f.plain = plain /\ f.after = stored
  BY DEF NewFrame
<1>2. OutOfPlace(f)
  BY <1>1 DEF OutOfPlace
<1>3. Made(f)
  BY <1>1 DEF Made, NewFrame
<1>4. stored' = EndOf(f)
  <2>1. stored \in Nat /\ stored + 0 = stored
    BY DEF TypeOK
  <2> QED BY <1>1, <2>1 DEF EndOf, NewFrame
<1> QED BY <1>2, <1>3, <1>4 DEF Hands, NewFrame

(* Each action that calls compressAndWrite hands over a frame: a write that spills, *)
LEMMA SpillHands ==
  ASSUME WInv, NEW size, NEW fails \in BOOLEAN, WriteSpills(size, fails)
  PROVE  \E f : Hands(f, fails)
<1> DEFINE plain == Contents(Filled[activeBuffer], BUFFER_SIZE)
<1>1. /\ status = "open" /\ ~inLarge
      /\ CompressAndWrite(activeBuffer, plain, Filled,
                          UsableHistory(activeBuffer, BUFFER_SIZE), fails)
  BY DEF WriteSpills
<1>2. activeBuffer \in Buffers /\ BUFFER_SIZE \in Nat /\ BUFFER_SIZE >= 1
  BY FormatAssumption DEF WInv, TypeOK
<1>3. Filled \in [Buffers -> [Offsets -> Nat]]
  BY <1>1, FilledContents
<1>4. /\ plain \in Seq(Nat) /\ Len(plain) = BUFFER_SIZE
      /\ \A n \in 1 .. BUFFER_SIZE : plain[n] = stored + n
  BY <1>1, FilledBlock
<1>5. PICK f : NewFrame(f, plain, Filled, fails)
  <2>1. UsableHistory(activeBuffer, BUFFER_SIZE) \in 0 .. dict.len
    BY <1>2, UsableHistoryType DEF WInv
  <2> QED BY <1>1, <1>3, <1>4, <2>1, CompressAndWriteAppends DEF WInv
<1> HIDE DEF plain
<1>6. Hands(f, fails)
  BY <1>1, <1>2, <1>4, <1>5, NextBlockHands DEF WInv, Running
<1> QED BY <1>6

(* the filling of the buffer by a large write, *)
LEMMA FillHands ==
  ASSUME WInv, NEW size, NEW fails \in BOOLEAN, WriteLargeFill(size, fails)
  PROVE  \E f : Hands(f, fails)
<1> DEFINE plain == Contents(Filled[activeBuffer], BUFFER_SIZE)
<1>1. /\ status = "open" /\ ~inLarge
      /\ CompressAndWrite(activeBuffer, plain, Filled,
                          UsableHistory(activeBuffer, BUFFER_SIZE), fails)
  BY DEF WriteLargeFill
<1>2. activeBuffer \in Buffers /\ BUFFER_SIZE \in Nat /\ BUFFER_SIZE >= 1
  BY FormatAssumption DEF WInv, TypeOK
<1>3. Filled \in [Buffers -> [Offsets -> Nat]]
  BY <1>1, FilledContents
<1>4. /\ plain \in Seq(Nat) /\ Len(plain) = BUFFER_SIZE
      /\ \A n \in 1 .. BUFFER_SIZE : plain[n] = stored + n
  BY <1>1, FilledBlock
<1>5. PICK f : NewFrame(f, plain, Filled, fails)
  <2>1. UsableHistory(activeBuffer, BUFFER_SIZE) \in 0 .. dict.len
    BY <1>2, UsableHistoryType DEF WInv
  <2> QED BY <1>1, <1>3, <1>4, <2>1, CompressAndWriteAppends DEF WInv
<1> HIDE DEF plain
<1>6. Hands(f, fails)
  BY <1>1, <1>2, <1>4, <1>5, NextBlockHands DEF WInv, Running
<1> QED BY <1>6

(* a chunk of it, *)
LEMMA ChunkHands ==
  ASSUME WInv, NEW fails \in BOOLEAN, WriteLargeChunk(fails)
  PROVE  \E f : Hands(f, fails)
<1> DEFINE first == accepted - remaining + 1
           plain == [i \in 1 .. BUFFER_SIZE |-> first + i - 1]
<1>1. /\ status = "open" /\ inLarge
      /\ CompressAndWrite(Caller, plain, writeBuffer, UsableHistory(Caller, BUFFER_SIZE), fails)
  BY DEF WriteLargeChunk
<1>2. /\ writeBuffer \in [Buffers -> [Offsets -> Nat]]
      /\ accepted \in Nat /\ stored \in Nat /\ remaining \in Nat
      /\ BUFFER_SIZE \in Nat /\ BUFFER_SIZE >= 1
      /\ accepted = stored + remaining
  BY <1>1, FormatAssumption DEF WInv, TypeOK, BytesAccounted
<1>3. first = stored + 1
  BY <1>2
<1>4. /\ plain \in Seq(Nat) /\ Len(plain) = BUFFER_SIZE
      /\ \A n \in 1 .. BUFFER_SIZE : plain[n] = stored + n
  BY <1>2, <1>3
<1>5. PICK f : NewFrame(f, plain, writeBuffer, fails)
  <2>1. UsableHistory(Caller, BUFFER_SIZE) \in 0 .. dict.len
    BY <1>2, UsableHistoryType DEF WInv
  <2> QED BY <1>1, <1>2, <1>4, <2>1, CompressAndWriteAppends DEF WInv
<1> HIDE DEF plain
<1>6. Hands(f, fails)
  BY <1>1, <1>2, <1>4, <1>5, NextBlockHands DEF WInv, Running
<1> QED BY <1>6

(* flush, *)
LEMMA FlushHands ==
  ASSUME WInv, NEW fails \in BOOLEAN, Flush(fails)
  PROVE  \E f : Hands(f, fails)
<1> DEFINE plain == Contents(writeBuffer[activeBuffer], bufferPos.off)
<1>1. /\ status = "open" /\ ~inLarge
      /\ bufferPos.off > 0
      /\ CompressAndWrite(activeBuffer, plain, writeBuffer,
                          UsableHistory(activeBuffer, bufferPos.off), fails)
  BY DEF Flush
<1>2. /\ writeBuffer \in [Buffers -> [Offsets -> Nat]] /\ activeBuffer \in Buffers
      /\ bufferPos.off \in 1 .. BUFFER_SIZE /\ bufferPos.off \in Nat
  BY <1>1, FormatAssumption DEF WInv, TypeOK
<1>3. Running
  BY <1>1 DEF Running
<1>4. /\ plain \in Seq(Nat) /\ Len(plain) = bufferPos.off
      /\ \A n \in 1 .. bufferPos.off : plain[n] = stored + n
  BY <1>1, <1>3, TailBlock
<1>5. PICK f : NewFrame(f, plain, writeBuffer, fails)
  <2>1. UsableHistory(activeBuffer, bufferPos.off) \in 0 .. dict.len
    BY <1>2, UsableHistoryType DEF WInv
  <2> QED BY <1>1, <1>2, <1>4, <2>1, CompressAndWriteAppends DEF WInv
<1> HIDE DEF plain
<1>6. Hands(f, fails)
  BY <1>2, <1>3, <1>4, <1>5, NextBlockHands DEF WInv
<1> QED BY <1>6

(* the destructor, whose frame is out of place if it interrupts a large write, *)
LEMMA DestroyFlushHands ==
  ASSUME WInv, BlockLeftBehind, NEW fails \in BOOLEAN, DestroyFlush(fails)
  PROVE  \E f : Hands(f, fails)
<1> DEFINE plain == Contents(writeBuffer[activeBuffer], bufferPos.off)
<1>1. /\ Destroyed /\ bufferPos.buf = activeBuffer
      /\ bufferPos.off > 0
      /\ CompressAndWrite(activeBuffer, plain, writeBuffer,
                          UsableHistory(activeBuffer, bufferPos.off), fails)
      /\ status' = "closed" /\ inLarge' = inLarge
  BY DEF DestroyFlush
<1>2. /\ writeBuffer \in [Buffers -> [Offsets -> Nat]] /\ activeBuffer \in Buffers
      /\ writeBuffer[activeBuffer] \in [Offsets -> Nat]
      /\ bufferPos.off \in 1 .. BUFFER_SIZE /\ bufferPos.off \in 0 .. BUFFER_SIZE
      /\ stored \in Nat /\ inLarge \in BOOLEAN
      /\ BUFFER_SIZE \in Nat /\ BUFFER_SIZE >= 1
  BY <1>1, FormatAssumption DEF WInv, TypeOK
<1>3. Running
  BY <1>1 DEF Running, Destroyed
<1>4. /\ plain \in Seq(Nat) /\ Len(plain) = bufferPos.off
      /\ \A n \in 1 .. bufferPos.off : plain[n] = writeBuffer[activeBuffer][n - 1]
  BY <1>2, ContentsType
<1>5. PICK f : NewFrame(f, plain, writeBuffer, fails)
  <2>1. UsableHistory(activeBuffer, bufferPos.off) \in 0 .. dict.len
    BY <1>2, UsableHistoryType DEF WInv
  <2> QED BY <1>1, <1>2, <1>4, <2>1, CompressAndWriteAppends DEF WInv
<1>6. CASE ~inLarge
  <2>1. \A n \in 1 .. bufferPos.off : plain[n] = stored + n
    BY <1>3, <1>6, TailBlock
  <2> HIDE DEF plain
  <2>2. Hands(f, fails)
    BY <1>2, <1>3, <1>4, <1>5, <2>1, NextBlockHands DEF WInv
  <2> QED BY <2>2
<1>7. CASE inLarge
  <2>1. plain[1] = writeBuffer[activeBuffer][0]
    BY <1>2, <1>4
  <2>2. writeBuffer[activeBuffer][0] + 2 * BUFFER_SIZE <= stored + 1
    BY <1>1, <1>3, <1>7 DEF BlockLeftBehind
  <2>3. writeBuffer[activeBuffer][0] \in Nat
    BY <1>2 DEF Offsets
  <2>4. plain[1] + BUFFER_SIZE <= stored
    BY <1>2, <2>1, <2>2, <2>3
  <2> HIDE DEF plain
  <2>5. Hands(f, fails)
    BY <1>1, <1>2, <1>3, <1>4, <1>5, <1>7, <2>4, WrongBlockHands DEF WInv
  <2> QED BY <2>5
<1> QED BY <1>6, <1>7

(* and the destructor that flushes past the end of the buffer. *)
LEMMA DestroyAcrossHands ==
  ASSUME WInv, NEW fails \in BOOLEAN, DestroyAcross(fails)
  PROVE  \E f : Hands(f, fails)
<1> DEFINE block == Contents(writeBuffer[activeBuffer], BUFFER_SIZE)
           plain == Append(block, 0)
<1>1. /\ Destroyed
      /\ bufferPos.buf # activeBuffer
      /\ CompressAndWrite(activeBuffer, plain, writeBuffer, dict.len, fails)
      /\ status' = "closed" /\ inLarge' = inLarge
  BY DEF DestroyAcross
<1>2. /\ activeBuffer \in Buffers
      /\ writeBuffer \in [Buffers -> [Offsets -> Nat]]
      /\ writeBuffer[activeBuffer] \in [Offsets -> Nat]
      /\ inLarge \in BOOLEAN /\ dict.len \in Nat /\ dict.len \in 0 .. dict.len
  BY DEF WInv, TypeOK, Dictionary
<1>3. status = "failed" /\ inLarge /\ Running
  BY <1>1, <1>2 DEF Destroyed, WInv, BufferHoldsTail, Running
<1>4. plain \in Seq(Nat) /\ Len(plain) >= 1 /\ plain[Len(plain)] = 0
  <2>1. block \in Seq(Nat) /\ Len(block) = BUFFER_SIZE /\ BUFFER_SIZE \in Nat
    BY <1>2, FormatAssumption, ContentsType
  <2> HIDE DEF block
  <2> QED BY <2>1
<1>5. PICK f : NewFrame(f, plain, writeBuffer, fails)
  BY <1>1, <1>2, <1>4, CompressAndWriteAppends DEF WInv
<1> HIDE DEF plain
<1>6. Hands(f, fails)
  BY <1>1, <1>3, <1>4, <1>5, WrongBlockHands DEF WInv
<1> QED BY <1>6

(* Every call hands over one frame or leaves the frames alone. *)
LEMMA StepHands ==
  ASSUME WInv, BlockLeftBehind, [WCall]_wvars
  PROVE  \/ UNCHANGED << sink, stored >>
         \/ \E fails \in BOOLEAN : \E f : Hands(f, fails)
<1>1. ASSUME NEW size \in Nat, WriteFits(size) PROVE UNCHANGED << sink, stored >>
  BY <1>1 DEF WriteFits
<1>2. ASSUME NEW size \in Nat, NEW fails \in BOOLEAN, WriteSpills(size, fails)
      PROVE  \E f : Hands(f, fails)
  BY <1>2, SpillHands
<1>3. ASSUME NEW size \in Nat, NEW fails \in BOOLEAN, WriteLargeFill(size, fails)
      PROVE  \E f : Hands(f, fails)
  BY <1>3, FillHands
<1>4. ASSUME NEW fails \in BOOLEAN, WriteLargeChunk(fails) PROVE \E f : Hands(f, fails)
  BY <1>4, ChunkHands
<1>5. ASSUME NEW fails \in BOOLEAN, Flush(fails) PROVE \E f : Hands(f, fails)
  BY <1>5, FlushHands
<1>6. ASSUME NEW fails \in BOOLEAN, DestroyFlush(fails) PROVE \E f : Hands(f, fails)
  BY <1>6, DestroyFlushHands
<1>7. ASSUME NEW fails \in BOOLEAN, DestroyAcross(fails) PROVE \E f : Hands(f, fails)
  BY <1>7, DestroyAcrossHands
<1>8. ASSUME WriteLargeRest \/ DestroyEmpty \/ SourceReused \/ Crash \/ UNCHANGED wvars
      PROVE  UNCHANGED << sink, stored >>
  BY <1>8 DEF WriteLargeRest, DestroyEmpty, SourceReused, Crash, wvars
<1> QED BY <1>1, <1>2, <1>3, <1>4, <1>5, <1>6, <1>7, <1>8 DEF WCall

-----------------------------------------------------------------------------
(* One more frame is made, placed and chained as the others are. *)
LEMMA FramesKept ==
  ASSUME WInv, FrameInv, NEW f, NEW fails, Hands(f, fails)
  PROVE  FramesMade' /\ FramesPlaced' /\ FramesChained'
<1> DEFINE n == Len(sink)
<1>1. sink \in Seq(Frame) /\ f \in Frame /\ stored \in Nat
  BY DEF WInv, TypeOK, Hands
<1>2. /\ n \in Nat /\ Len(sink') = n + 1
      /\ \A i \in 1 .. n : sink'[i] = sink[i]
      /\ sink'[n + 1] = f
  BY <1>1, AppendProperties DEF Hands
<1> HIDE DEF n
<1>3. ASSUME NEW i \in 1 .. n + 1
      PROVE  (i \in 1 .. n /\ sink'[i] = sink[i]) \/ (i = n + 1 /\ sink'[i] = f)
  BY <1>2
<1>4. n = Len(sink)
  BY DEF n
<1>5. FramesMade'
  <2>1. \A i \in 1 .. n : Made(sink[i])
    BY <1>4 DEF FrameInv, FramesMade
  <2>2. \A i \in 1 .. n + 1 : Made(sink'[i])
    BY <1>3, <2>1 DEF Hands
  <2>3. \A i \in 1 .. Len(sink') : Made(sink'[i])
    BY <1>2, <2>2
  <2> QED BY <2>3 DEF FramesMade, Made, FrameSize, FRAME_HEADER_SIZE
<1>6. FramesPlaced'
  <2>1. \A i \in 1 .. n : InPlace(sink[i])
    BY <1>4 DEF FrameInv, FramesPlaced, Interrupted, Hands, Running
  <2>2. InPlace(f) \/ (Interrupted' /\ OutOfPlace(f))
    BY DEF Hands, Interrupted
  <2>3. \A i \in 1 .. n + 1 :
          InPlace(sink'[i]) \/ (i = n + 1 /\ Interrupted' /\ OutOfPlace(sink'[i]))
    BY <1>3, <2>1, <2>2
  <2>4. \A i \in 1 .. Len(sink') :
          InPlace(sink'[i]) \/ (i = Len(sink') /\ Interrupted' /\ OutOfPlace(sink'[i]))
    BY <1>2, <2>3
  <2> QED BY <2>4 DEF FramesPlaced, InPlace, FollowsOn, OutOfPlace
<1>7. FramesChained'
  <2>1. /\ After(1) = 0
        /\ \A i \in 1 .. n : After(i + 1) = EndOf(sink[i])
    BY <1>4 DEF FrameInv, FramesChained
  <2>2. After(n + 1) = stored
    BY <1>2, <1>4 DEF After
  <2>3. ASSUME NEW i \in 1 .. n + 1
        PROVE  (IF i <= Len(sink') THEN sink'[i].after ELSE stored') = After(i)
    <3>1. i <= Len(sink')
      BY <1>2
    <3>2. CASE i \in 1 .. n /\ sink'[i] = sink[i]
      BY <1>2, <1>4, <3>1, <3>2 DEF After
    <3>3. CASE i = n + 1 /\ sink'[i] = f
      BY <2>2, <3>1, <3>3 DEF Hands
    <3> QED BY <1>3, <3>2, <3>3
  <2>4. (IF n + 2 <= Len(sink') THEN sink'[n + 2].after ELSE stored') = EndOf(f)
    BY <1>2 DEF Hands
  <2>5. ASSUME NEW i \in 1 .. n + 1
        PROVE  (IF i + 1 <= Len(sink') THEN sink'[i + 1].after ELSE stored') = EndOf(sink'[i])
    <3>1. CASE i \in 1 .. n /\ sink'[i] = sink[i]
      <4>1. i + 1 \in 1 .. n + 1
        BY <1>2, <3>1
      <4>2. After(i + 1) = EndOf(sink[i])
        BY <2>1, <3>1
      <4> QED BY <2>3, <3>1, <4>1, <4>2
    <3>2. CASE i = n + 1 /\ sink'[i] = f
      <4>1. i + 1 = n + 2
        BY <1>2, <3>2
      <4> QED BY <2>4, <3>2, <4>1
    <3> QED BY <1>3, <3>1, <3>2
  <2>6. 1 \in 1 .. n + 1
    BY <1>2
  <2>7. (IF 1 <= Len(sink') THEN sink'[1].after ELSE stored') = 0
    BY <2>1, <2>3, <2>6
  <2>8. \A i \in 1 .. Len(sink') :
          (IF i + 1 <= Len(sink') THEN sink'[i + 1].after ELSE stored') = EndOf(sink'[i])
    BY <1>2, <2>5
  <2>9. After(1)' = 0
    BY <2>7 DEF After
  <2>10. \A i \in 1 .. Len(sink') : After(i + 1)' = EndOf(sink'[i])
    BY <2>8 DEF After
  <2> QED BY <2>9, <2>10 DEF FramesChained, EndOf, Complete, FrameSize, FRAME_HEADER_SIZE
<1> QED BY <1>5, <1>6, <1>7

(* The frames stay as they are when no frame is handed over. *)
LEMMA FramesStay ==
  ASSUME FrameInv, UNCHANGED << sink, stored >>, Interrupted => Interrupted'
  PROVE  FramesMade' /\ FramesPlaced' /\ FramesChained'
<1>1. FramesMade'
  BY DEF FrameInv, FramesMade, Made, FrameSize, FRAME_HEADER_SIZE
<1>2. FramesPlaced'
  BY DEF FrameInv, FramesPlaced, InPlace, FollowsOn, OutOfPlace
<1>3. FramesChained'
  BY DEF FrameInv, FramesChained, After, EndOf, Complete, FrameSize, FRAME_HEADER_SIZE
<1> QED BY <1>1, <1>2, <1>3

(* A stream that is closed or whose process has died does nothing more. *)
LEMMA ClosedStays ==
  ASSUME TypeOK, status \in {"closed", "crashed"}, [WCall]_wvars
  PROVE  UNCHANGED wvars
  BY DEF WCall, WriteFits, WriteSpills, WriteLargeFill, WriteLargeChunk, WriteLargeRest,
         Flush, DestroyFlush, DestroyEmpty, DestroyAcross, SourceReused, Crash, Destroyed

(* The destructor interrupts a large write only after an error, which shows in the sink. *)
LEMMA InterruptionKept ==
  ASSUME WInv, FrameInv, [WCall]_wvars
  PROVE  InterruptionShows'
<1> SUFFICES ASSUME Interrupted' PROVE ~AllComplete'
  BY DEF InterruptionShows
<1>1. CASE status \in {"closed", "crashed"}
  <2>1. UNCHANGED wvars
    BY <1>1, ClosedStays DEF WInv
  <2> QED BY <2>1 DEF FrameInv, InterruptionShows, Interrupted, wvars, AllComplete,
                      Complete, FrameSize, FRAME_HEADER_SIZE
<1>2. CASE status \in {"open", "failed"}
  <2>1. Destroyed /\ inLarge
    BY <1>2 DEF Interrupted, WCall, WriteFits, WriteSpills, WriteLargeFill, WriteLargeChunk,
                WriteLargeRest, Flush, DestroyFlush, DestroyEmpty, DestroyAcross,
                SourceReused, Crash, Destroyed, wvars
  <2>2. ~AllComplete
    BY <2>1 DEF WInv, ErrorsShow, Destroyed
  <2>3. CASE UNCHANGED << sink, stored >>
    BY <2>2, <2>3 DEF AllComplete, Complete, FrameSize, FRAME_HEADER_SIZE
  <2>4. ASSUME NEW fails \in BOOLEAN, NEW f, Hands(f, fails) PROVE ~AllComplete'
    <3>1. sink \in Seq(Frame) /\ f \in Frame /\ sink' = Append(sink, f)
      BY <2>4 DEF WInv, TypeOK, Hands
    <3>2. PICK i \in 1 .. Len(sink) : ~Complete(sink[i])
      BY <2>2 DEF AllComplete
    <3>3. i \in 1 .. Len(sink') /\ sink'[i] = sink[i]
      BY <3>1, AppendProperties
    <3> QED BY <3>2, <3>3 DEF AllComplete, Complete, FrameSize, FRAME_HEADER_SIZE
  <2> QED BY <2>3, <2>4, StepHands DEF FrameInv
<1> QED BY <1>1, <1>2 DEF WInv, TypeOK

(* What bufferPos was left at falls behind with each chunk. *)
LEMMA BlockStaysBehind ==
  ASSUME WInv, FrameInv, [WCall]_wvars
  PROVE  BlockLeftBehind'
<1>0. /\ writeBuffer \in [Buffers -> [Offsets -> Nat]] /\ activeBuffer \in Buffers
      /\ bufferPos.buf \in Buffers /\ stored \in Nat /\ 0 \in Offsets
      /\ inLarge \in BOOLEAN
      /\ BUFFER_SIZE \in Nat /\ BUFFER_SIZE >= 1
  BY FormatAssumption DEF WInv, TypeOK, Offsets
<1>1. writeBuffer[bufferPos.buf][0] \in Nat
  BY <1>0
<1>2. ASSUME NEW size, NEW fails \in BOOLEAN, WriteLargeFill(size, fails) PROVE BlockLeftBehind'
  <2>1. /\ status = "open" /\ ~inLarge /\ writeBuffer' = Filled
        /\ bufferPos' = bufferPos
        /\ IF fails THEN UNCHANGED inLarge ELSE activeBuffer' = OtherBuffer
    BY <1>2 DEF WriteLargeFill
  <2>2. CASE fails
    BY <2>1, <2>2 DEF BlockLeftBehind
  <2>3. CASE ~fails
    <3>1. bufferPos.buf = activeBuffer /\ OtherBuffer # activeBuffer
      BY <1>0, <2>1 DEF WInv, BufferHoldsTail, OtherBuffer, Buffers
    <3>2. Filled[activeBuffer][0] = stored + 1
      <4>1. Filled[activeBuffer][0] = stored + 1 + 0
        BY <1>0, <2>1, FilledContents
      <4> QED BY <1>0, <4>1
    <3>3. stored' = stored + BUFFER_SIZE
      <4>1. Len(Contents(Filled[activeBuffer], BUFFER_SIZE)) = BUFFER_SIZE
        BY <2>1, FilledBlock
      <4>2. CompressAndWrite(activeBuffer, Contents(Filled[activeBuffer], BUFFER_SIZE), Filled,
                             UsableHistory(activeBuffer, BUFFER_SIZE), fails)
        BY <1>2 DEF WriteLargeFill
      <4> QED BY <2>3, <4>1, <4>2 DEF CompressAndWrite
    <3>4. writeBuffer'[bufferPos'.buf][0] = stored + 1
      BY <2>1, <3>1, <3>2
    <3>5. bufferPos'.buf # activeBuffer'
      BY <2>1, <2>3, <3>1
    <3> QED BY <1>0, <3>3, <3>4, <3>5 DEF BlockLeftBehind
  <2> QED BY <2>2, <2>3
<1>3. ASSUME NEW fails \in BOOLEAN, WriteLargeChunk(fails) PROVE BlockLeftBehind'
  <2>1. /\ status = "open" /\ inLarge /\ Running
        /\ UNCHANGED << writeBuffer, bufferPos, inLarge >>
        /\ IF fails THEN UNCHANGED activeBuffer ELSE activeBuffer' = OtherBuffer
    BY <1>3 DEF WriteLargeChunk, Running
  <2>2. /\ writeBuffer[bufferPos.buf][0] + BUFFER_SIZE <= stored + 1
        /\ bufferPos.buf = activeBuffer =>
             writeBuffer[bufferPos.buf][0] + 2 * BUFFER_SIZE <= stored + 1
    BY <2>1 DEF FrameInv, BlockLeftBehind
  <2>3. stored' = IF fails THEN stored ELSE stored + BUFFER_SIZE
    <3> DEFINE plain == [i \in 1 .. BUFFER_SIZE |-> (accepted - remaining + 1) + i - 1]
    <3>1. CompressAndWrite(Caller, plain, writeBuffer, UsableHistory(Caller, BUFFER_SIZE), fails)
      BY <1>3 DEF WriteLargeChunk
    <3>2. Len(plain) = BUFFER_SIZE
      BY <1>0
    <3> HIDE DEF plain
    <3> QED BY <3>1, <3>2 DEF CompressAndWrite
  <2>4. CASE fails
    BY <2>1, <2>2, <2>3, <2>4 DEF BlockLeftBehind
  <2>5. CASE ~fails
    BY <1>0, <1>1, <2>1, <2>2, <2>3, <2>5 DEF BlockLeftBehind
  <2> QED BY <2>4, <2>5
<1>4. ASSUME SourceReused \/ UNCHANGED wvars PROVE BlockLeftBehind'
  BY <1>4 DEF FrameInv, BlockLeftBehind, SourceReused, wvars, Running
<1>5. ASSUME \/ \E size \in Nat : WriteFits(size)
             \/ \E size \in Nat, fails \in BOOLEAN : WriteSpills(size, fails)
             \/ WriteLargeRest
             \/ \E fails \in BOOLEAN : Flush(fails)
      PROVE  BlockLeftBehind'
  BY <1>5 DEF WriteFits, WriteSpills, WriteLargeRest, Flush, BlockLeftBehind
<1>6. ASSUME \/ \E fails \in BOOLEAN : DestroyFlush(fails)
             \/ DestroyEmpty
             \/ \E fails \in BOOLEAN : DestroyAcross(fails)
             \/ Crash
      PROVE  BlockLeftBehind'
  BY <1>6 DEF DestroyFlush, DestroyEmpty, DestroyAcross, Crash, BlockLeftBehind, Running
<1> QED BY <1>2, <1>3, <1>4, <1>5, <1>6 DEF WCall

(* Every step of the stream keeps what is said of its frames. *)
LEMMA StepKeepsFrames ==
  ASSUME WInv, FrameInv, [WCall]_wvars
  PROVE  FrameInv'
<1>1. FramesMade' /\ FramesPlaced' /\ FramesChained'
  <2>1. CASE UNCHANGED << sink, stored >>
    <3>1. Interrupted => Interrupted'
      <4>1. status = "closed" => UNCHANGED wvars
        BY ClosedStays DEF WInv
      <4> QED BY <4>1 DEF Interrupted, wvars
    <3> QED BY <2>1, <3>1, FramesStay
  <2>2. ASSUME NEW fails \in BOOLEAN, NEW f, Hands(f, fails)
        PROVE  FramesMade' /\ FramesPlaced' /\ FramesChained'
    BY <2>2, FramesKept
  <2> QED BY <2>1, <2>2, StepHands DEF FrameInv
<1> QED BY <1>1, InterruptionKept, BlockStaysBehind DEF FrameInv

(* A new stream has no frames. *)
LEMMA FramesStart == WInit => FrameInv
  BY DEF WInit, FrameInv, FramesMade, FramesPlaced, FramesChained, After,
         InterruptionShows, Interrupted, BlockLeftBehind

(***************************************************************************)
(* What a reader can rely on, whatever calls were made and failed.         *)
(***************************************************************************)
THEOREM WriterChainsFrames == WSpec => []FrameInv
<1>1. WInit => WInv /\ FrameInv
  BY InitEstablishes, FramesStart
<1>2. WInv /\ WInv' /\ FrameInv /\ [WNext]_wvars => FrameInv'
  BY StepsAreCalls, StepKeepsFrames
<1> QED BY <1>1, <1>2, WriterInvariant, PTL DEF WSpec

(* A program whose writes fit a buffer never enters the loop over chunks. *)
LEMMA StepStaysSmall ==
  ASSUME TypeOK, MAX_WRITE <= BUFFER_SIZE, ~inLarge, [WNext]_wvars
  PROVE  ~inLarge'
<1>1. MAX_WRITE \in Nat /\ BUFFER_SIZE \in Nat
  BY OutputAssumption, FormatAssumption
<1>2. \A size \in 1 .. MAX_WRITE : ~(size > BUFFER_SIZE)
  BY <1>1
<1>3. ~(\E size \in 1 .. MAX_WRITE, fails \in Outcomes : WriteLargeFill(size, fails))
  BY <1>2 DEF WriteLargeFill
<1> QED BY <1>3 DEF WNext, WriteFits, WriteSpills, WriteLargeChunk, WriteLargeRest, Flush,
              DestroyFlush, DestroyEmpty, DestroyAcross, SourceReused, Crash, wvars

(***************************************************************************)
(* What LZ4OutputStream.h says of flush is true of programs whose writes   *)
(* fit a buffer, whatever the underlying stream does: no frame holds bytes *)
(* other than those that come next, the one a destructor flushes included. *)
(***************************************************************************)
THEOREM SmallWritesFollow ==
  ASSUME MAX_WRITE <= BUFFER_SIZE
  PROVE  WSpec => []FlushedDataFollows
<1>1. WInit => ~inLarge
  BY DEF WInit
<1>2. WInv /\ ~inLarge /\ [WNext]_wvars => ~inLarge'
  BY StepStaysSmall DEF WInv
<1>3. WInv /\ ~inLarge => FlushedDataFollows
  BY DEF WInv, FramesInOrder, Interrupted, FlushedDataFollows
<1> QED BY <1>1, <1>2, <1>3, WriterInvariant, PTL DEF WSpec

=============================================================================
