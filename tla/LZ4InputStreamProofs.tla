--------------------------- MODULE LZ4InputStreamProofs ---------------------------
(***************************************************************************)
(* Proofs about the file and the stream that reads it.  The layout of the  *)
(* file, of any number of frames, complete or torn: where each frame       *)
(* starts, which cell is where, and what the reader finds where it expects *)
(* the header of a frame.  The frames the input stream reads: where it     *)
(* stands in the file, what it has in its buffers there, and that a frame  *)
(* it takes for good is the next one and complete.                         *)
(***************************************************************************)
EXTENDS AUSABufFile, LZ4OutputStreamProofs, SequenceFacts

Cells == [kind : {"magic", "bufsize", "size", "hash", "data"}, id : Nat, k : Nat]

(* The fields of a cell. *)
LEMMA CellFields ==
  \A kind, id, k : /\ Reader!Cell(kind, id, k).kind = kind
                   /\ Reader!Cell(kind, id, k).id = id
                   /\ Reader!Cell(kind, id, k).k = k
  BY DEF Reader!Cell

(* What landed of each frame, and where it starts: the number of cells before it. *)
Landed == [id \in DOMAIN sink |-> SubSeq(Reader!FrameCells(id), 1, sink[id].landed)]
FrameStart(q) == HEADER_SIZE + Start(Landed, q)

FramesTyped == sink \in Seq(Frame) /\ stored \in Nat /\ FramesMade

(* The cells of one frame: size, hash, and the compressed bytes. *)
LEMMA FrameCellsAre ==
  ASSUME FramesTyped, NEW id \in 1 .. Len(sink)
  PROVE  /\ Reader!FrameCells(id) \in Seq(Cells)
         /\ Len(Reader!FrameCells(id)) = FRAME_HEADER_SIZE + sink[id].clen
         /\ Reader!FrameCells(id)[1] = Reader!Cell("size", id, 0)
         /\ Reader!FrameCells(id)[2] = Reader!Cell("hash", id, 0)
         /\ \A k \in 1 .. sink[id].clen :
              Reader!FrameCells(id)[k + 2] = Reader!Cell("data", id, k)
<1> DEFINE head == << Reader!Cell("size", id, 0), Reader!Cell("hash", id, 0) >>
           data == [k \in 1 .. sink[id].clen |-> Reader!Cell("data", id, k)]
<1>1. sink[id] \in Frame /\ id \in Nat
  BY DEF FramesTyped
<1>2. sink[id].clen \in Nat
  BY <1>1 DEF Frame
<1>3. /\ head \in Seq(Cells) /\ Len(head) = 2
      /\ head[1] = Reader!Cell("size", id, 0) /\ head[2] = Reader!Cell("hash", id, 0)
  BY <1>1 DEF Reader!Cell, Cells
<1>4. /\ data \in Seq(Cells) /\ Len(data) = sink[id].clen
      /\ \A k \in 1 .. sink[id].clen : data[k] = Reader!Cell("data", id, k)
  <2>1. \A k \in 1 .. sink[id].clen : Reader!Cell("data", id, k) \in Cells
    BY <1>1, <1>2 DEF Reader!Cell, Cells
  <2> QED BY <1>2, <2>1
<1>5. Reader!FrameCells(id) = head \o data
  BY DEF Reader!FrameCells
<1> HIDE DEF head, data
<1>6. PICK c : c = head \o data
  OBVIOUS
<1>7. /\ c \in Seq(Cells) /\ Len(c) = 2 + sink[id].clen
      /\ c[1] = head[1] /\ c[2] = head[2]
      /\ \A k \in 1 .. sink[id].clen : c[k + 2] = data[k]
  <2>1. /\ c \in Seq(Cells) /\ Len(c) = Len(head) + Len(data)
        /\ \A n \in 1 .. Len(head) : c[n] = head[n]
        /\ \A n \in 1 .. Len(data) : c[Len(head) + n] = data[n]
    <3>1. head \in Seq(Cells) /\ data \in Seq(Cells) /\ c = head \o data
      BY <1>3, <1>4, <1>6
    <3> QED BY ONLY <3>1, ConcatAt
  <2>2. \A k \in 1 .. sink[id].clen : Len(head) + k = k + 2
    BY <1>2, <1>3
  <2> QED BY <1>3, <1>4, <2>1, <2>2
<1> QED BY <1>3, <1>4, <1>5, <1>6, <1>7 DEF FRAME_HEADER_SIZE

(* What landed of a frame is the beginning of its cells. *)
LEMMA LandedIs ==
  ASSUME FramesTyped
  PROVE  /\ Landed \in Seq(Seq(Cells)) /\ Len(Landed) = Len(sink) /\ Len(sink) \in Nat
         /\ \A id \in 1 .. Len(sink) :
              /\ sink[id].landed \in Nat /\ Len(Landed[id]) = sink[id].landed
              /\ sink[id].landed <= FRAME_HEADER_SIZE + sink[id].clen
              /\ \A k \in 1 .. sink[id].landed : Landed[id][k] = Reader!FrameCells(id)[k]
<1>1. sink \in Seq(Frame) /\ Len(sink) \in Nat /\ DOMAIN sink = 1 .. Len(sink)
  BY DEF FramesTyped
<1>2. ASSUME NEW id \in 1 .. Len(sink)
      PROVE  /\ sink[id].landed \in Nat
             /\ sink[id].landed <= FRAME_HEADER_SIZE + sink[id].clen
             /\ SubSeq(Reader!FrameCells(id), 1, sink[id].landed) \in Seq(Cells)
             /\ Len(SubSeq(Reader!FrameCells(id), 1, sink[id].landed)) = sink[id].landed
             /\ \A k \in 1 .. sink[id].landed :
                  SubSeq(Reader!FrameCells(id), 1, sink[id].landed)[k] = Reader!FrameCells(id)[k]
  <2>1. sink[id] \in Frame
    BY <1>1
  <2>2. sink[id].landed \in Nat /\ sink[id].clen \in Nat
    BY <2>1 DEF Frame
  <2>3. sink[id].landed <= FRAME_HEADER_SIZE + sink[id].clen
    BY DEF FramesTyped, FramesMade, Made, FrameSize
  <2>4. PICK c, n : c = Reader!FrameCells(id) /\ n = sink[id].landed
    OBVIOUS
  <2>5. c \in Seq(Cells) /\ n \in Nat /\ n <= Len(c)
    BY <2>2, <2>3, <2>4, FrameCellsAre
  <2>6. /\ SubSeq(c, 1, n) \in Seq(Cells) /\ Len(SubSeq(c, 1, n)) = n
        /\ \A k \in 1 .. n : SubSeq(c, 1, n)[k] = c[k]
    BY <2>5
  <2> QED BY <2>2, <2>3, <2>4, <2>6
<1>3. Landed = [id \in 1 .. Len(sink) |-> SubSeq(Reader!FrameCells(id), 1, sink[id].landed)]
  BY <1>1 DEF Landed
<1>4. Landed \in Seq(Seq(Cells)) /\ Len(Landed) = Len(sink)
  BY <1>1, <1>2, <1>3
<1>5. \A id \in 1 .. Len(sink) : Landed[id] = SubSeq(Reader!FrameCells(id), 1, sink[id].landed)
  BY <1>3
<1> QED BY <1>1, <1>2, <1>4, <1>5

(* Frames follow each other without gaps, the first one behind the file header. *)
LEMMA FrameStarts ==
  ASSUME FramesTyped
  PROVE  /\ FrameStart(1) = HEADER_SIZE
         /\ \A q \in 1 .. Len(sink) + 1 : FrameStart(q) \in Nat /\ FrameStart(q) >= HEADER_SIZE
         /\ \A q \in 1 .. Len(sink) : FrameStart(q + 1) = FrameStart(q) + sink[q].landed
         /\ \A i, j \in 1 .. Len(sink) + 1 : i <= j => FrameStart(i) <= FrameStart(j)
<1>1. /\ Landed \in Seq(Seq(Cells)) /\ Len(Landed) = Len(sink) /\ Len(sink) \in Nat
      /\ \A id \in 1 .. Len(sink) : Len(Landed[id]) = sink[id].landed
  BY LandedIs
<1>2. Start(Landed, 1) = 0
  BY <1>1, StartFirst
<1>3. \A q \in 1 .. Len(sink) + 1 : Start(Landed, q) \in Nat
  BY <1>1, StartMonotone
<1>4. \A q \in 1 .. Len(sink) : Start(Landed, q + 1) = Start(Landed, q) + sink[q].landed
  BY <1>1, StartNext
<1>5. \A i, j \in 1 .. Len(sink) + 1 : i <= j => Start(Landed, i) <= Start(Landed, j)
  BY <1>1, StartMonotone
<1>6. \A q \in 1 .. Len(sink) : /\ Start(Landed, q) \in Nat /\ Start(Landed, q + 1) \in Nat
                                 /\ sink[q].landed \in Nat
  BY <1>1, <1>3, LandedIs
<1>7. ASSUME NEW q \in 1 .. Len(sink)
      PROVE  FrameStart(q + 1) = FrameStart(q) + sink[q].landed
  <2>1. PICK r : r = q + 1
    OBVIOUS
  <2>2. /\ Start(Landed, r) = Start(Landed, q) + sink[q].landed
        /\ Start(Landed, q) \in Nat /\ sink[q].landed \in Nat
    BY <1>4, <1>6, <2>1
  <2> QED BY <2>1, <2>2 DEF FrameStart, HEADER_SIZE
<1>8. \A i, j \in 1 .. Len(sink) + 1 : i <= j => FrameStart(i) <= FrameStart(j)
  BY <1>3, <1>5 DEF FrameStart, HEADER_SIZE
<1>9. \A q \in 1 .. Len(sink) + 1 : FrameStart(q) \in Nat /\ FrameStart(q) >= HEADER_SIZE
  BY <1>3 DEF FrameStart, HEADER_SIZE
<1>10. FrameStart(1) = HEADER_SIZE
  BY <1>2 DEF FrameStart, HEADER_SIZE
<1> QED BY <1>7, <1>8, <1>9, <1>10

(* The file is its header and the frames; every cell behind the header is a frame's. *)
LEMMA FileCells ==
  ASSUME FramesTyped
  PROVE  /\ Reader!Bytes \in Seq(Cells)
         /\ Len(Reader!Bytes) = FrameStart(Len(sink) + 1)
         /\ \A id \in 1 .. Len(sink) : \A k \in 1 .. sink[id].landed :
              /\ FrameStart(id) + k \in 1 .. Len(Reader!Bytes)
              /\ Reader!Bytes[FrameStart(id) + k] = Reader!FrameCells(id)[k]
         /\ \A n \in HEADER_SIZE + 1 .. Len(Reader!Bytes) :
              \E id \in 1 .. Len(sink) : \E k \in 1 .. sink[id].landed : n = FrameStart(id) + k
<1>1. /\ Landed \in Seq(Seq(Cells)) /\ Len(Landed) = Len(sink) /\ Len(sink) \in Nat
      /\ \A id \in 1 .. Len(sink) :
           /\ Len(Landed[id]) = sink[id].landed /\ sink[id].landed \in Nat
           /\ \A k \in 1 .. sink[id].landed : Landed[id][k] = Reader!FrameCells(id)[k]
  BY LandedIs
<1>2. Reader!FileHeader \in Seq(Cells) /\ Len(Reader!FileHeader) = 2
  BY DEF Reader!FileHeader, Reader!Cell, Cells
<1>3. PICK body : body = FlattenSeq(Landed)
  OBVIOUS
<1>4. body \in Seq(Cells) /\ Len(body) = Start(Landed, Len(sink) + 1)
  BY <1>1, <1>3, FlattenType, StartLast
<1>5. PICK head, all : head = Reader!FileHeader /\ all = head \o body
  OBVIOUS
<1>6. Reader!Bytes = all
  <2>1. Reader!FlattenSeq(Landed) = FlattenSeq(Landed)
    BY Zenon DEF Reader!FlattenSeq, FlattenSeq
  <2>2. Reader!Bytes = Reader!FileHeader \o Reader!FlattenSeq(Landed)
    BY Zenon DEF Reader!Bytes, Landed
  <2> QED BY <1>3, <1>5, <2>1, <2>2, Zenon
<1>7. /\ all \in Seq(Cells) /\ Len(all) = 2 + Len(body) /\ Len(body) \in Nat
      /\ \A n \in 1 .. Len(body) : 2 + n \in 1 .. Len(all) /\ all[2 + n] = body[n]
  <2>1. /\ all \in Seq(Cells) /\ Len(all) = Len(head) + Len(body) /\ Len(body) \in Nat
        /\ \A n \in 1 .. Len(body) : Len(head) + n \in 1 .. Len(all) /\ all[Len(head) + n] = body[n]
    <3>1. head \in Seq(Cells)
      BY <1>2, <1>5
    <3>2. all = head \o body
      BY <1>5
    <3>3. body \in Seq(Cells)
      BY <1>4
    <3> QED BY ONLY <3>1, <3>2, <3>3, ConcatAt
  <2>2. Len(head) = 2
    BY <1>2, <1>5
  <2> QED BY <2>1, <2>2
<1>8. Len(all) = FrameStart(Len(sink) + 1)
  BY <1>4, <1>7 DEF FrameStart, HEADER_SIZE
<1>9. ASSUME NEW id \in 1 .. Len(sink), NEW k \in 1 .. sink[id].landed
      PROVE  /\ FrameStart(id) + k \in 1 .. Len(all)
             /\ all[FrameStart(id) + k] = Reader!FrameCells(id)[k]
  <2>1. id \in 1 .. Len(Landed) /\ k \in 1 .. Len(Landed[id])
    BY <1>1
  <2>2. body[Start(Landed, id) + k] = Reader!FrameCells(id)[k]
    <3>1. FlattenSeq(Landed)[Start(Landed, id) + k] = Landed[id][k]
      BY <1>1, <2>1, FlattenAt
    <3> QED BY <1>1, <1>3, <3>1
  <2>3. Start(Landed, id) \in Nat /\ Start(Landed, id) + k \in 1 .. Len(body)
    <3>1. /\ Start(Landed, id) \in Nat /\ Start(Landed, id + 1) \in Nat
          /\ Start(Landed, id + 1) = Start(Landed, id) + sink[id].landed
      BY <1>1, <2>1, StartNext
    <3>2. id + 1 \in 1 .. Len(Landed) + 1 /\ Len(Landed) + 1 \in 1 .. Len(Landed) + 1
          /\ id + 1 <= Len(Landed) + 1
      BY <1>1
    <3>3. Start(Landed, id + 1) <= Start(Landed, Len(Landed) + 1)
      BY <1>1, <3>2, StartMonotone
    <3>4. PICK a, b, c : a = Start(Landed, id) /\ b = Start(Landed, id + 1) /\ c = Len(body)
      OBVIOUS
    <3>5. /\ a \in Nat /\ b \in Nat /\ c \in Nat /\ b = a + sink[id].landed
          /\ b <= c /\ sink[id].landed \in Nat
      BY <1>1, <1>4, <1>7, <3>1, <3>3, <3>4
    <3>6. a + k \in 1 .. c
      BY <3>5
    <3> QED BY <3>4, <3>5, <3>6
  <2>4. FrameStart(id) + k = 2 + (Start(Landed, id) + k)
    BY <2>3 DEF FrameStart, HEADER_SIZE
  <2> QED BY <1>7, <2>2, <2>3, <2>4
<1>10. ASSUME NEW n \in HEADER_SIZE + 1 .. Len(all)
       PROVE  \E id \in 1 .. Len(sink) : \E k \in 1 .. sink[id].landed : n = FrameStart(id) + k
  <2>1. n - 2 \in 1 .. Len(FlattenSeq(Landed))
    BY <1>3, <1>7 DEF HEADER_SIZE
  <2>2. PICK id \in 1 .. Len(Landed) :
          \E k \in 1 .. Len(Landed[id]) : n - 2 = Start(Landed, id) + k
    BY <1>1, <2>1, FlattenCovers
  <2>3. PICK k \in 1 .. Len(Landed[id]) : n - 2 = Start(Landed, id) + k
    BY <2>2
  <2>4. id \in 1 .. Len(sink) /\ k \in 1 .. sink[id].landed /\ Start(Landed, id) \in Nat
    BY <1>1, <2>2, <2>3, StartNext
  <2>5. n = FrameStart(id) + k
    <3>1. PICK a : a = Start(Landed, id)
      OBVIOUS
    <3>2. FrameStart(id) = 2 + a
      BY <3>1 DEF FrameStart, HEADER_SIZE
    <3>3. a \in Nat /\ n \in Int /\ k \in Int /\ n - 2 = a + k
      BY <2>3, <2>4, <3>1 DEF HEADER_SIZE
    <3>4. n = (2 + a) + k
      BY ONLY <3>3
    <3> QED BY <3>2, <3>4
  <2> QED BY <2>4, <2>5
<1> QED BY <1>6, <1>7, <1>8, <1>9, <1>10

(* Which cell is where: size and hash first, then the compressed bytes. *)
LEMMA CellIs ==
  ASSUME FramesTyped, NEW id \in 1 .. Len(sink), NEW k \in 1 .. sink[id].landed
  PROVE  /\ FrameStart(id) + k \in 1 .. Len(Reader!Bytes)
         /\ Reader!Bytes[FrameStart(id) + k] =
              IF k = 1 THEN Reader!Cell("size", id, 0)
              ELSE IF k = 2 THEN Reader!Cell("hash", id, 0)
              ELSE Reader!Cell("data", id, k - 2)
<1>1. /\ FrameStart(id) + k \in 1 .. Len(Reader!Bytes)
      /\ Reader!Bytes[FrameStart(id) + k] = Reader!FrameCells(id)[k]
  BY FileCells
<1>2. sink[id].landed \in Nat /\ sink[id].landed <= FRAME_HEADER_SIZE + sink[id].clen
  BY LandedIs
<1>3. sink[id].clen \in Nat
  <2>1. sink[id] \in Frame
    BY DEF FramesTyped
  <2> QED BY <2>1 DEF Frame
<1>4. CASE k = 1
  BY <1>1, <1>4, FrameCellsAre
<1>5. CASE k = 2
  BY <1>1, <1>5, FrameCellsAre
<1>6. CASE k # 1 /\ k # 2
  <2>1. PICK m \in 1 .. sink[id].clen : m = k - 2 /\ m + 2 = k
    BY <1>2, <1>3, <1>6 DEF FRAME_HEADER_SIZE
  <2>2. Reader!FrameCells(id)[m + 2] = Reader!Cell("data", id, m)
    BY <2>1, FrameCellsAre
  <2> QED BY <1>1, <1>6, <2>1, <2>2
<1> QED BY <1>1, <1>4, <1>5, <1>6

(* Every cell behind the file header says whose it is. *)
LEMMA CellIsSomeones ==
  ASSUME FramesTyped, NEW n \in HEADER_SIZE + 1 .. Len(Reader!Bytes)
  PROVE  \E id \in 1 .. Len(sink) : \E k \in 1 .. sink[id].landed :
           /\ n = FrameStart(id) + k
           /\ Reader!Bytes[n].id = id
           /\ Reader!Bytes[n].kind = IF k = 1 THEN "size" ELSE IF k = 2 THEN "hash" ELSE "data"
<1>1. PICK id \in 1 .. Len(sink) : \E k \in 1 .. sink[id].landed : n = FrameStart(id) + k
  BY FileCells
<1>2. PICK k \in 1 .. sink[id].landed : n = FrameStart(id) + k
  BY <1>1
<1>3. Reader!Bytes[n] = IF k = 1 THEN Reader!Cell("size", id, 0)
                        ELSE IF k = 2 THEN Reader!Cell("hash", id, 0)
                        ELSE Reader!Cell("data", id, k - 2)
  BY <1>2, CellIs
<1>4. /\ Reader!Bytes[n].id = id
      /\ Reader!Bytes[n].kind = IF k = 1 THEN "size" ELSE IF k = 2 THEN "hash" ELSE "data"
  BY <1>3 DEF Reader!Cell
<1> QED BY <1>2, <1>4

(* r is the first frame from q on of which something landed: its header is what follows. *)
HeaderOf(q, r) ==
  /\ sink[r].landed > 0 /\ \A i \in q .. r - 1 : sink[i].landed = 0
  /\ FrameStart(r) = FrameStart(q)
  /\ Reader!Bytes[FrameStart(q) + 1] = Reader!Cell("size", r, 0)
  /\ sink[r].landed >= 2 => Reader!Bytes[FrameStart(q) + 2] = Reader!Cell("hash", r, 0)

(***************************************************************************)
(* Where the frames before q end, the next cells of the file, if there are *)
(* any, are the header of the first frame from q on that landed in part.   *)
(***************************************************************************)
LEMMA SizeFound ==
  ASSUME FramesTyped, NEW q \in 1 .. Len(sink) + 1, FrameStart(q) < Len(Reader!Bytes)
  PROVE  \E r \in q .. Len(sink) : HeaderOf(q, r)
<1>0. /\ Len(sink) \in Nat
      /\ FrameStart(q) \in Nat /\ FrameStart(q) >= HEADER_SIZE /\ HEADER_SIZE \in Nat
      /\ Len(Reader!Bytes) = FrameStart(Len(sink) + 1) /\ Len(Reader!Bytes) \in Nat
  BY FrameStarts, FileCells, LandedIs DEF HEADER_SIZE
<1>1. PICK n \in HEADER_SIZE + 1 .. Len(Reader!Bytes) : n = FrameStart(q) + 1
  BY <1>0
<1>2. PICK r \in 1 .. Len(sink) : \E k \in 1 .. sink[r].landed : n = FrameStart(r) + k
  BY FileCells
<1>3. PICK k \in 1 .. sink[r].landed : n = FrameStart(r) + k
  BY <1>2
<1>4. /\ FrameStart(r) \in Nat /\ FrameStart(r + 1) \in Nat /\ sink[r].landed \in Nat
      /\ FrameStart(r + 1) = FrameStart(r) + sink[r].landed
  <2>1. r \in 1 .. Len(sink) + 1 /\ r + 1 \in 1 .. Len(sink) + 1
    BY <1>0
  <2> QED BY <2>1, FrameStarts, LandedIs
<1>5. r >= q
  <2> SUFFICES ASSUME r < q PROVE FALSE
    BY <1>0
  <2>1. r + 1 \in 1 .. Len(sink) + 1 /\ r + 1 <= q
    BY <1>0
  <2>2. FrameStart(r + 1) <= FrameStart(q)
    BY <2>1, FrameStarts
  <2>3. PICK a, b, d, m : /\ a = FrameStart(q) /\ b = FrameStart(r) /\ d = FrameStart(r + 1)
                          /\ m = sink[r].landed
    OBVIOUS
  <2>4. /\ a \in Nat /\ b \in Nat /\ m \in Nat /\ d = b + m /\ d <= a
        /\ n = a + 1 /\ n = b + k /\ k \in 1 .. m
    BY <1>0, <1>1, <1>3, <1>4, <2>2, <2>3
  <2> QED BY ONLY <2>4
<1>6. FrameStart(r) = FrameStart(q) /\ k = 1
  <2>1. r \in 1 .. Len(sink) + 1 /\ q <= r
    BY <1>0, <1>5
  <2>2. FrameStart(q) <= FrameStart(r)
    BY <2>1, FrameStarts
  <2>3. PICK a, b : a = FrameStart(q) /\ b = FrameStart(r)
    OBVIOUS
  <2>4. a \in Nat /\ b \in Nat /\ a <= b /\ n = a + 1 /\ n = b + k /\ k \in Nat /\ k >= 1
    BY <1>0, <1>1, <1>3, <1>4, <2>2, <2>3
  <2>5. b = a /\ k = 1
    BY ONLY <2>4
  <2> QED BY <2>3, <2>5
<1>7. ASSUME NEW i \in q .. r - 1 PROVE sink[i].landed = 0
  <2>1. /\ i \in 1 .. Len(sink) /\ i \in 1 .. Len(sink) + 1 /\ i + 1 \in 1 .. Len(sink) + 1
        /\ r \in 1 .. Len(sink) + 1 /\ q <= i /\ i + 1 <= r
    BY <1>0
  <2>2. FrameStart(q) <= FrameStart(i) /\ FrameStart(i + 1) <= FrameStart(r)
    BY <2>1, FrameStarts
  <2>3. /\ FrameStart(i + 1) = FrameStart(i) + sink[i].landed
        /\ FrameStart(i) \in Nat /\ FrameStart(i + 1) \in Nat /\ sink[i].landed \in Nat
    BY <2>1, FrameStarts, LandedIs
  <2>4. PICK a, b, d, m : /\ a = FrameStart(q) /\ b = FrameStart(i) /\ d = FrameStart(i + 1)
                          /\ m = sink[i].landed
    OBVIOUS
  <2>5. a \in Nat /\ b \in Nat /\ m \in Nat /\ d = b + m /\ a <= b /\ d <= a
    BY <1>0, <1>6, <2>2, <2>3, <2>4
  <2>6. m = 0
    BY ONLY <2>5
  <2> QED BY <2>4, <2>6
<1>8. Reader!Bytes[FrameStart(q) + 1] = Reader!Cell("size", r, 0)
  BY <1>1, <1>3, <1>6, CellIs
<1>9. sink[r].landed >= 2 => Reader!Bytes[FrameStart(q) + 2] = Reader!Cell("hash", r, 0)
  <2>1. sink[r].landed >= 2 => 2 \in 1 .. sink[r].landed
    BY <1>4
  <2> QED BY <1>6, <2>1, CellIs
<1>10. HeaderOf(q, r)
  BY <1>3, <1>4, <1>6, <1>7, <1>8, <1>9 DEF HeaderOf
<1> QED BY <1>0, <1>5, <1>10

(* Behind a size whose hash did not land is the size of another frame. *)
LEMMA HashMissing ==
  ASSUME FramesTyped, NEW q \in 1 .. Len(sink) + 1, NEW r \in q .. Len(sink), HeaderOf(q, r),
         sink[r].landed < 2, FrameStart(q) + 2 <= Len(Reader!Bytes)
  PROVE  Reader!Bytes[FrameStart(q) + 2].kind = "size"
<1>0. /\ Len(sink) \in Nat /\ r \in 1 .. Len(sink) /\ r + 1 \in 1 .. Len(sink) + 1
      /\ FrameStart(q) \in Nat /\ Len(Reader!Bytes) \in Nat
      /\ sink[r].landed \in Nat
  <2>1. Len(sink) \in Nat
    BY LandedIs
  <2>2. r \in 1 .. Len(sink)
    BY <2>1
  <2> QED BY <2>1, <2>2, FrameStarts, FileCells, LandedIs
<1>1. FrameStart(r + 1) = FrameStart(q) + 1
  BY <1>0, FrameStarts DEF HeaderOf
<1>2. FrameStart(r + 1) < Len(Reader!Bytes)
  BY <1>0, <1>1
<1>3. PICK t \in r + 1 .. Len(sink) : HeaderOf(r + 1, t)
  BY <1>0, <1>2, SizeFound
<1>4. FrameStart(r + 1) + 1 = FrameStart(q) + 2
  BY <1>0, <1>1
<1>5. Reader!Bytes[FrameStart(q) + 2] = Reader!Cell("size", t, 0)
  BY <1>3, <1>4 DEF HeaderOf
<1> QED BY <1>5 DEF Reader!Cell

(* What landed of frame i is behind where the frames before q end, if q is no later. *)
LEMMA FrameFits ==
  ASSUME FramesTyped, NEW q \in 1 .. Len(sink) + 1, NEW i \in q .. Len(sink)
  PROVE  /\ FrameStart(q) \in Nat /\ sink[i].landed \in Nat /\ Len(Reader!Bytes) \in Nat
         /\ FrameStart(q) + sink[i].landed <= Len(Reader!Bytes)
<1>1. Len(sink) \in Nat
  BY LandedIs
<1>2. /\ i \in 1 .. Len(sink) /\ i \in 1 .. Len(sink) + 1 /\ i + 1 \in 1 .. Len(sink) + 1
      /\ q <= i /\ i + 1 <= Len(sink) + 1 /\ Len(sink) + 1 \in 1 .. Len(sink) + 1
  BY <1>1
<1>3. PICK a, b, c, l : /\ a = FrameStart(q) /\ b = FrameStart(i) /\ c = FrameStart(i + 1)
                        /\ l = Len(Reader!Bytes)
  OBVIOUS
<1>4. /\ a \in Nat /\ b \in Nat /\ c \in Nat /\ a <= b /\ c <= l
      /\ c = b + sink[i].landed /\ l = FrameStart(Len(sink) + 1)
  BY <1>2, <1>3, FrameStarts, FileCells
<1>5. sink[i].landed \in Nat
  BY <1>2, LandedIs
<1>6. l \in Nat
  BY <1>2, <1>4, FrameStarts
<1>7. a + sink[i].landed <= l
  BY ONLY <1>4, <1>5, <1>6
<1> QED BY <1>3, <1>4, <1>5, <1>6, <1>7, Zenon

(* After counts bytes. *)
LEMMA AfterTypes ==
  ASSUME FramesTyped, NEW q \in 1 .. Len(sink) + 1
  PROVE  After(q) \in Nat
<1>1. CASE q <= Len(sink)
  <2>1. sink[q] \in Frame
    BY <1>1 DEF FramesTyped
  <2> QED BY <1>1, <2>1 DEF After, Frame
<1>2. CASE ~(q <= Len(sink))
  BY <1>2 DEF After, FramesTyped
<1> QED BY <1>1, <1>2

(* Frames that are not complete add nothing to the bytes stored. *)
LEMMA AfterSkips ==
  ASSUME FramesTyped, FramesChained,
         NEW q \in 1 .. Len(sink) + 1, NEW r \in q .. Len(sink) + 1,
         \A i \in q .. r - 1 : ~Complete(sink[i])
  PROVE  After(r) = After(q)
<1>0. Len(sink) \in Nat
  BY LandedIs
<1> DEFINE S == {d \in Nat : q + d <= r => After(q + d) = After(q)}
<1>1. 0 \in S
  BY <1>0
<1>2. ASSUME NEW d \in 0 .. (r - q) - 1, d \in S PROVE d + 1 \in S
  <2>1. PICK i \in q .. r - 1 : i = q + d
    BY <1>0
  <2>2. /\ i \in 1 .. Len(sink) /\ i \in 1 .. Len(sink) + 1 /\ i + 1 = q + (d + 1)
        /\ q + d <= r /\ d \in Nat
    BY <1>0, <2>1
  <2>3. After(i) = After(q)
    BY <1>2, <2>1, <2>2
  <2>4. After(i + 1) = EndOf(sink[i]) /\ After(i) = sink[i].after
    BY <1>0, <2>2 DEF FramesChained, After
  <2>5. EndOf(sink[i]) = sink[i].after + 0 /\ After(i) \in Nat
    BY <2>2, AfterTypes DEF EndOf
  <2> QED BY <2>2, <2>3, <2>4, <2>5
<1>3. r - q \in Nat /\ r - q \in 0 .. r - q
  BY <1>0
<1>4. PICK d \in S : d = r - q
  <2>1. \A d \in 0 .. r - q : d \in S
    <3> HIDE DEF S
    <3> QED BY <1>1, <1>2, <1>3, InductionUpTo
  <2> HIDE DEF S
  <2> QED BY <1>3, <2>1
<1>5. q + d = r
  BY <1>0, <1>4
<1> QED BY <1>4, <1>5

-----------------------------------------------------------------------------
(***************************************************************************)
(* How far the reader has come.  q is the frame it reads next; every frame *)
(* before it is complete or left no cell.                                  *)
(***************************************************************************)
Passed(q) == \A i \in 1 .. q - 1 : Complete(sink[i]) \/ sink[i].landed = 0

(* The header of frame q has been read and filePos is behind it. *)
AtFrame(q) ==
  /\ q <= Len(sink) /\ sink[q].landed >= 2
  /\ nextFrameSize = sink[q].clen
  /\ lastHash = Reader!Cell("hash", q, 0)
  /\ filePos = FrameStart(q) + 2

(* readCompressed returns 0, and no complete frame is left. *)
NoMore(q) == nextFrameSize = 0 /\ \A i \in q .. Len(sink) : ~Complete(sink[i])

(* What stands for the next hash is none: the next frame will be refused. *)
Doomed == nextFrameSize # 0 /\ lastHash.kind # "hash" /\ (AllComplete => sink = << >>)

Stage(q) == AtFrame(q) \/ NoMore(q) \/ Doomed

(* Every byte of the complete frames before q is delivered or in the buffer, *)
Counted(q) == Len(delivered) + Reader!InBuffer = After(q)

(* and is the byte that was written there; *)
InOrder(q) ==
  ~Interrupted =>
    /\ \A n \in 1 .. Len(delivered) : delivered[n] = n
    /\ \A j \in 0 .. Reader!InBuffer - 1 : decompressed[avail.from + j] = Len(delivered) + 1 + j
    /\ \A i \in 0 .. prefixSize - 1 : decompressed[i] = After(q) - prefixSize + 1 + i

(* the dictionary is the block decoded last; *)
Dictionaried(q) ==
  AllComplete => prefixSize = IF q = 1 THEN 0 ELSE Len(sink[q - 1].plain)

(***************************************************************************)
(* what compressedBuffer still holds of payloads belongs to frames before  *)
(* q, and what it begins with to the last complete one of them.            *)
(***************************************************************************)
Leftovers(q) ==
  /\ \A i \in 0 .. BUFFER_SIZE - 1 : compressed[i].kind = "data" => compressed[i].id \in 1 .. q - 1
  /\ compressed[0].kind = "data" =>
       /\ Complete(sink[compressed[0].id])
       /\ After(q) = sink[compressed[0].id].after + Len(sink[compressed[0].id].plain)

Progress(q) ==
  /\ q \in 1 .. Len(sink) + 1
  /\ Passed(q)
  /\ Stage(q)
  /\ Counted(q)
  /\ InOrder(q)
  /\ Dictionaried(q)
  /\ Leftovers(q)

ReaderInv ==
  \/ Reader!RInit
  \/ /\ rstatus # "new" /\ Written
     /\ file = Reader!Bytes
     /\ \E q \in 1 .. Len(sink) + 1 : Progress(q)

(* The types of what the reader works with, whatever it was asked for. *)
ReaderShape ==
  /\ filePos \in 0 .. Len(file)
  /\ file \in Seq(Cells)
  /\ nextFrameSize \in Nat
  /\ DOMAIN compressed = 0 .. BUFFER_SIZE - 1
  /\ decompressed \in [0 .. Reader!DecompressedCapacity - 1 -> Nat]
  /\ prefixSize \in 0 .. Reader!DecompressedCapacity
  /\ avail \in [from : 0 .. Reader!DecompressedCapacity, to : 0 .. Reader!DecompressedCapacity]
  /\ avail.from <= avail.to
  /\ delivered \in Seq(Nat)

(* Before the file is read, and while it is. *)
WriterFacts == WInv /\ FrameInv

Reading(q) ==
  /\ WriterFacts /\ ReaderShape
  /\ file = Reader!Bytes
  /\ Progress(q)

-----------------------------------------------------------------------------
(* Every frame in the sink, and what is in it, by type. *)
LEMMA FactsType ==
  ASSUME WriterFacts
  PROVE  /\ FramesTyped /\ Len(sink) \in Nat /\ DOMAIN sink = 1 .. Len(sink)
         /\ \A i \in 1 .. Len(sink) :
              /\ sink[i] \in Frame
              /\ sink[i].clen \in Nat /\ sink[i].clen >= 1
              /\ sink[i].landed \in Nat /\ sink[i].landed <= 2 + sink[i].clen
              /\ Complete(sink[i]) <=> sink[i].landed = 2 + sink[i].clen
              /\ Complete(sink[i]) => sink[i].landed >= 3
              /\ sink[i].plain \in Seq(Nat) /\ Len(sink[i].plain) \in Nat
              /\ Len(sink[i].plain) >= 1
              /\ sink[i].sees \in Seq(Nat)
              /\ sink[i].after \in Nat /\ After(i) = sink[i].after
<1>1. FramesTyped /\ Len(sink) \in Nat /\ DOMAIN sink = 1 .. Len(sink)
  BY DEF WriterFacts, WInv, TypeOK, FrameInv, FramesTyped
<1>2. ASSUME NEW i \in 1 .. Len(sink)
      PROVE  /\ sink[i] \in Frame
             /\ sink[i].clen \in Nat /\ sink[i].clen >= 1
             /\ sink[i].landed \in Nat /\ sink[i].landed <= 2 + sink[i].clen
             /\ Complete(sink[i]) <=> sink[i].landed = 2 + sink[i].clen
             /\ Complete(sink[i]) => sink[i].landed >= 3
             /\ sink[i].plain \in Seq(Nat) /\ Len(sink[i].plain) \in Nat
             /\ Len(sink[i].plain) >= 1
             /\ sink[i].sees \in Seq(Nat)
             /\ sink[i].after \in Nat /\ After(i) = sink[i].after
  <2>1. sink[i] \in Frame /\ Made(sink[i])
    BY <1>1 DEF FramesTyped, FramesMade
  <2>2. After(i) = sink[i].after
    BY <1>1 DEF After
  <2> QED BY <2>1, <2>2, FormatAssumption, LenProperties
          DEF Frame, Made, Complete, FrameSize, FRAME_HEADER_SIZE
<1> QED BY <1>1, <1>2

(* A frame that holds the bytes of a complete frame before it cannot be the next one. *)
LEMMA NoRepeat ==
  ASSUME WriterFacts, NEW q \in 1 .. Len(sink), NEW id \in 1 .. q - 1,
         After(q) = sink[id].after + Len(sink[id].plain),
         sink[q].plain = sink[id].plain
  PROVE  FALSE
<1>1. id \in 1 .. Len(sink) /\ id # Len(sink)
  <2>1. Len(sink) \in Nat
    BY FactsType
  <2> QED BY <2>1
<1>2. InPlace(sink[id])
  BY <1>1 DEF WriterFacts, FrameInv, FramesPlaced
<1>3. PICK p, a, b, n : p = sink[id].plain /\ a = sink[id].after /\ b = sink[q].after /\ n = Len(p)
  OBVIOUS
<1>4. /\ p \in Seq(Nat) /\ n \in Nat /\ n >= 1 /\ a \in Nat /\ b \in Nat
      /\ b = a + n /\ n <= BUFFER_SIZE
      /\ \A k \in 1 .. n : p[k] = a + k
  BY <1>1, <1>2, <1>3, FactsType DEF InPlace, FollowsOn
<1>5. p[1] = a + 1 /\ p[n] = a + n
  <2>1. 1 \in 1 .. n /\ n \in 1 .. n
    BY <1>4
  <2>2. \A k \in 1 .. n : p[k] = a + k
    BY <1>4
  <2> QED BY ONLY <2>1, <2>2
<1>6. InPlace(sink[q]) \/ OutOfPlace(sink[q])
  BY DEF WriterFacts, FrameInv, FramesPlaced
<1>7. CASE InPlace(sink[q])
  <2>1. p[1] = b + 1
    BY <1>3, <1>4, <1>7 DEF InPlace, FollowsOn
  <2> QED BY <1>4, <1>5, <2>1
<1>8. CASE OutOfPlace(sink[q])
  <2>1. p[n] = 0 \/ p[1] + BUFFER_SIZE <= b
    BY <1>3, <1>8 DEF OutOfPlace
  <2> QED BY <1>4, <1>5, <2>1, FormatAssumption
<1> QED BY <1>6, <1>7, <1>8

(* What landing means in cells of the file. *)
LEMMA LandingIs ==
  ASSUME WriterFacts, ReaderShape, NEW n \in Nat
  PROVE  /\ Reader!Landing(n) \in 0 .. n
         /\ filePos + Reader!Landing(n) \in 0 .. Len(file)
         /\ filePos \in Nat /\ Len(file) \in Nat
         /\ filePos + n <= Len(file) => Reader!Landing(n) = n
         /\ Reader!Landing(n) < n => filePos + Reader!Landing(n) = Len(file)
         /\ \A i \in 0 .. BUFFER_SIZE - 1 :
              Reader!Received(n)[i] = IF i < Reader!Landing(n) THEN file[filePos + i + 1]
                                      ELSE compressed[i]
         /\ DOMAIN Reader!Received(n) = 0 .. BUFFER_SIZE - 1
<1>1. filePos \in 0 .. Len(file) /\ Len(file) \in Nat
  BY DEF ReaderShape
<1>2. \A i \in 0 .. BUFFER_SIZE - 1 :
              Reader!Received(n)[i] = IF i < Reader!Landing(n) THEN file[filePos + i + 1]
                                      ELSE compressed[i]
  BY DEF Reader!Received, Reader!CompressedCapacity
<1>3. DOMAIN Reader!Received(n) = 0 .. BUFFER_SIZE - 1
  BY DEF Reader!Received, Reader!CompressedCapacity
<1>4. Reader!Landing(n) = IF n <= Len(file) - filePos THEN n ELSE Len(file) - filePos
  BY DEF Reader!Landing, Reader!AtMost
<1> QED BY <1>1, <1>2, <1>3, <1>4

(***************************************************************************)
(* A frame that decodes and whose hash is right is the next one, and it    *)
(* is complete: torn frames, and frames whose payload is what was left in  *)
(* the buffer by another, are refused.                                     *)
(***************************************************************************)
LEMMA GoodIsNext ==
  ASSUME NEW q, Reading(q), ~Reader!AtEnd, ~Reader!Overruns,
         NEW id \in DOMAIN sink, Reader!GoodFrame(id)
  PROVE  AtFrame(q) /\ id = q /\ Complete(sink[q]) /\ nextFrameSize <= BUFFER_SIZE
<1>1. /\ WriterFacts /\ ReaderShape /\ file = Reader!Bytes
      /\ Stage(q) /\ Leftovers(q) /\ q \in 1 .. Len(sink) + 1
      /\ FramesTyped /\ Len(sink) \in Nat /\ DOMAIN sink = 1 .. Len(sink)
  BY FactsType DEF Reading, Progress
<1>2. /\ lastHash.kind = "hash" /\ nextFrameSize # 0
      /\ sink[lastHash.id].plain = sink[id].plain
  BY DEF Reader!GoodFrame, Reader!AtEnd
<1>3. AtFrame(q)
  BY <1>1, <1>2 DEF Stage, NoMore, Doomed
<1>4. /\ q \in 1 .. Len(sink) /\ nextFrameSize = sink[q].clen
      /\ lastHash.id = q /\ filePos = FrameStart(q) + 2 /\ sink[q].landed >= 2
      /\ q + 1 \in 1 .. Len(sink) + 1
  BY <1>1, <1>3 DEF AtFrame, Reader!Cell
<1> DEFINE c == sink[q].clen
           n == c + 2
           buffer == Reader!Received(n)
<1>5. /\ c \in Nat /\ c >= 1 /\ n \in Nat /\ BUFFER_SIZE \in Nat
      /\ sink[q].landed \in Nat /\ sink[q].landed <= n
      /\ Complete(sink[q]) <=> sink[q].landed = n
  <2>1. BUFFER_SIZE \in Nat
    BY FormatAssumption
  <2>2. /\ c \in Nat /\ c >= 1
        /\ sink[q].landed \in Nat /\ sink[q].landed <= 2 + c
        /\ Complete(sink[q]) <=> sink[q].landed = 2 + c
    BY <1>1, <1>4, FactsType
  <2> HIDE DEF c
  <2>4. 2 + c = c + 2 /\ c + 2 \in Nat
    BY <2>2
  <2> QED BY <2>1, <2>2, <2>4
(* A frame that is longer than compressedBuffer does not end in it. *)
<1>6. /\ c <= BUFFER_SIZE
      /\ \A i \in 0 .. c - 1 : /\ i \in 0 .. BUFFER_SIZE - 1
                              /\ buffer[i].kind = "data" /\ buffer[i].id = id
  <2>1. nextFrameSize + Reader!FRAME_HEADER_SIZE = n
    BY <1>4 DEF Reader!FRAME_HEADER_SIZE
  <2>2. Reader!IsFrame(buffer, id, c)
    BY <1>4, <2>1 DEF Reader!GoodFrame
  <2> HIDE DEF buffer
  <2>3. \A i \in 0 .. c - 1 : Reader!CellAt(buffer, i) = Reader!Cell("data", id, i + 1)
    BY <2>2 DEF Reader!IsFrame
  <2>4. \A k : Reader!Cell("data", id, k).kind = "data" /\ Reader!Cell("data", id, k).id = id
    BY DEF Reader!Cell
  <2>5. Reader!CellAt(buffer, BUFFER_SIZE).kind = "stale"
    BY <1>5 DEF Reader!CellAt, Reader!CompressedCapacity, Reader!StaleCell, Reader!Cell
  <2>6. \A i \in 0 .. BUFFER_SIZE - 1 : Reader!CellAt(buffer, i) = buffer[i]
    BY <1>5 DEF Reader!CellAt, Reader!CompressedCapacity
  <2> HIDE DEF c
  <2>7. c <= BUFFER_SIZE
    <3> SUFFICES ASSUME ~(c <= BUFFER_SIZE) PROVE FALSE
      OBVIOUS
    <3>1. BUFFER_SIZE \in 0 .. c - 1
      BY <1>5
    <3> QED BY <2>3, <2>4, <2>5, <3>1
  <2>8. \A i \in 0 .. c - 1 : i \in 0 .. BUFFER_SIZE - 1
    BY <1>5, <2>7
  <2> QED BY <2>3, <2>4, <2>6, <2>7, <2>8, Zenon
<1>7. /\ FrameStart(q) \in Nat /\ FrameStart(q + 1) \in Nat
      /\ FrameStart(q + 1) = FrameStart(q) + sink[q].landed
      /\ FrameStart(q + 1) <= Len(file) /\ Len(file) \in Nat
  <2>1. Len(sink) + 1 \in 1 .. Len(sink) + 1 /\ q + 1 <= Len(sink) + 1
    BY <1>1, <1>4
  <2>2. FrameStart(q + 1) <= FrameStart(Len(sink) + 1) /\ Len(file) = FrameStart(Len(sink) + 1)
    BY <1>1, <1>4, <2>1, FrameStarts, FileCells
  <2> QED BY <1>1, <1>4, <2>1, <2>2, FrameStarts
<1>8. /\ Reader!Landing(n) \in 0 .. n
      /\ filePos \in Nat /\ filePos + Reader!Landing(n) \in 0 .. Len(file)
      /\ Reader!Landing(n) < n => filePos + Reader!Landing(n) = Len(file)
      /\ \A i \in 0 .. BUFFER_SIZE - 1 :
           buffer[i] = IF i < Reader!Landing(n) THEN file[filePos + i + 1] ELSE compressed[i]
  BY <1>1, <1>5, LandingIs
<1> HIDE DEF n, buffer, c
<1>9. PICK at : at = sink[q].landed - 2 /\ at \in Nat /\ filePos + at = FrameStart(q + 1)
  <2>1. PICK l, s, t : l = sink[q].landed /\ s = FrameStart(q) /\ t = FrameStart(q + 1)
    OBVIOUS
  <2>2. l \in Nat /\ l >= 2 /\ s \in Nat /\ t = s + l /\ filePos = s + 2
    BY <1>4, <1>5, <1>7, <2>1
  <2>3. l - 2 \in Nat /\ filePos + (l - 2) = t
    BY <2>2
  <2> QED BY <2>1, <2>3
(* The first cell behind what landed of frame q is no payload. *)
<1>10. at < Reader!Landing(n) /\ at \in 0 .. c - 1 => FALSE
  <2> SUFFICES ASSUME at < Reader!Landing(n), at \in 0 .. c - 1 PROVE FALSE
    OBVIOUS
  <2>1. FrameStart(q + 1) < Len(file)
    <3>1. PICK t, l : t = FrameStart(q + 1) /\ l = Reader!Landing(n)
      OBVIOUS
    <3>2. at < l /\ l \in 0 .. n /\ n \in Nat /\ filePos + l \in 0 .. Len(file)
      BY <1>5, <1>8, <3>1
    <3>3. t < Len(file)
      BY <1>7, <1>8, <1>9, <3>1, <3>2
    <3> QED BY <3>1, <3>3
  <2>2. PICK r \in q + 1 .. Len(sink) : HeaderOf(q + 1, r)
    BY <1>1, <1>4, <2>1, SizeFound
  <2>3. file[filePos + at + 1].kind = "size"
    BY <1>1, <1>9, <2>2 DEF HeaderOf, Reader!Cell
  <2>4. at \in 0 .. BUFFER_SIZE - 1
    BY <1>6
  <2>5. buffer[at] = file[filePos + at + 1]
    BY <1>8, <2>4
  <2> QED BY <1>6, <2>3, <2>5
<1>11. id = q
  <2>0. 0 \in 0 .. c - 1 /\ 0 \in 0 .. BUFFER_SIZE - 1
    BY <1>5, <1>6
  <2>1. CASE 0 < Reader!Landing(n)
    <3>1. at # 0
      BY <1>10, <2>0, <2>1
    <3>2. 3 \in 1 .. sink[q].landed
      BY <1>5, <1>9, <3>1
    <3>3. file[FrameStart(q) + 3] = Reader!Cell("data", q, 3 - 2)
      BY <1>1, <1>4, <3>2, CellIs
    <3>4. filePos + 0 + 1 = FrameStart(q) + 3
      BY <1>4, <1>7
    <3>5. buffer[0] = Reader!Cell("data", q, 3 - 2)
      BY <1>8, <2>0, <2>1, <3>3, <3>4
    <3> QED BY <1>6, <2>0, <3>5 DEF Reader!Cell
  <2>2. CASE ~(0 < Reader!Landing(n))
    <3>1. buffer[0] = compressed[0]
      BY <1>8, <2>0, <2>2
    <3>2. compressed[0].kind = "data" /\ compressed[0].id = id
      BY <1>6, <2>0, <3>1
    <3>3. id \in 1 .. q - 1 /\ After(q) = sink[id].after + Len(sink[id].plain)
      BY <1>1, <2>0, <3>2 DEF Leftovers
    <3> QED BY <1>1, <1>2, <1>4, <3>3, NoRepeat
  <2> QED BY <2>1, <2>2
<1>12. Complete(sink[q])
  <2> SUFFICES ASSUME sink[q].landed # n PROVE FALSE
    BY <1>5
  <2>1. at \in 0 .. c - 1 /\ at \in 0 .. BUFFER_SIZE - 1
    BY <1>5, <1>6, <1>9 DEF n
  <2>2. buffer[at] = compressed[at]
    BY <1>8, <1>10, <2>1
  <2>3. compressed[at].id \in 1 .. q - 1
    BY <1>1, <1>6, <2>1, <2>2 DEF Leftovers
  <2> QED BY <1>4, <1>6, <1>11, <2>1, <2>2, <2>3
<1> QED BY <1>3, <1>4, <1>6, <1>11, <1>12 DEF c

(***************************************************************************)
(* What readCompressed receives of a complete frame: all its payload, and  *)
(* the header of the frame r to be read next, unless the file ends.        *)
(***************************************************************************)
Follows(q, r, n, buffer) ==
  /\ r \in q + 1 .. Len(sink) + 1
  /\ Passed(r) /\ (AllComplete => r = q + 1)
  /\ After(r) = After(q) + Len(sink[q].plain)
  /\ \A i \in 0 .. BUFFER_SIZE - 1 : buffer[i].kind = "data" => buffer[i].id \in 1 .. r - 1
  /\ Reader!Landing(n) = n =>
       /\ r <= Len(sink) /\ filePos + n = FrameStart(r) + 2
       /\ buffer[n - 2] = Reader!Cell("size", r, 0)
       /\ IF sink[r].landed >= 2 THEN buffer[n - 1] = Reader!Cell("hash", r, 0)
                                 ELSE buffer[n - 1].kind = "size"
  /\ Reader!Landing(n) # n => \A i \in r .. Len(sink) : ~Complete(sink[i])

(* A complete frame that is read arrives whole, and the header of the next one with it. *)
LEMMA FrameArrives ==
  ASSUME NEW q, Reading(q), AtFrame(q), Complete(sink[q]),
         NEW n, n = nextFrameSize + 2,
         nextFrameSize <= BUFFER_SIZE, Reader!Landing(n) <= BUFFER_SIZE,
         NEW buffer, buffer = Reader!Received(n)
  PROVE  /\ \A i \in 0 .. nextFrameSize - 1 : buffer[i] = Reader!Cell("data", q, i + 1)
         /\ \E r : Follows(q, r, n, buffer)
<1>1. /\ WriterFacts /\ ReaderShape /\ file = Reader!Bytes
      /\ Passed(q) /\ Leftovers(q) /\ q \in 1 .. Len(sink) + 1
      /\ FramesTyped /\ Len(sink) \in Nat /\ DOMAIN sink = 1 .. Len(sink)
  BY FactsType DEF Reading, Progress
<1>2. /\ q \in 1 .. Len(sink) /\ nextFrameSize = sink[q].clen
      /\ filePos = FrameStart(q) + 2
      /\ q + 1 \in 1 .. Len(sink) + 1 /\ q \in Nat
  BY <1>1 DEF AtFrame
<1>3. PICK c : c = nextFrameSize
  OBVIOUS
<1>4. /\ c \in Nat /\ c >= 1 /\ n \in Nat /\ n = c + 2 /\ BUFFER_SIZE \in Nat
      /\ sink[q].landed = n
  BY <1>1, <1>2, <1>3, FactsType, FormatAssumption
<1>5. PICK s, t, l : s = FrameStart(q) /\ t = FrameStart(q + 1) /\ l = Reader!Landing(n)
  OBVIOUS
<1>6. s \in Nat /\ t = s + n /\ filePos = s + 2 /\ t <= Len(file) /\ Len(file) \in Nat
  <2>1. Len(sink) + 1 \in 1 .. Len(sink) + 1 /\ q + 1 <= Len(sink) + 1
    BY <1>1, <1>2
  <2>2. FrameStart(q + 1) <= FrameStart(Len(sink) + 1) /\ Len(file) = FrameStart(Len(sink) + 1)
    BY <1>1, <1>2, <2>1, FrameStarts, FileCells
  <2>3. FrameStart(q + 1) = FrameStart(q) + sink[q].landed /\ FrameStart(q) \in Nat
    BY <1>1, <1>2, FrameStarts
  <2>4. Len(file) \in Nat
    BY <1>1, <1>4, LandingIs
  <2> QED BY <1>2, <1>4, <1>5, <2>2, <2>3, <2>4
<1>7. /\ l \in 0 .. n
      /\ filePos + l \in 0 .. Len(file)
      /\ filePos + n <= Len(file) => l = n
      /\ l < n => filePos + l = Len(file)
      /\ \A i \in 0 .. BUFFER_SIZE - 1 :
           buffer[i] = IF i < l THEN file[filePos + i + 1] ELSE compressed[i]
  BY <1>1, <1>4, <1>5, LandingIs
<1>e. PICK e : e = Len(file)
  OBVIOUS
<1>8. /\ l \in Nat /\ l <= n /\ l >= c /\ s + 2 + l <= e
      /\ s + 2 + n <= e => l = n
      /\ l < n => s + 2 + l = e
      /\ c \in Nat /\ n = c + 2 /\ BUFFER_SIZE \in Nat
      /\ c <= BUFFER_SIZE /\ l <= BUFFER_SIZE
      /\ s \in Nat /\ t = s + n /\ e \in Nat /\ filePos = s + 2
  <2>1. /\ l \in 0 .. n /\ filePos + l \in 0 .. e
        /\ filePos + n <= e => l = n
        /\ l < n => filePos + l = e
    BY <1>7, <1>e
  <2>2. s \in Nat /\ t = s + n /\ filePos = s + 2 /\ t <= e /\ e \in Nat
    BY <1>6, <1>e
  <2>3. c \in Nat /\ n = c + 2 /\ BUFFER_SIZE \in Nat
    BY <1>4
  <2>4. c <= BUFFER_SIZE /\ l <= BUFFER_SIZE
    BY <1>3, <1>5
  <2> QED BY ONLY <2>1, <2>2, <2>3, <2>4
<1>9. ASSUME NEW i \in 0 .. c - 1
      PROVE  buffer[i] = Reader!Cell("data", q, i + 1)
  <2>1. PICK k \in 1 .. sink[q].landed : k = i + 3
    BY <1>4
  <2>2. file[FrameStart(q) + k] = Reader!Cell("data", q, k - 2)
    <3>1. k # 1 /\ k # 2
      BY <1>4, <2>1
    <3> QED BY <1>1, <1>2, <3>1, CellIs
  <2>3. filePos + i + 1 = s + k /\ k - 2 = i + 1 /\ i < l /\ i \in 0 .. BUFFER_SIZE - 1
    BY <1>4, <1>6, <1>7, <1>8, <2>1
  <2> QED BY <1>5, <1>7, <2>2, <2>3
<1>10. After(q + 1) = After(q) + Len(sink[q].plain)
  BY <1>1, <1>2, FactsType DEF WriterFacts, FrameInv, FramesChained, EndOf
<1>11. Passed(q + 1)
  BY <1>1, <1>2 DEF Passed
<1>12. ASSUME NEW i \in 0 .. BUFFER_SIZE - 1, buffer[i].kind = "data", i < c \/ i >= l
       PROVE  buffer[i].id \in 1 .. q
  <2>1. CASE i < c
    <3>1. buffer[i].id = q
      <4>1. i \in 0 .. c - 1
        BY <1>4, <2>1
      <4>2. buffer[i] = Reader!Cell("data", q, i + 1)
        BY <1>9, <4>1, Zenon
      <4> QED BY <4>2, CellFields
    <3> QED BY <1>2, <3>1
  <2>2. CASE i >= l
    <3>1. buffer[i] = compressed[i]
      BY <1>7, <2>2
    <3>2. buffer[i].id \in 1 .. q - 1
      BY <1>1, <1>12, <3>1 DEF Leftovers
    <3> QED BY <1>2, <3>2
  <2> QED BY <1>12, <2>1, <2>2
<1>13. CASE l = c
  <2>1. ASSUME NEW i \in q + 1 .. Len(sink) PROVE ~Complete(sink[i])
    <3>1. i \in 1 .. Len(sink)
      BY <1>1, <1>2
    <3>2. PICK m : m = sink[i].landed
      OBVIOUS
    <3>3. t + m <= e
      BY <1>1, <1>2, <1>5, <1>e, <3>2, FrameFits
    <3>4. m \in Nat /\ (Complete(sink[i]) => m >= 3)
      BY <1>1, <3>1, <3>2, FactsType
    <3> QED BY ONLY <1>8, <1>13, <3>3, <3>4
  <2>2. \A i \in 0 .. BUFFER_SIZE - 1 : buffer[i].kind = "data" => buffer[i].id \in 1 .. (q + 1) - 1
    BY <1>2, <1>4, <1>12, <1>13
  <2>3. Reader!Landing(n) # n
    BY <1>4, <1>5, <1>13
  <2>4. q + 1 \in q + 1 .. Len(sink) + 1
    BY <1>1, <1>2
  <2>5. Follows(q, q + 1, n, buffer)
    BY <1>10, <1>11, <2>1, <2>2, <2>3, <2>4 DEF Follows
  <2> QED BY <1>3, <1>9, <2>5
<1>14. CASE l # c
  <2>0. t < e /\ c < l /\ s + 2 + c + 1 = t + 1 /\ c \in 0 .. BUFFER_SIZE - 1
    BY ONLY <1>8, <1>14
  <2>1. FrameStart(q + 1) < Len(file)
    BY <1>5, <1>e, <2>0
  <2>2. PICK r \in q + 1 .. Len(sink) : HeaderOf(q + 1, r)
    BY <1>1, <1>2, <2>1, SizeFound
  <2>3. /\ r \in 1 .. Len(sink) /\ r \in q + 1 .. Len(sink) + 1 /\ sink[r].landed > 0
        /\ FrameStart(r) = t
        /\ \A i \in q + 1 .. r - 1 : sink[i].landed = 0
    BY <1>1, <1>2, <1>5, <2>2 DEF HeaderOf
  <2>4. buffer[c] = Reader!Cell("size", r, 0)
    <3>1. c < l /\ filePos + c + 1 = t + 1 /\ c \in 0 .. BUFFER_SIZE - 1
      BY <1>8, <2>0
    <3>2. file[t + 1] = Reader!Cell("size", r, 0)
      BY <1>1, <1>5, <2>2 DEF HeaderOf
    <3> QED BY <1>7, <3>1, <3>2
  <2>5. Passed(r)
    BY <1>2, <1>11, <2>3 DEF Passed
  <2>6. After(r) = After(q) + Len(sink[q].plain)
    <3>1. ASSUME NEW i \in q + 1 .. r - 1 PROVE ~Complete(sink[i])
      <4>1. i \in 1 .. Len(sink)
        BY <1>1, <1>2, <2>3
      <4>2. Complete(sink[i]) => sink[i].landed >= 3
        BY <1>1, <4>1, FactsType
      <4>3. sink[i].landed = 0
        BY <2>3
      <4> QED BY <4>2, <4>3
    <3>2. After(r) = After(q + 1)
      BY <1>1, <1>2, <2>3, <3>1, AfterSkips DEF WriterFacts, FrameInv
    <3> QED BY <1>10, <3>2
  <2>7. AllComplete => r = q + 1
    <3> SUFFICES ASSUME AllComplete, r # q + 1 PROVE FALSE
      OBVIOUS
    <3>1. q + 1 \in q + 1 .. r - 1 /\ q + 1 \in 1 .. Len(sink)
      BY <1>1, <1>2, <2>3
    <3>2. PICK i \in 1 .. Len(sink) : i = q + 1
      BY <3>1
    <3>3. Complete(sink[i]) /\ sink[i].landed = 0
      BY <2>3, <3>1, <3>2 DEF AllComplete
    <3>4. Complete(sink[i]) => sink[i].landed >= 3
      BY <1>1, FactsType
    <3> QED BY <3>3, <3>4
  <2>8. \A i \in 0 .. BUFFER_SIZE - 1 : i = c => buffer[i].kind # "data"
    BY <2>4 DEF Reader!Cell
  <2>9. CASE l = n
    <3>1. /\ c + 1 < l /\ filePos + (c + 1) + 1 = t + 2 /\ c + 1 \in 0 .. BUFFER_SIZE - 1
          /\ t + 2 <= Len(file) /\ filePos + n = t + 2 /\ n - 2 = c /\ n - 1 = c + 1
      <4>1. /\ c + 1 < l /\ filePos + (c + 1) + 1 = t + 2 /\ c + 1 \in 0 .. BUFFER_SIZE - 1
            /\ t + 2 <= e /\ filePos + n = t + 2 /\ n - 2 = c /\ n - 1 = c + 1
        BY ONLY <1>8, <2>9
      <4> QED BY <1>e, <4>1
    <3>2. buffer[c + 1] = file[t + 2]
      BY <1>7, <3>1
    <3>3. sink[r].landed >= 2 => file[t + 2] = Reader!Cell("hash", r, 0)
      BY <1>1, <1>5, <2>2 DEF HeaderOf
    <3>4. sink[r].landed \in Nat
      BY <1>1, <2>3, FactsType
    <3>5. ~(sink[r].landed >= 2) => file[t + 2].kind = "size"
      <4> SUFFICES ASSUME ~(sink[r].landed >= 2) PROVE file[t + 2].kind = "size"
        OBVIOUS
      <4>1. sink[r].landed < 2
        BY <3>4
      <4>2. FrameStart(q + 1) + 2 <= Len(Reader!Bytes)
        BY <1>1, <1>5, <3>1
      <4> QED BY <1>1, <1>2, <1>5, <2>2, <4>1, <4>2, HashMissing
    <3>6. buffer[c + 1].kind # "data"
      BY <3>2, <3>3, <3>5 DEF Reader!Cell
    <3>7. \A i \in 0 .. BUFFER_SIZE - 1 : buffer[i].kind = "data" => buffer[i].id \in 1 .. r - 1
      <4> SUFFICES ASSUME NEW i \in 0 .. BUFFER_SIZE - 1, buffer[i].kind = "data"
                   PROVE  buffer[i].id \in 1 .. r - 1
        OBVIOUS
      <4>1. i # c /\ i # c + 1
        BY <2>8, <3>6
      <4>2. i < c \/ i >= l
        BY <1>4, <2>9, <4>1
      <4>3. buffer[i].id \in 1 .. q
        BY <1>12, <4>2
      <4> QED BY <1>1, <1>2, <2>3, <4>3
    <3>8. IF sink[r].landed >= 2 THEN buffer[n - 1] = Reader!Cell("hash", r, 0)
                                 ELSE buffer[n - 1].kind = "size"
      BY <3>1, <3>2, <3>3, <3>5
    <3>9. /\ r <= Len(sink) /\ filePos + n = FrameStart(r) + 2
          /\ buffer[n - 2] = Reader!Cell("size", r, 0)
      BY <1>1, <2>3, <2>4, <3>1
    <3>10. Reader!Landing(n) = n
      BY <1>5, <2>9
    <3>11. Follows(q, r, n, buffer)
      BY <2>3, <2>5, <2>6, <2>7, <3>7, <3>8, <3>9, <3>10 DEF Follows
    <3> QED BY <1>3, <1>9, <3>11
  <2>10. CASE l # n
    <3>1. l = c + 1 /\ t + 1 = e
      BY ONLY <1>8, <1>14, <2>10
    <3>2. ASSUME NEW i \in r .. Len(sink) PROVE ~Complete(sink[i])
      <4>1. i \in 1 .. Len(sink) /\ r \in 1 .. Len(sink) + 1
        BY <1>1, <2>3
      <4>2. PICK m : m = sink[i].landed
        OBVIOUS
      <4>3. t + m <= e
        BY <1>1, <1>e, <2>3, <4>1, <4>2, FrameFits
      <4>4. m \in Nat /\ (Complete(sink[i]) => m >= 3)
        BY <1>1, <4>1, <4>2, FactsType
      <4> QED BY ONLY <1>8, <3>1, <4>3, <4>4
    <3>3. \A i \in 0 .. BUFFER_SIZE - 1 : buffer[i].kind = "data" => buffer[i].id \in 1 .. r - 1
      <4> SUFFICES ASSUME NEW i \in 0 .. BUFFER_SIZE - 1, buffer[i].kind = "data"
                   PROVE  buffer[i].id \in 1 .. r - 1
        OBVIOUS
      <4>1. i < c \/ i >= l
        BY <1>4, <2>8, <3>1
      <4>2. buffer[i].id \in 1 .. q
        BY <1>12, <4>1
      <4> QED BY <1>1, <1>2, <2>3, <4>2
    <3>4. Reader!Landing(n) # n
      BY <1>5, <2>10
    <3>5. Follows(q, r, n, buffer)
      BY <2>3, <2>5, <2>6, <2>7, <3>2, <3>3, <3>4 DEF Follows
    <3> QED BY <1>3, <1>9, <3>5
  <2> QED BY <2>9, <2>10
<1> QED BY <1>13, <1>14

-----------------------------------------------------------------------------
(* The writer's part of the state does not change once the file is written. *)
LEMMA SameFrames ==
  ASSUME UNCHANGED wvars
  PROVE  /\ UNCHANGED << sink, stored, status, inLarge, accepted >>
         /\ Written' <=> Written
         /\ Interrupted' <=> Interrupted
         /\ AllComplete' <=> AllComplete
         /\ \A r : /\ Passed(r)' <=> Passed(r)
                   /\ After(r)' = After(r)
                   /\ FrameStart(r)' = FrameStart(r)
         /\ Reader!Bytes' = Reader!Bytes
         /\ WriterFacts => WriterFacts'
<1>1. UNCHANGED << sink, stored, status, inLarge, accepted >>
  BY DEF wvars
<1>2. (Written' <=> Written) /\ (Interrupted' <=> Interrupted) /\ (AllComplete' <=> AllComplete)
  BY <1>1 DEF Written, Interrupted, AllComplete, Complete, FrameSize, FRAME_HEADER_SIZE
<1>3. ASSUME NEW r PROVE (Passed(r)' <=> Passed(r)) /\ After(r)' = After(r)
  BY <1>1 DEF Passed, After, Complete, FrameSize, FRAME_HEADER_SIZE
<1>4. Landed' = Landed
  BY <1>1 DEF Landed, Reader!FrameCells, Reader!Cell
<1>5. ASSUME NEW r PROVE FrameStart(r)' = FrameStart(r)
  BY <1>4 DEF FrameStart, HEADER_SIZE
<1>6. Reader!Bytes' = Reader!Bytes
  <2>1. [id \in DOMAIN sink |-> SubSeq(Reader!FrameCells(id), 1, sink[id].landed)]'
          = [id \in DOMAIN sink |-> SubSeq(Reader!FrameCells(id), 1, sink[id].landed)]
    BY <1>1 DEF Reader!FrameCells, Reader!Cell
  <2> QED BY <2>1 DEF Reader!Bytes, Reader!FileHeader, Reader!Cell
<1>7. WriterFacts => WriterFacts'
  BY StutterPreserves, StepKeepsFrames DEF WriterFacts
<1> QED BY <1>1, <1>2, <1>3, <1>5, <1>6, <1>7

(* decompressedBuffer holds a block whatever its compressed size was. *)
LEMMA DecompressedRoom ==
  /\ Reader!DecompressedCapacity = BUFFER_SIZE + 3
  /\ Reader!DecompressedCapacity \in Nat
  BY FormatAssumption DEF Reader!DecompressedCapacity, Reader!CompressBound, Reader!FRAME_HEADER_SIZE

(* A frame has been taken from the file: frame q, after which r is next. *)
Took(q, r) ==
  /\ q \in 1 .. Len(sink) /\ Complete(sink[q])
  /\ r \in q + 1 .. Len(sink) + 1
  /\ Passed(r)' /\ Stage(r)' /\ Dictionaried(r)' /\ Leftovers(r)'
  /\ After(r)' = After(q) + Len(sink[q].plain)
  /\ file' = file /\ filePos' \in 0 .. Len(file)
  /\ nextFrameSize' \in Nat
  /\ DOMAIN compressed' = 0 .. BUFFER_SIZE - 1
  /\ decompressed' \in [0 .. Reader!DecompressedCapacity - 1 -> Nat]
  /\ prefixSize' = Len(sink[q].plain) /\ prefixSize' \in 1 .. Reader!DecompressedCapacity
  /\ \A i \in 0 .. prefixSize' - 1 :
       /\ decompressed'[i] = sink[q].plain[i + 1]
       /\ ~Interrupted => decompressed'[i] = After(q) + 1 + i

(* readCompressed, when it returns a frame. *)
LEMMA FrameRead ==
  ASSUME NEW q, Reading(q), UNCHANGED wvars, NEW id \in DOMAIN sink, Reader!ReadFrame(id)
  PROVE  id = q /\ \E r : Took(q, r)
<1>1. ~Reader!AtEnd /\ ~Reader!Overruns /\ Reader!GoodFrame(id)
  BY DEF Reader!ReadFrame
<1>2. AtFrame(q) /\ id = q /\ Complete(sink[q]) /\ nextFrameSize <= BUFFER_SIZE
  BY <1>1, GoodIsNext
<1>3. /\ WriterFacts /\ ReaderShape /\ file = Reader!Bytes
      /\ q \in 1 .. Len(sink) /\ Len(sink) \in Nat
  BY <1>2, FactsType DEF Reading, Progress, AtFrame
<1>4. PICK n, buffer : n = nextFrameSize + 2 /\ buffer = Reader!Received(n)
  OBVIOUS
<1>5. /\ nextFrameSize \in Nat /\ n \in Nat /\ BUFFER_SIZE \in Nat
      /\ nextFrameSize <= BUFFER_SIZE /\ Reader!Landing(n) <= BUFFER_SIZE
  <2>1. nextFrameSize \in Nat /\ BUFFER_SIZE \in Nat
    BY <1>3, FormatAssumption DEF ReaderShape
  <2>2. nextFrameSize + Reader!FRAME_HEADER_SIZE = n
    BY <1>4 DEF Reader!FRAME_HEADER_SIZE
  <2>3. ~(Reader!Landing(n) > BUFFER_SIZE)
    BY <1>1, <2>2 DEF Reader!Overruns, Reader!CompressedCapacity
  <2>4. Reader!Landing(n) \in 0 .. n /\ n \in Nat
    BY <1>3, <1>4, <2>1, LandingIs
  <2> QED BY <1>2, <1>4, <2>1, <2>3, <2>4
<1>6. PICK r : Follows(q, r, n, buffer)
  BY <1>2, <1>4, <1>5, FrameArrives
<1>7. /\ filePos' = filePos + Reader!Landing(n)
      /\ compressed' = buffer
      /\ decompressed' = Reader!Decoded(sink[q])
      /\ prefixSize' = Len(sink[q].plain)
      /\ file' = file
      /\ Reader!Landing(n) = n => /\ lastHash' = buffer[n - 1]
                                  /\ nextFrameSize' = sink[buffer[n - 2].id].clen
      /\ Reader!Landing(n) # n => nextFrameSize' = 0
  <2>1. nextFrameSize + Reader!FRAME_HEADER_SIZE = n
    BY <1>4 DEF Reader!FRAME_HEADER_SIZE
  <2>2. nextFrameSize = n - 2 /\ nextFrameSize + 1 = n - 1
    BY <1>4, <1>5
  <2>3. Reader!Landing(n) = n => /\ Reader!CellAt(buffer, n - 2) = buffer[n - 2]
                                 /\ Reader!CellAt(buffer, n - 1) = buffer[n - 1]
    BY <1>5 DEF Reader!CellAt, Reader!CompressedCapacity
  <2>4. /\ lastHash' = Reader!CellAt(buffer, n - 1)
        /\ nextFrameSize' = IF Reader!Landing(n) = n THEN sink[Reader!CellAt(buffer, n - 2).id].clen
                                                      ELSE 0
    BY <1>2, <1>4, <2>1, <2>2 DEF Reader!ReadFrame, Reader!NextHeader
  <2>5. /\ filePos' = filePos + Reader!Landing(n)
        /\ compressed' = buffer
        /\ decompressed' = Reader!Decoded(sink[q])
        /\ prefixSize' = Len(sink[q].plain)
        /\ file' = file
    BY <1>2, <1>4, <2>1 DEF Reader!ReadFrame, Reader!NextHeader
  <2> QED BY <2>3, <2>4, <2>5
<1>8. /\ r \in q + 1 .. Len(sink) + 1 /\ r \in Nat
      /\ Passed(r)' /\ After(r)' = After(q) + Len(sink[q].plain)
  <2>1. r \in q + 1 .. Len(sink) + 1 /\ Passed(r) /\ After(r) = After(q) + Len(sink[q].plain)
    BY <1>6 DEF Follows
  <2> QED BY <1>3, <2>1, SameFrames
<1>9. /\ sink' = sink /\ (AllComplete' <=> AllComplete)
      /\ FrameStart(r)' = FrameStart(r)
  BY SameFrames
<1>10. Stage(r)' /\ nextFrameSize' \in Nat
  <2>1. CASE Reader!Landing(n) = n
    <3>1. /\ r \in 1 .. Len(sink) /\ r <= Len(sink) /\ filePos + n = FrameStart(r) + 2
          /\ buffer[n - 2] = Reader!Cell("size", r, 0)
          /\ IF sink[r].landed >= 2 THEN buffer[n - 1] = Reader!Cell("hash", r, 0)
                                    ELSE buffer[n - 1].kind = "size"
      BY <1>3, <1>6, <1>8, <2>1 DEF Follows
    <3>2. nextFrameSize' = sink[r].clen
      BY <1>7, <2>1, <3>1, CellFields
    <3>3. sink[r].clen \in Nat /\ sink[r].clen # 0
      BY <1>3, <3>1, FactsType
    <3>4. CASE sink[r].landed >= 2
      <4>1. AtFrame(r)'
        BY <1>7, <1>9, <2>1, <3>1, <3>2, <3>4 DEF AtFrame, Reader!Cell
      <4> QED BY <3>2, <3>3, <4>1 DEF Stage
    <3>5. CASE ~(sink[r].landed >= 2)
      <4>1. lastHash'.kind # "hash"
        BY <1>7, <2>1, <3>1, <3>5
      <4>2. ~AllComplete
        <5>1. Complete(sink[r]) => sink[r].landed >= 3
          BY <1>3, <3>1, FactsType
        <5>2. sink[r].landed \in Nat
          BY <1>3, <3>1, FactsType
        <5> QED BY <3>1, <3>5, <5>1, <5>2 DEF AllComplete
      <4>3. Doomed'
        BY <1>9, <3>2, <3>3, <4>1, <4>2 DEF Doomed
      <4> QED BY <3>2, <3>3, <4>3 DEF Stage
    <3> QED BY <3>4, <3>5
  <2>2. CASE Reader!Landing(n) # n
    <3>1. nextFrameSize' = 0
      BY <1>7, <2>2
    <3>2. \A i \in r .. Len(sink) : ~Complete(sink[i])
      BY <1>6, <2>2 DEF Follows
    <3>3. NoMore(r)'
      BY <1>9, <3>1, <3>2 DEF NoMore, Complete, FrameSize, FRAME_HEADER_SIZE
    <3> QED BY <3>1, <3>3 DEF Stage
  <2> QED BY <2>1, <2>2
<1>11. Dictionaried(r)'
  <2>1. AllComplete => r = q + 1 /\ r # 1 /\ r - 1 = q
    <3>1. AllComplete => r = q + 1
      BY <1>6 DEF Follows
    <3>2. r = q + 1 => r # 1 /\ r - 1 = q
      BY <1>3
    <3> QED BY <3>1, <3>2
  <2> QED BY <1>7, <1>9, <2>1 DEF Dictionaried
<1>12. Leftovers(r)' /\ DOMAIN compressed' = 0 .. BUFFER_SIZE - 1
  <2>1. DOMAIN compressed' = 0 .. BUFFER_SIZE - 1
    BY <1>3, <1>4, <1>5, <1>7, LandingIs
  <2>2. \A i \in 0 .. BUFFER_SIZE - 1 :
          compressed'[i].kind = "data" => compressed'[i].id \in 1 .. r - 1
    BY <1>6, <1>7 DEF Follows
  <2>3. compressed'[0].id = q
    <3>1. 0 \in 0 .. nextFrameSize - 1
      <4>1. nextFrameSize # 0
        BY <1>1 DEF Reader!AtEnd
      <4> QED BY <1>5, <4>1
    <3>2. \A i \in 0 .. nextFrameSize - 1 : buffer[i] = Reader!Cell("data", q, i + 1)
      BY <1>2, <1>4, <1>5, FrameArrives
    <3>3. buffer[0] = Reader!Cell("data", q, 0 + 1)
      BY <3>1, <3>2
    <3> QED BY <1>7, <3>3, CellFields
  <2>4. After(q) = sink[q].after
    BY <1>3, FactsType
  <2>5. Complete(sink[q])'
    BY <1>2, <1>9 DEF Complete, FrameSize, FRAME_HEADER_SIZE
  <2> QED BY <1>8, <1>9, <2>1, <2>2, <2>3, <2>4, <2>5
          DEF Leftovers, Complete, FrameSize, FRAME_HEADER_SIZE
<1>13. filePos' \in 0 .. Len(file)
  BY <1>3, <1>5, <1>7, LandingIs
<1>14. PICK p, d : p = sink[q].plain /\ d = Reader!DecompressedCapacity
  OBVIOUS
<1>15. /\ p \in Seq(Nat) /\ Len(p) \in Nat /\ Len(p) >= 1 /\ Len(p) <= d /\ d \in Nat
       /\ decompressed \in [0 .. d - 1 -> Nat]
  <2>1. Len(p) <= d
    BY <1>1, <1>2, <1>14 DEF Reader!GoodFrame, Reader!Decodable
  <2> QED BY <1>3, <1>14, <2>1, FactsType, DecompressedRoom DEF ReaderShape
<1>16. decompressed' = [i \in 0 .. d - 1 |-> IF i < Len(p) THEN p[i + 1] ELSE decompressed[i]]
  BY <1>7, <1>14 DEF Reader!Decoded
<1>17. decompressed' \in [0 .. d - 1 -> Nat]
  BY <1>15, <1>16
<1>18. \A i \in 0 .. Len(p) - 1 : decompressed'[i] = p[i + 1]
  BY <1>15, <1>16
<1>19. ~Interrupted => \A i \in 0 .. Len(p) - 1 : p[i + 1] = After(q) + 1 + i
  <2> SUFFICES ASSUME ~Interrupted, NEW i \in 0 .. Len(p) - 1 PROVE p[i + 1] = After(q) + 1 + i
    OBVIOUS
  <2>1. FollowsOn(sink[q])
    BY <1>2, <1>3 DEF WriterFacts, WInv, FramesInOrder
  <2>2. PICK j \in 1 .. Len(p) : j = i + 1
    BY <1>15
  <2>3. p[j] = sink[q].after + j
    BY <1>14, <2>1, <2>2 DEF FollowsOn
  <2>4. sink[q].after = After(q) /\ After(q) \in Nat
    BY <1>3, FactsType
  <2> QED BY <2>2, <2>3, <2>4
<1>20. prefixSize' = Len(p)
  BY <1>7, <1>14
<1>21. prefixSize' \in 1 .. Reader!DecompressedCapacity
  BY <1>14, <1>15, <1>20
<1>22. ASSUME NEW i \in 0 .. prefixSize' - 1
       PROVE  /\ decompressed'[i] = sink[q].plain[i + 1]
              /\ ~Interrupted => decompressed'[i] = After(q) + 1 + i
  <2>1. i \in 0 .. Len(p) - 1
    BY <1>20
  <2>2. decompressed'[i] = p[i + 1]
    BY <1>18, <2>1
  <2>3. ~Interrupted => p[i + 1] = After(q) + 1 + i
    BY <1>19, <2>1
  <2> QED BY <1>14, <2>2, <2>3
<1>23. decompressed' \in [0 .. Reader!DecompressedCapacity - 1 -> Nat]
  BY <1>14, <1>17
<1>24. Took(q, r)
  BY <1>2, <1>3, <1>7, <1>8, <1>10, <1>11, <1>12, <1>13, <1>21, <1>22, <1>23, Zenon DEF Took
<1> QED BY <1>2, <1>24

=============================================================================
