--------------------------- MODULE ProtoStreamProofs ---------------------------
(***************************************************************************)
(* Proofs about the messages on a buffer file: for every shape of messages *)
(* and every way their writes fail, what the message reader asks tryRead   *)
(* for is never contradictory and never reaches past the message it is in, *)
(* and a writer that leaves its descriptor open has torn the file; what is *)
(* told is told in order, and an ordinary file is replayed to its end.     *)
(***************************************************************************)
EXTENDS ProtoStream, AUSABufFileProofs, FiniteSetTheorems

Kinds == {"setup", "event", "terminate"}
Shapes == {HeaderShape} \cup EventShapes

-----------------------------------------------------------------------------
(* Total is the last value of that function. *)
LEMMA TotalSums ==
  ASSUME NEW s, Len(s) \in Nat
  PROVE  \E f : Sums(s, Len(s), f) /\ Total(s) = f[Len(s)]
<1> DEFINE h == CHOOSE f : f = [i \in 0 .. Len(s) |-> IF i = 0 THEN 0 ELSE f[i - 1] + s[i]]
<1>1. \E f : f = [i \in 0 .. Len(s) |-> IF i = 0 THEN 0 ELSE f[i - 1] + s[i]]
  <2>1. PICK f : Sums(s, Len(s), f)
    BY SumsExist
  <2> QED BY <2>1, Zenon DEF Sums
<1>2. h = [i \in 0 .. Len(s) |-> IF i = 0 THEN 0 ELSE h[i - 1] + s[i]]
  BY <1>1, Zenon
<1>3. Total(s) = h[Len(s)]
  BY Zenon DEF Total
<1>4. Sums(s, Len(s), h)
  BY <1>2, Zenon DEF Sums
<1> QED BY <1>3, <1>4

(* The words of all segments are no fewer than those of the first. *)
LEMMA TotalIs ==
  ASSUME NEW s \in Seq(Nat), Len(s) >= 1
  PROVE  Total(s) \in Nat /\ s[1] \in Nat /\ s[1] <= Total(s)
<1>1. PICK n : n = Len(s)
  OBVIOUS
<1>2. n \in Nat /\ n >= 1 /\ \A i \in 1 .. n : s[i] \in Nat
  BY <1>1
<1>3. PICK f : Sums(s, n, f) /\ Total(s) = f[n]
  BY <1>1, <1>2, TotalSums
<1>4. \A i \in 0 .. n : f[i] = IF i = 0 THEN 0 ELSE f[i - 1] + s[i]
  BY <1>2, <1>3 DEF Sums
<1> DEFINE S == {i \in Nat : f[i] \in Nat /\ (i >= 1 => s[1] <= f[i])}
<1>5. 0 \in S
  BY <1>2, <1>4
<1>6. ASSUME NEW i \in 0 .. n - 1, i \in S PROVE i + 1 \in S
  <2>1. i \in Nat /\ i + 1 \in 1 .. n /\ i + 1 \in 0 .. n /\ i + 1 # 0 /\ (i + 1) - 1 = i
    BY <1>2
  <2>2. f[i + 1] = f[i] + s[i + 1]
    BY <1>4, <2>1
  <2>3. f[i] \in Nat /\ s[i + 1] \in Nat /\ (i >= 1 => s[1] <= f[i])
    BY <1>2, <1>6, <2>1
  <2>4. i = 0 => f[i + 1] = s[1]
    BY <1>2, <1>4, <2>2, <2>3
  <2>5. s[1] <= f[i + 1] /\ f[i + 1] \in Nat
    BY <1>2, <2>1, <2>2, <2>3, <2>4
  <2> QED BY <2>1, <2>5
<1>7. \A i \in 0 .. n : i \in S
  <2> HIDE DEF S
  <2> QED BY <1>2, <1>5, <1>6, InductionUpTo
<1>8. n \in 0 .. n /\ 1 \in 1 .. n
  BY <1>2
<1>9. f[n] \in Nat /\ s[1] <= f[n]
  BY <1>2, <1>7, <1>8
<1> QED BY <1>2, <1>3, <1>8, <1>9

(* The sizes of a message with a segment. *)
LEMMA SizesAre ==
  ASSUME NEW s \in Seq(Nat), Len(s) >= 1
  PROVE  /\ TableSize(s) \in Nat /\ TableSize(s) >= 1
         /\ MessageSize(s) = TableSize(s) + Total(s) /\ MessageSize(s) \in Nat
         /\ MessagePieces(s) \in Seq(Nat)
<1>1. Len(s) \div 2 \in Nat
  <2>1. PICK n : n = Len(s)
    OBVIOUS
  <2>2. n \in Nat
    BY <2>1
  <2> QED BY <2>1, <2>2
<1>2. TableSize(s) \in Nat /\ TableSize(s) >= 1
  BY <1>1 DEF TableSize
<1>3. << TableSize(s) >> \in Seq(Nat)
  BY <1>2
<1> QED BY <1>2, <1>3, TotalIs DEF MessageSize, MessagePieces

(* The words of a message's pieces: of none, *)
LEMMA TotalNone == Total(<< >>) = 0
<1>1. Len(<< >>) = 0
  OBVIOUS
<1>2. PICK f : Sums(<< >>, Len(<< >>), f) /\ Total(<< >>) = f[Len(<< >>)]
  BY <1>1, TotalSums
<1>3. \A i \in 0 .. 0 : f[i] = IF i = 0 THEN 0 ELSE f[i - 1] + << >>[i]
  BY <1>1, <1>2 DEF Sums
<1> QED BY <1>1, <1>2, <1>3

(* of all but the first, *)
LEMMA TotalTail ==
  ASSUME NEW s \in Seq(Nat), s # << >>
  PROVE  /\ Total(s) = Head(s) + Total(Tail(s))
         /\ Total(s) \in Nat /\ Total(Tail(s)) \in Nat
<1>1. PICK n, t : n = Len(s) - 1 /\ t = Tail(s)
  OBVIOUS
<1>2. /\ n \in Nat /\ Len(s) = n + 1 /\ t \in Seq(Nat) /\ Len(t) = n /\ Head(s) = s[1]
      /\ \A i \in 1 .. n : t[i] = s[i + 1] /\ t[i] \in Nat
      /\ s[1] \in Nat
  BY <1>1
<1>3. PICK f : Sums(s, n + 1, f) /\ Total(s) = f[n + 1]
  BY <1>2, TotalSums
<1>4. PICK g : Sums(t, n, g) /\ Total(t) = g[n]
  BY <1>2, TotalSums
<1>5. \A i \in 0 .. n + 1 : f[i] = IF i = 0 THEN 0 ELSE f[i - 1] + s[i]
  BY <1>2, <1>3 DEF Sums
<1>6. \A i \in 0 .. n : g[i] = IF i = 0 THEN 0 ELSE g[i - 1] + t[i]
  BY <1>2, <1>4 DEF Sums
<1> DEFINE S == {i \in Nat : g[i] \in Nat /\ f[i + 1] = s[1] + g[i]}
<1>7. 0 \in S
  <2>1. 0 \in 0 .. n /\ 0 \in 0 .. n + 1 /\ 1 \in 0 .. n + 1
    BY <1>2
  <2>2. g[0] = 0 /\ f[0] = 0 /\ f[1] = f[0] + s[1]
    BY <1>5, <1>6, <2>1
  <2> QED BY <1>2, <2>2
<1>8. ASSUME NEW i \in 0 .. n - 1, i \in S PROVE i + 1 \in S
  <2>1. /\ i \in Nat /\ i + 1 \in 1 .. n /\ i + 1 \in 0 .. n /\ (i + 1) - 1 = i /\ i + 1 # 0
        /\ (i + 1) + 1 \in 0 .. n + 1 /\ ((i + 1) + 1) - 1 = i + 1 /\ (i + 1) + 1 # 0
    BY <1>2
  <2>2. g[i + 1] = g[i] + t[i + 1]
    BY <1>6, <2>1
  <2>3. f[(i + 1) + 1] = f[i + 1] + s[(i + 1) + 1]
    BY <1>5, <2>1
  <2>4. t[i + 1] = s[(i + 1) + 1] /\ t[i + 1] \in Nat
    BY <1>2, <2>1
  <2>5. g[i] \in Nat /\ f[i + 1] = s[1] + g[i]
    BY <1>8
  <2>6. PICK x, y, z : x = g[i] /\ y = t[i + 1] /\ z = s[1]
    OBVIOUS
  <2>7. g[i + 1] = x + y /\ f[(i + 1) + 1] = (z + x) + y
    BY <2>2, <2>3, <2>4, <2>5, <2>6
  <2>8. x \in Nat /\ y \in Nat /\ z \in Nat
    BY <1>2, <2>4, <2>5, <2>6
  <2>9. x + y \in Nat /\ (z + x) + y = z + (x + y)
    BY ONLY <2>8
  <2> QED BY <2>1, <2>6, <2>7, <2>9
<1>9. \A i \in 0 .. n : i \in S
  <2> HIDE DEF S
  <2> QED BY <1>2, <1>7, <1>8, InductionUpTo
<1>10. n \in 0 .. n
  BY <1>2
<1>11. g[n] \in Nat /\ f[n + 1] = s[1] + g[n]
  BY <1>9, <1>10
<1> QED BY <1>1, <1>2, <1>3, <1>4, <1>11

(* and of all. *)
LEMMA TotalPieces ==
  ASSUME NEW s \in Seq(Nat), Len(s) >= 1
  PROVE  Total(MessagePieces(s)) = MessageSize(s)
<1>1. PICK a, p : a = TableSize(s) /\ p = MessagePieces(s)
  OBVIOUS
<1>2. a \in Nat /\ p \in Seq(Nat) /\ MessageSize(s) = a + Total(s)
  BY <1>1, SizesAre
<1>3. p = << a >> \o s /\ << a >> \in Seq(Nat)
  BY <1>1, <1>2 DEF MessagePieces
<1>4. p # << >> /\ Head(p) = a /\ Tail(p) = s
  BY ONLY <1>3, s \in Seq(Nat)
<1>5. Total(p) = Head(p) + Total(Tail(p))
  BY <1>2, <1>4, TotalTail
<1> QED BY <1>1, <1>2, <1>4, <1>5

-----------------------------------------------------------------------------
(* What the proofs about the file say of both streams, without a bound on reads. *)
StreamsInv ==
  /\ WriterFacts /\ ReaderShape /\ ReaderInv
  /\ rstatus \in {"new", "open", "aborted", "overrun", "exited"}

(* A reader of the file that is not new is reading. *)
LEMMA StreamsPlace ==
  ASSUME StreamsInv, rstatus # "new"
  PROVE  Written /\ \E q : Reading(q)
<1>1. ~Reader!RInit
  BY DEF Reader!RInit
<1>2. PICK q \in 1 .. Len(sink) + 1 : Progress(q)
  BY <1>1 DEF StreamsInv, ReaderInv
<1>3. Written /\ file = Reader!Bytes
  BY <1>1 DEF StreamsInv, ReaderInv
<1>4. Reading(q)
  BY <1>2, <1>3 DEF Reading, StreamsInv
<1> QED BY <1>3, <1>4

(* A step that leads to a place of a reader keeps the streams' invariant. *)
LEMMA StreamsReach ==
  ASSUME NEW q, Reading(q)', Written', rstatus' \in {"open", "aborted", "overrun", "exited"}
  PROVE  StreamsInv'
<1>1. /\ q \in 1 .. Len(sink') + 1 /\ Progress(q)' /\ file' = Reader!Bytes'
      /\ WriterFacts' /\ ReaderShape'
  BY DEF Reading, Progress
<1>2. rstatus' # "new"
  OBVIOUS
<1>3. ReaderInv'
  BY <1>1, <1>2, Zenon DEF ReaderInv
<1> QED BY <1>1, <1>3 DEF StreamsInv

(* Any call of the writer's keeps it, *)
LEMMA StreamsWritten ==
  ASSUME StreamsInv, [WCall]_wvars, UNCHANGED rvars
  PROVE  StreamsInv' /\ UNCHANGED delivered
<1>1. WriterFacts'
  BY WriterStep, StepKeepsFrames DEF StreamsInv, WriterFacts
<1>2. CASE rstatus = "new"
  <2>1. Reader!RInit
    BY <1>2 DEF StreamsInv, ReaderInv
  <2>2. Reader!RInit'
    BY <2>1 DEF rvars, Reader!RInit, Reader!CompressedCapacity,
                Reader!DecompressedCapacity, Reader!StaleCell, Reader!Cell
  <2>3. ReaderShape' /\ rstatus' = rstatus /\ UNCHANGED delivered
    BY DEF StreamsInv, ReaderShape, rvars, Reader!DecompressedCapacity
  <2> QED BY <1>1, <2>2, <2>3 DEF StreamsInv, ReaderInv
<1>3. CASE rstatus # "new"
  <2>1. PICK q : Reading(q)
    BY <1>3, StreamsPlace
  <2>2. Written
    BY <1>3, StreamsPlace
  <2>3. UNCHANGED wvars
    BY <2>2, ClosedStays DEF StreamsInv, WriterFacts, WInv, Written
  <2>4. Reader!UnchangedFrame /\ UNCHANGED << avail, delivered, rstatus >>
    BY DEF rvars, Reader!UnchangedFrame
  <2>5. Reading(q)' /\ Written'
    BY <2>1, <2>2, <2>3, <2>4, ReadingKept, SameFrames
  <2>6. rstatus' \in {"open", "aborted", "overrun", "exited"}
    BY <1>3, <2>4 DEF StreamsInv
  <2> QED BY <2>4, <2>5, <2>6, StreamsReach
<1> QED BY <1>2, <1>3

(* and so does each call of the reader's: its constructor, *)
LEMMA StreamsOpened ==
  ASSUME StreamsInv, Written, UNCHANGED wvars, Reader!Open
  PROVE  StreamsInv' /\ UNCHANGED delivered
<1>1. Reader!RInit
  BY DEF StreamsInv, ReaderInv, Reader!Open
<1>2. PICK q : Reading(q)'
  BY <1>1, OpenReads DEF StreamsInv
<1>3. rstatus' = "open" /\ UNCHANGED delivered
  BY DEF Reader!Open
<1>4. Written'
  BY SameFrames
<1> QED BY <1>2, <1>3, <1>4, StreamsReach

(* tryGetReadBuffer, *)
LEMMA StreamsRefilled ==
  ASSUME StreamsInv, UNCHANGED wvars, Reader!TryGetReadBuffer
  PROVE  StreamsInv' /\ UNCHANGED delivered
<1>1. rstatus # "new"
  BY DEF Reader!TryGetReadBuffer
<1>2. PICK q : Reading(q)
  BY <1>1, StreamsPlace
<1>3. Written'
  BY <1>1, StreamsPlace, SameFrames
<1>4. /\ \E r : Reading(r)'
      /\ rstatus' \in {"open", "aborted", "overrun", "exited"} /\ UNCHANGED delivered
  BY <1>2, GetBufferKeeps
<1> QED BY <1>3, <1>4, StreamsReach

(* and tryRead. *)
LEMMA StreamsRead ==
  ASSUME StreamsInv, UNCHANGED wvars,
         NEW maxBytes \in Nat, NEW minBytes \in Nat, minBytes <= maxBytes,
         Reader!TryRead(minBytes, maxBytes)
  PROVE  StreamsInv' /\ Grows(delivered, delivered', maxBytes)
<1>1. rstatus # "new"
  BY DEF Reader!TryRead
<1>2. PICK q : Reading(q)
  BY <1>1, StreamsPlace
<1>3. Written'
  BY <1>1, StreamsPlace, SameFrames
<1>4. /\ \E r : Reading(r)'
      /\ rstatus' \in {"open", "aborted", "overrun", "exited"}
      /\ Grows(delivered, delivered', maxBytes)
  BY <1>2, TryReadKeeps
<1> QED BY <1>3, <1>4, StreamsReach

-----------------------------------------------------------------------------
CallType == [kind : Kinds, first : Nat \ {0}, segments : Seq(Nat)]

(* Every call that hands over a message has one of the provider's shapes. *)
CallsShaped ==
  \A i \in 1 .. Len(calls) : calls[i].kind # "terminate" => calls[i].segments \in Shapes

(* What has been taken of the message the reader is in is no more than there is of it. *)
InsideMessage ==
  stage \in {"header", "event"} /\ TableTaken => Taken <= MessageSize(calls[Current].segments)

(* ProtoReader::run is called when the file has been written. *)
RunsAfter == stage # "new" => Written

PInv == StreamsInv /\ PTypes /\ CallsShaped /\ InsideMessage /\ RunsAfter

(* A shape has a first segment. *)
LEMMA ShapeIs ==
  ASSUME NEW segments \in Shapes
  PROVE  segments \in Seq(Nat) /\ Len(segments) >= 1
  BY ProtoAssumption DEF Shapes

(* One more call of the provider's. *)
Called ==
  /\ status = "open"
  /\ \E kind \in Kinds, segments \in Seq(Nat) :
       /\ kind # "terminate" => segments \in Shapes
       /\ calls' = Append(calls, Call(kind, segments))

(* What a step of the ProtoWriter is to the stream and to the reader. *)
WriterActs ==
  /\ [WCall]_wvars
  /\ UNCHANGED rvars /\ UNCHANGED << stage, start, notified >>
  /\ UNCHANGED calls \/ Called
  /\ pieces' \in Seq(Nat) /\ building' \in BOOLEAN /\ fd' \in {"open", "closed", "left"}

(* setup and analyze *)
LEMMA SendActs ==
  ASSUME PTypes, status = "open", NEW kind \in Kinds, NEW segments \in Shapes,
         Send(kind, segments)
  PROVE  WriterActs
<1>1. segments \in Seq(Nat) /\ Len(segments) >= 1
  BY ShapeIs
<1>2. pieces' \in Seq(Nat)
  BY <1>1, SizesAre DEF Send
<1>3. Called
  BY <1>1 DEF Called, Send
<1> QED BY <1>2, <1>3 DEF WriterActs, Send, PTypes

(* A caller that returns takes its segments away, which may hold the dictionary. *)
LEMMA ReturnActs ==
  ASSUME PTypes, TypeOK, Return
  PROVE  WriterActs
<1>1. [WCall]_wvars
  <2>1. CASE dict.region = Caller /\ dict.len > 0 /\ dict.live
    <3>1. Destroyed
      BY DEF Return, Destroyed
    <3>2. SourceReused
      BY <2>1, <3>1 DEF Return, SourceReused
    <3> QED BY <3>2 DEF WCall
  <2>2. CASE ~(dict.region = Caller /\ dict.len > 0 /\ dict.live)
    <3>1. dict.live \in BOOLEAN /\ dict = [dict EXCEPT !.live = dict.live]
      BY DEF TypeOK, Dictionary
    <3>2. dict' = dict
      <4>1. CASE dict.region = Caller /\ dict.len > 0
        <5>1. dict.live = FALSE
          BY <2>2, <3>1, <4>1
        <5>2. dict' = [dict EXCEPT !.live = FALSE]
          BY <4>1 DEF Return
        <5> QED BY <3>1, <5>1, <5>2
      <4>2. CASE ~(dict.region = Caller /\ dict.len > 0)
        BY <4>2 DEF Return
      <4> QED BY <4>1, <4>2
    <3> QED BY <3>2 DEF Return, wvars
  <2> QED BY <2>1, <2>2
<1>2. << >> \in Seq(Nat)
  OBVIOUS
<1> QED BY <1>1, <1>2 DEF WriterActs, Return, PTypes

(* Every step of the writer is a call of its stream, or none. *)
LEMMA WriterStepActs ==
  ASSUME PTypes, TypeOK, WriterNext
  PROVE  WriterActs
<1>1. \A fails \in Outcomes : fails \in BOOLEAN
  BY Zenon DEF Outcomes
<1>2. CASE Setup
  <2>1. HeaderShape \in Shapes /\ "setup" \in Kinds
    BY DEF Shapes, Kinds
  <2> QED BY <1>2, <2>1, SendActs DEF Setup, Ready
<1>3. CASE Analyze
  <2>1. PICK segments \in EventShapes : Send("event", segments)
    BY <1>3 DEF Analyze
  <2>2. segments \in Shapes /\ "event" \in Kinds /\ status = "open"
    BY <1>3 DEF Shapes, Kinds, Analyze, Ready
  <2> QED BY <2>1, <2>2, SendActs
<1>4. ASSUME NEW fails \in Outcomes, WritePiece(fails) PROVE WriterActs
  <2>1. Head(pieces) \in Nat /\ Tail(pieces) \in Seq(Nat)
    BY <1>4 DEF PTypes, WritePiece
  <2>2. WCall
    BY <1>1, <1>4, <2>1 DEF WritePiece, WCall
  <2> QED BY <1>4, <2>1, <2>2 DEF WriterActs, WritePiece, PTypes
<1>5. ASSUME NEW fails \in Outcomes, WriteMore(fails) PROVE WriterActs
  BY <1>1, <1>5 DEF WriterActs, WriteMore, PTypes, WCall, pvars
<1>6. ASSUME NEW fails \in Outcomes, Terminate(fails) PROVE WriterActs
  <2>1. [WCall]_wvars
    BY <1>1, <1>6 DEF Terminate, WCall
  <2>2. Called
    <3>1. "terminate" \in Kinds /\ << >> \in Seq(Nat)
      BY DEF Kinds
    <3> QED BY <1>6, <3>1 DEF Called, Terminate, Ready
  <2> QED BY <1>6, <2>1, <2>2 DEF WriterActs, Terminate, PTypes
<1>7. ASSUME NEW fails \in Outcomes, NEW unwinding \in BOOLEAN, Destroy(fails, unwinding)
      PROVE  WriterActs
  <2>1. WCall
    BY <1>1, <1>7 DEF Destroy, WCall
  <2>2. fd' \in {"open", "closed", "left"}
    BY <1>7 DEF Destroy, Close
  <2> QED BY <1>7, <2>1, <2>2 DEF WriterActs, Destroy, PTypes
<1>8. CASE Die
  <2>1. << >> \in Seq(Nat)
    OBVIOUS
  <2> QED BY <1>8, <2>1 DEF WriterActs, Die, WCall, PTypes
<1> QED BY <1>2, <1>3, <1>4, <1>5, <1>6, <1>7, <1>8, ReturnActs DEF WriterNext

(* And it keeps the invariant. *)
LEMMA WriterKeepsPInv ==
  ASSUME PInv, WriterActs
  PROVE  PInv'
<1>1. StreamsInv' /\ UNCHANGED delivered
  BY StreamsWritten DEF PInv, WriterActs
<1>2. calls \in Seq(CallType) /\ accepted \in Nat
  BY DEF PInv, PTypes, CallType, Kinds, StreamsInv, WriterFacts, WInv, TypeOK
<1>3. calls' \in Seq(CallType) /\ CallsShaped'
  <2>1. CASE UNCHANGED calls
    BY <1>2, <2>1 DEF PInv, CallsShaped
  <2>2. CASE Called
    <3>1. PICK kind \in Kinds, segments \in Seq(Nat) :
            /\ kind # "terminate" => segments \in Shapes
            /\ calls' = Append(calls, Call(kind, segments))
      BY <2>2 DEF Called
    <3>2. PICK c : c = Call(kind, segments)
      OBVIOUS
    <3>3. c \in CallType /\ c.kind = kind /\ c.segments = segments
      <4>1. accepted + 1 \in Nat \ {0}
        BY <1>2
      <4> QED BY <3>2, <4>1 DEF Call, CallType
    <3>4. /\ calls' \in Seq(CallType) /\ Len(calls) \in Nat /\ Len(calls') = Len(calls) + 1
          /\ \A i \in 1 .. Len(calls) : calls'[i] = calls[i]
          /\ calls'[Len(calls) + 1] = c
      BY <1>2, <3>1, <3>2, <3>3
    <3>5. ASSUME NEW i \in 1 .. Len(calls'), calls'[i].kind # "terminate"
          PROVE  calls'[i].segments \in Shapes
      <4>1. CASE i \in 1 .. Len(calls)
        BY <3>4, <3>5, <4>1 DEF PInv, CallsShaped
      <4>2. CASE i = Len(calls) + 1
        BY <3>1, <3>3, <3>4, <3>5, <4>2
      <4> QED BY <3>4, <4>1, <4>2
    <3> QED BY <3>4, <3>5 DEF CallsShaped
  <2> QED BY <2>1, <2>2 DEF WriterActs
<1>4. PTypes'
  BY <1>1, <1>3 DEF PInv, PTypes, CallType, Kinds, WriterActs
<1>5. CASE stage = "new"
  <2>1. stage' = "new"
    BY <1>5 DEF WriterActs
  <2> QED BY <1>1, <1>3, <1>4, <2>1 DEF PInv, InsideMessage, RunsAfter
<1>6. CASE stage # "new"
  <2>1. Written /\ UNCHANGED wvars
    BY <1>6, ClosedStays DEF PInv, RunsAfter, StreamsInv, WriterFacts, WInv, Written, WriterActs
  <2>2. UNCHANGED << calls, status >>
    BY <2>1 DEF WriterActs, Called, Written, wvars
  <2>3. UNCHANGED << calls, delivered, start, stage >>
    BY <1>1, <2>2 DEF WriterActs
  <2>4. /\ Taken' = Taken /\ (TableTaken' <=> TableTaken) /\ Current' = Current
        /\ MessageSize(calls[Current].segments)' = MessageSize(calls[Current].segments)
    BY <2>3 DEF Taken, TableTaken, Current, BeginsMessage
  <2>5. InsideMessage'
    BY <2>3, <2>4 DEF PInv, InsideMessage
  <2>6. RunsAfter'
    BY <2>1, <2>2 DEF RunsAfter, Written
  <2> QED BY <1>1, <1>3, <1>4, <2>5, <2>6 DEF PInv
<1> QED BY <1>5, <1>6

-----------------------------------------------------------------------------
(* The message whose table the reader has begun is one of the provider's. *)
LEMMA CurrentIs ==
  ASSUME PTypes, CallsShaped, TableTaken
  PROVE  /\ Current \in 1 .. Len(calls) /\ calls[Current] \in CallType
         /\ calls[Current].kind # "terminate"
         /\ calls[Current].segments \in Seq(Nat) /\ Len(calls[Current].segments) >= 1
<1>1. calls \in Seq(CallType) /\ DOMAIN calls = 1 .. Len(calls)
  BY DEF PTypes, CallType, Kinds
<1>2. \E i \in DOMAIN calls : BeginsMessage(calls[i])
  BY DEF TableTaken
<1>3. Current \in DOMAIN calls /\ BeginsMessage(calls[Current])
  BY <1>2, Zenon DEF Current
<1>4. PICK i : i = Current
  OBVIOUS
<1>5. i \in 1 .. Len(calls) /\ calls[i] \in CallType /\ calls[i].kind # "terminate"
  BY <1>1, <1>3, <1>4 DEF BeginsMessage
<1>6. calls[i].segments \in Shapes
  BY <1>5 DEF CallsShaped
<1> QED BY <1>4, <1>5, <1>6, ShapeIs

(***************************************************************************)
(* The request for the next part of a message with segments s of which     *)
(* taken cells have come, but not all of them.                             *)
(***************************************************************************)
LEMMA BoundsAre ==
  ASSUME NEW s \in Seq(Nat), Len(s) >= 1, NEW taken \in Nat,
         taken >= 1, taken < MessageSize(s),
         NEW b, b = Bounds(taken, s)
  PROVE  /\ b[1] \in Nat /\ b[2] \in Nat /\ b[1] <= b[2]
         /\ taken + b[2] <= MessageSize(s)
<1>1. PICK z, t, a, h : z = MessageSize(s) /\ t = Total(s) /\ a = TableSize(s) /\ h = s[1]
  OBVIOUS
<1>2. /\ z \in Nat /\ t \in Nat /\ a \in Nat /\ h \in Nat
      /\ a >= 1 /\ h <= t /\ z = a + t /\ taken < z
  BY <1>1, SizesAre, TotalIs
<1>3. b = IF a - taken > 0 THEN << a - taken, a - taken >>
            ELSE << IF a - taken = 0 THEN h ELSE z - taken, z - taken >>
  BY <1>1, Zenon DEF Bounds
<1>4. CASE a > taken
  <2>1. b = << a - taken, a - taken >>
    BY ONLY <1>2, <1>3, <1>4, taken \in Nat, taken >= 1
  <2>2. PICK w : w = a - taken
    OBVIOUS
  <2>3. w \in Nat /\ w <= w /\ taken + w <= z
    BY ONLY <1>2, <1>4, <2>2, taken \in Nat
  <2> QED BY <1>1, <2>1, <2>2, <2>3
<1>5. CASE a = taken
  <2>1. b = << h, z - taken >>
    BY ONLY <1>2, <1>3, <1>5, taken \in Nat, taken >= 1
  <2>2. PICK w : w = z - taken
    OBVIOUS
  <2>3. w \in Nat /\ h <= w /\ taken + w <= z
    BY ONLY <1>2, <1>5, <2>2, taken \in Nat
  <2> QED BY <1>1, <1>2, <2>1, <2>2, <2>3
<1>6. CASE a < taken
  <2>1. b = << z - taken, z - taken >>
    BY ONLY <1>2, <1>3, <1>6, taken \in Nat, taken >= 1
  <2>2. PICK w : w = z - taken
    OBVIOUS
  <2>3. w \in Nat /\ w <= w /\ taken + w <= z
    BY ONLY <1>2, <2>2, taken \in Nat
  <2> QED BY <1>1, <2>1, <2>2, <2>3
<1> QED BY <1>2, <1>4, <1>5, <1>6

(***************************************************************************)
(* A reader in a message that is not whole asks for no less than nothing,  *)
(* for no more than its own upper bound, and for nothing behind it.        *)
(***************************************************************************)
LEMMA RequestFits ==
  ASSUME PTypes, CallsShaped, InsideMessage, stage \in {"header", "event"},
         Taken > 0 => TableTaken /\ ~WholeMessage
  PROVE  /\ NextBounds[1] \in Nat /\ NextBounds[2] \in Nat /\ NextBounds[1] <= NextBounds[2]
         /\ Taken = 0 => NextBounds[2] = 1
         /\ Taken > 0 => Taken + NextBounds[2] <= MessageSize(calls[Current].segments)
<1>1. Taken \in Nat
  BY DEF PTypes, Taken
<1>2. CASE Taken = 0
  <2>1. NextBounds = << 1, 1 >>
    BY <1>2 DEF NextBounds
  <2> QED BY <1>2, <2>1
<1>3. CASE Taken > 0
  <2>1. PICK s, b : s = calls[Current].segments /\ b = NextBounds
    OBVIOUS
  <2>2. s \in Seq(Nat) /\ Len(s) >= 1 /\ TableTaken
    BY <1>3, <2>1, CurrentIs
  <2>3. Taken < MessageSize(s)
    <3>1. Taken <= MessageSize(s) /\ Taken # MessageSize(s)
      BY <1>3, <2>1, <2>2 DEF InsideMessage, WholeMessage
    <3>2. MessageSize(s) \in Nat
      BY <2>2, SizesAre
    <3> QED BY <1>1, <3>1, <3>2
  <2>4. b = Bounds(Taken, s)
    BY <1>3, <2>1 DEF NextBounds
  <2>5. Taken >= 1
    BY <1>1, <1>3
  <2>6. b[1] \in Nat /\ b[2] \in Nat /\ b[1] <= b[2] /\ Taken + b[2] <= MessageSize(s)
    BY <1>1, <2>2, <2>3, <2>4, <2>5, BoundsAre
  <2> QED BY <1>3, <2>1, <2>6
<1> QED BY <1>1, <1>2, <1>3

-----------------------------------------------------------------------------
(* The first message among cs that begins with cell. *)
MessageAt(cs, cell) == CHOOSE i \in DOMAIN cs : cs[i].kind # "terminate" /\ cs[i].first = cell

(* A read keeps the reader inside the message it is in. *)
LEMMA ReadStaysInside ==
  ASSUME PTypes, CallsShaped, InsideMessage, UNCHANGED << calls, start >>,
         stage \in {"header", "event"}, Taken > 0 => TableTaken /\ ~WholeMessage,
         delivered' \in Seq(Nat),
         delivered \in Seq(Nat), Grows(delivered, delivered', NextBounds[2])
  PROVE  InsideMessage'
<1> SUFFICES ASSUME TableTaken' PROVE Taken' <= MessageSize(calls'[Current'].segments)
  BY DEF InsideMessage
<1>1. PICK n, m, b, a : n = Len(delivered) /\ m = Len(delivered') /\ b = NextBounds[2] /\ a = start
  OBVIOUS
<1>2. /\ n \in Nat /\ m \in Nat /\ b \in Nat /\ a \in Nat /\ a <= n
      /\ n <= m /\ m <= n + b
      /\ \A k \in 1 .. n : delivered'[k] = delivered[k]
  <2>1. b \in Nat
    BY <1>1, RequestFits
  <2>2. n \in Nat /\ m \in Nat /\ a \in 0 .. n
    BY <1>1 DEF PTypes
  <2>3. /\ n <= m /\ m <= n + b
        /\ \A k \in 1 .. n : delivered'[k] = delivered[k]
    BY <1>1 DEF Grows
  <2> QED BY ONLY <2>1, <2>2, <2>3
<1>3. Taken = n - a /\ Taken' = m - a
  BY <1>1 DEF Taken
<1>4. CASE n = a
  <2>1. b = 1 /\ Taken' <= 1
    BY <1>1, <1>2, <1>3, <1>4, RequestFits
  <2>2. MessageSize(calls'[Current'].segments) >= 1 /\ MessageSize(calls'[Current'].segments) \in Nat
    <3>1. \E i \in DOMAIN calls : calls[i].kind # "terminate" /\ calls[i].first = delivered'[start' + 1]
      BY DEF TableTaken, BeginsMessage
    <3>2. Current' = MessageAt(calls, delivered'[start' + 1])
      BY Zenon DEF Current, BeginsMessage, MessageAt
    <3>3. PICK i, c : i = Current' /\ c = delivered'[start' + 1]
      OBVIOUS
    <3>4. i \in DOMAIN calls /\ calls[i].kind # "terminate"
      BY <3>1, <3>2, <3>3, Zenon DEF MessageAt
    <3>5. calls[i].segments \in Seq(Nat) /\ Len(calls[i].segments) >= 1
      <4>1. i \in 1 .. Len(calls)
        <5>1. calls \in Seq(CallType)
          BY DEF PTypes, CallType, Kinds
        <5> QED BY ONLY <3>4, <5>1
      <4> QED BY <3>4, <4>1, ShapeIs DEF CallsShaped
    <3>6. PICK s : s = calls[i].segments
      OBVIOUS
    <3>7. MessageSize(s) \in Nat /\ MessageSize(s) >= 1
      BY <3>5, <3>6, SizesAre, TotalIs
    <3> QED BY <3>3, <3>6, <3>7
  <2> QED BY <1>2, <1>3, <2>1, <2>2
<1>5. CASE n # a
  <2>1. Taken > 0 /\ TableTaken
    BY <1>2, <1>3, <1>5
  <2>2. Taken + b <= MessageSize(calls[Current].segments)
    BY <1>1, <2>1, RequestFits
  <2>3. delivered'[start' + 1] = delivered[start + 1]
    <3>1. a + 1 \in 1 .. n
      BY <1>2, <1>5
    <3> QED BY <1>1, <1>2, <3>1
  <2>4. Current' = Current
    <3>1. Current' = MessageAt(calls, delivered'[start' + 1])
      BY Zenon DEF Current, BeginsMessage, MessageAt
    <3>2. Current = MessageAt(calls, delivered[start + 1])
      BY Zenon DEF Current, BeginsMessage, MessageAt
    <3> QED BY <2>3, <3>1, <3>2
  <2>5. PICK z : z = MessageSize(calls[Current].segments)
    OBVIOUS
  <2>6. z \in Nat
    <3>1. calls[Current].segments \in Seq(Nat) /\ Len(calls[Current].segments) >= 1
      BY <2>1, CurrentIs
    <3> QED BY <2>5, <3>1, SizesAre
  <2>7. m - a <= z
    BY <1>2, <1>3, <2>2, <2>5, <2>6
  <2> QED BY <1>3, <2>4, <2>5, <2>7
<1> QED BY <1>2, <1>4, <1>5

(* What a step of ProtoReader::run has to keep. *)
LEMMA ReaderReaches ==
  ASSUME PInv, ReaderFrame, StreamsInv', stage # "new" \/ Written,
         stage' \in {"first", "header", "loop", "event", "done", "threw", "dead", "garbled"},
         start' \in 0 .. Len(delivered'),
         notified' \in Seq([kind : Kinds, call : Nat]),
         InsideMessage'
  PROVE  PInv'
<1>1. PTypes' /\ CallsShaped'
  BY DEF PInv, PTypes, CallsShaped, ReaderFrame, Kinds
<1>2. Written'
  BY DEF PInv, RunsAfter, Written, ReaderFrame, wvars
<1> QED BY <1>1, <1>2 DEF PInv, RunsAfter

(* What the analyzers are told is a kind of call, and which it was. *)
LEMMA NotifiedIs ==
  ASSUME notified \in Seq([kind : Kinds, call : Nat]),
         NEW kind \in Kinds, NEW call \in Nat, Notify(kind, call)
  PROVE  notified' \in Seq([kind : Kinds, call : Nat])
<1>1. [kind |-> kind, call |-> call] \in [kind : Kinds, call : Nat]
  OBVIOUS
<1> QED BY <1>1 DEF Notify

(* Each step of ProtoReader::run keeps the invariant: opening the file, *)
LEMMA OpenFileKeeps ==
  ASSUME PInv, OpenFile
  PROVE  PInv'
<1>1. UNCHANGED wvars /\ Written /\ Reader!Open /\ stage' = "first"
  BY DEF OpenFile, ReaderFrame
<1>2. StreamsInv' /\ UNCHANGED delivered
  BY <1>1, StreamsOpened DEF PInv
<1>3. InsideMessage'
  BY <1>1 DEF InsideMessage
<1>4. start' \in 0 .. Len(delivered') /\ notified' \in Seq([kind : Kinds, call : Nat])
  BY <1>2 DEF PInv, PTypes, OpenFile, Kinds
<1> QED BY <1>1, <1>2, <1>3, <1>4, ReaderReaches DEF OpenFile

(* looking for the next message, *)
LEMMA PeekKeeps ==
  ASSUME PInv, Peek
  PROVE  PInv'
<1>1. UNCHANGED wvars /\ stage \in {"first", "loop"} /\ start' = Len(delivered) /\ ReaderFrame
  BY DEF Peek, ReaderFrame
<1>2. StreamsInv' /\ UNCHANGED delivered
  <2>1. CASE UNCHANGED rvars
    BY <1>1, <2>1, StreamsWritten DEF PInv
  <2>2. CASE Reader!TryGetReadBuffer
    BY <1>1, <2>2, StreamsRefilled DEF PInv
  <2> QED BY <2>1, <2>2 DEF Peek, Refill
<1>3. delivered \in Seq(Nat) /\ Len(delivered) \in Nat
  BY DEF PInv, StreamsInv, ReaderShape
<1>4. InsideMessage'
  <2>1. Taken' = 0
    BY <1>1, <1>2, <1>3 DEF Taken
  <2> QED BY <2>1 DEF InsideMessage, TableTaken
<1>5. start' \in 0 .. Len(delivered')
  BY <1>1, <1>2, <1>3
<1>6. notified \in Seq([kind : Kinds, call : Nat])
  BY DEF PInv, PTypes, Kinds
<1>7. notified' \in Seq([kind : Kinds, call : Nat])
  <2>1. CASE UNCHANGED notified
    BY <1>6, <2>1
  <2>2. CASE NothingRead
    <3>1. PICK kind \in Kinds : Notify(kind, 0)
      BY <2>2 DEF NothingRead, Kinds
    <3> QED BY <1>6, <3>1, NotifiedIs
  <2> QED BY <2>1, <2>2 DEF Peek
<1>8. stage' \in {"first", "header", "loop", "event", "done", "threw", "dead", "garbled"}
  BY DEF Peek, NothingRead
<1> QED BY <1>1, <1>2, <1>4, <1>5, <1>7, <1>8, ReaderReaches

(* reading a part of it, *)
LEMMA ReadPartKeeps ==
  ASSUME PInv, ReadPart
  PROVE  PInv'
<1>1. /\ UNCHANGED wvars /\ ReaderFrame /\ UNCHANGED << calls, start, notified >>
      /\ stage \in {"header", "event"} /\ (Taken > 0 => TableTaken /\ ~WholeMessage)
      /\ Reader!TryRead(NextBounds[1], NextBounds[2])
  BY DEF ReadPart, ReaderFrame
<1>2. PICK a, b : a = NextBounds[1] /\ b = NextBounds[2]
  OBVIOUS
<1>3. a \in Nat /\ b \in Nat /\ a <= b
  BY <1>1, <1>2, RequestFits DEF PInv
<1>4. StreamsInv' /\ Grows(delivered, delivered', b)
  BY <1>1, <1>2, <1>3, StreamsRead DEF PInv
<1>5. /\ delivered \in Seq(Nat) /\ delivered' \in Seq(Nat)
      /\ Len(delivered) \in Nat /\ Len(delivered') \in Nat /\ Len(delivered) <= Len(delivered')
  BY <1>4 DEF PInv, StreamsInv, ReaderShape, Grows
<1>6. InsideMessage'
  BY <1>1, <1>2, <1>4, <1>5, ReadStaysInside DEF PInv
<1>7. start' \in 0 .. Len(delivered') /\ notified' \in Seq([kind : Kinds, call : Nat])
  BY <1>1, <1>5 DEF PInv, PTypes, Kinds
<1>8. stage' \in {"first", "header", "loop", "event", "done", "threw", "dead", "garbled"}
  BY <1>1 DEF ReadPart
<1> QED BY <1>1, <1>4, <1>6, <1>7, <1>8, ReaderReaches

(* and going on from a message, whole or garbled. *)
LEMMA MessageKeeps ==
  ASSUME PInv, Garbled \/ HeaderRead \/ EventRead
  PROVE  PInv'
<1>1. /\ ReaderFrame /\ UNCHANGED wvars /\ UNCHANGED rvars /\ start' = start
      /\ stage \in {"header", "event"} /\ stage' \in {"loop", "threw", "garbled"}
  BY DEF Garbled, HeaderRead, EventRead, ReaderFrame
<1>2. StreamsInv' /\ UNCHANGED delivered
  BY <1>1, StreamsWritten DEF PInv
<1>3. InsideMessage'
  BY <1>1 DEF InsideMessage
<1>4. start' \in 0 .. Len(delivered') /\ notified \in Seq([kind : Kinds, call : Nat])
  BY <1>1, <1>2 DEF PInv, PTypes, Kinds
<1>5. notified' \in Seq([kind : Kinds, call : Nat])
  <2>1. CASE UNCHANGED notified
    BY <1>4, <2>1
  <2>2. CASE HeaderRead
    <3>1. "setup" \in Kinds /\ 0 \in Nat /\ Notify("setup", 0)
      BY <2>2 DEF HeaderRead, Kinds
    <3> QED BY <1>4, <3>1, NotifiedIs
  <2>3. CASE EventRead /\ Notify("event", Current)
    <3>1. TableTaken
      BY <2>3 DEF EventRead, WholeMessage
    <3>2. Current \in 1 .. Len(calls) /\ Len(calls) \in Nat
      BY <3>1, CurrentIs DEF PInv, PTypes
    <3>3. "event" \in Kinds /\ Current \in Nat
      BY <3>2 DEF Kinds
    <3> QED BY <1>4, <2>3, <3>3, NotifiedIs
  <2> QED BY <2>1, <2>2, <2>3 DEF Garbled, EventRead
<1> QED BY <1>1, <1>2, <1>3, <1>4, <1>5, ReaderReaches

-----------------------------------------------------------------------------
(***************************************************************************)
(* The invariant of both programs on a file: with any messages, however    *)
(* often the provider runs, whatever fails and wherever the file ends, the *)
(* reader is inside a message that was written, or knows that it is not.   *)
(***************************************************************************)
THEOREM MessagesInvariant == PSpec => []PInv
<1>1. PInit => PInv
  <2> SUFFICES ASSUME PInit PROVE PInv
    OBVIOUS
  <2>1. FileInv
    BY FileInvStarts DEF PInit
  <2>2. StreamsInv
    BY <2>1, ShapeOfTypes DEF FileInv, ReaderTypes, StreamsInv
  <2>3. /\ delivered = << >> /\ stage = "new" /\ start = 0 /\ calls = << >> /\ pieces = << >>
        /\ building = FALSE /\ fd = "open" /\ notified = << >>
    BY DEF PInit, Init, Reader!RInit
  <2>4. start \in 0 .. Len(delivered)
    BY <2>3
  <2>5. PTypes
    <3>1. /\ calls \in Seq([kind : Kinds, first : Nat \ {0}, segments : Seq(Nat)])
          /\ pieces \in Seq(Nat) /\ notified \in Seq([kind : Kinds, call : Nat])
      BY ONLY <2>3
    <3> QED BY <2>3, <2>4, <3>1 DEF PTypes, Kinds
  <2>6. CallsShaped /\ InsideMessage /\ RunsAfter
    BY <2>3 DEF CallsShaped, InsideMessage, RunsAfter
  <2> QED BY <2>2, <2>5, <2>6 DEF PInv
<1>2. PInv /\ [PNext]_PVars => PInv'
  <2> SUFFICES ASSUME PInv, [PNext]_PVars PROVE PInv'
    OBVIOUS
  <2>1. CASE WriterNext
    <3>1. PTypes /\ TypeOK
      BY DEF PInv, StreamsInv, WriterFacts, WInv
    <3> QED BY <2>1, <3>1, WriterStepActs, WriterKeepsPInv
  <2>2. CASE ReaderNext
    BY <2>2, OpenFileKeeps, PeekKeeps, ReadPartKeeps, MessageKeeps DEF ReaderNext
  <2>3. CASE UNCHANGED PVars
    <3>1. WriterActs
      BY <2>3 DEF PInv, PTypes, WriterActs, PVars, pvars
    <3> QED BY <3>1, WriterKeepsPInv
  <2> QED BY <2>1, <2>2, <2>3 DEF PNext
<1> QED BY <1>1, <1>2, PTL DEF PSpec

-----------------------------------------------------------------------------
(* A step of run that tells nothing leaves what it told with the stage it belongs to. *)
LEMMA SilentProvides ==
  ASSUME Provides, UNCHANGED notified, stage # "done", stage' \notin {"new", "done"},
         stage' \in {"first", "header"} => stage \in {"new", "first", "header"},
         stage' \in {"loop", "event"} => stage \in {"loop", "event"}
  PROVE  Provides'
BY DEF Provides

(* A step that tells something begins with notifySetup and is done with notifyTerminate. *)
LEMMA TellingProvides ==
  ASSUME Provides, notified \in Seq([kind : Kinds, call : Nat]), stage # "done",
         NEW kind, NEW call, Notify(kind, call), stage' \in {"loop", "done"},
         kind = "setup" <=> notified = << >>,
         kind = "terminate" <=> stage' = "done"
  PROVE  Provides'
<1>1. PICK n, more : n = Len(notified) /\ more = notified'
  OBVIOUS
<1>2. /\ n \in Nat /\ DOMAIN notified = 1 .. n
      /\ DOMAIN more = 1 .. n + 1 /\ Len(more) = n + 1 /\ more # << >>
      /\ more[n + 1].kind = kind
      /\ \A k \in 1 .. n : more[k] = notified[k]
      /\ notified = << >> <=> n = 0
  BY <1>1 DEF Notify
<1>3. ASSUME NEW k \in 1 .. n + 1
      PROVE  /\ more[k].kind = "setup" <=> k = 1
             /\ more[k].kind = "terminate" <=> stage' = "done" /\ k = n + 1
  <2>1. CASE k \in 1 .. n
    <3>1. more[k] = notified[k] /\ k \in DOMAIN notified
      BY <1>2, <2>1
    <3>2. /\ notified[k].kind = "setup" <=> k = 1
          /\ notified[k].kind # "terminate"
      BY <3>1 DEF Provides
    <3>3. k # n + 1
      BY <1>2, <2>1
    <3> QED BY <3>1, <3>2, <3>3
  <2>2. CASE k = n + 1
    <3>1. k = 1 <=> notified = << >>
      BY <1>2, <2>2
    <3> QED BY <1>2, <2>2, <3>1
  <2> QED BY <1>2, <2>1, <2>2
<1> QED BY <1>1, <1>2, <1>3 DEF Provides

(* Opening, looking, reading and going on keep it. *)
LEMMA ProvidesKept ==
  ASSUME PInv, Provides, [PNext]_PVars
  PROVE  Provides'
<1>1. notified \in Seq([kind : Kinds, call : Nat])
  BY DEF PInv, PTypes, Kinds
<1>2. CASE UNCHANGED << stage, notified >>
  BY <1>2 DEF Provides
<1>3. CASE OpenFile
  BY <1>3, SilentProvides DEF OpenFile
<1>4. CASE Peek
  <2>1. stage \in {"first", "loop"} /\ (stage = "first" <=> notified = << >>)
    BY <1>4 DEF Peek, Provides
  <2>2. CASE UNCHANGED notified /\ stage' = "dead"
    BY <2>1, <2>2, SilentProvides
  <2>3. CASE UNCHANGED notified /\ stage' = IF stage = "first" THEN "header" ELSE "event"
    BY <2>1, <2>3, SilentProvides
  <2>4. CASE NothingRead
    <3>1. CASE stage = "first"
      <4>1. Notify("setup", 0) /\ stage' = "loop"
        BY <2>4, <3>1 DEF NothingRead
      <4> QED BY <1>1, <2>1, <3>1, <4>1, TellingProvides
    <3>2. CASE stage # "first"
      <4>1. Notify("terminate", 0) /\ stage' = "done"
        BY <2>4, <3>2 DEF NothingRead
      <4> QED BY <1>1, <2>1, <3>2, <4>1, TellingProvides
    <3> QED BY <3>1, <3>2
  <2> QED BY <1>4, <2>2, <2>3, <2>4 DEF Peek
<1>5. CASE ReadPart \/ Garbled
  <2>1. /\ stage \in {"header", "event"} /\ UNCHANGED notified
        /\ stage' \in {"dead", "threw", "garbled", stage}
    BY <1>5 DEF ReadPart, Garbled
  <2> QED BY <2>1, SilentProvides
<1>6. CASE HeaderRead
  <2>1. stage = "header" /\ Notify("setup", 0) /\ stage' = "loop"
    BY <1>6 DEF HeaderRead
  <2>2. notified = << >>
    BY <2>1 DEF Provides
  <2> QED BY <1>1, <2>1, <2>2, TellingProvides
<1>7. CASE EventRead
  <2>1. stage = "event" /\ notified # << >>
    BY <1>7 DEF EventRead, Provides
  <2>2. CASE Notify("event", Current) /\ stage' = "loop"
    BY <1>1, <2>1, <2>2, TellingProvides
  <2>3. CASE UNCHANGED notified /\ stage' = "threw"
    BY <2>1, <2>3, SilentProvides
  <2> QED BY <1>7, <2>2, <2>3 DEF EventRead
<1>8. CASE WriterNext
  <2>1. PTypes /\ TypeOK
    BY DEF PInv, StreamsInv, WriterFacts, WInv
  <2>2. UNCHANGED << stage, notified >>
    BY <1>8, <2>1, WriterStepActs DEF WriterActs
  <2> QED BY <1>2, <2>2
<1> QED BY <1>2, <1>3, <1>4, <1>5, <1>6, <1>7, <1>8 DEF PNext, ReaderNext, PVars, pvars

(***************************************************************************)
(* The state of the message layer is well-formed; in particular no call is *)
(* made up.  And on any file what run tells its analyzers is a run of a    *)
(* provider or the beginning of one.                                       *)
(***************************************************************************)
THEOREM MessagesKeepTypes == PSpec => []PTypeOK
<1>1. PInit => Provides
  BY DEF PInit, Provides
<1>2. PInv /\ Provides /\ [PNext]_PVars => Provides'
  BY ProvidesKept
<1>3. PInv /\ Provides => PTypeOK
  BY DEF PInv, PTypeOK
<1> QED BY <1>1, <1>2, <1>3, MessagesInvariant, PTL DEF PSpec

-----------------------------------------------------------------------------
Torn == status = "closed" /\ Len(sink) > 0 /\ ~Complete(Last(sink))

(* The destructor leaves the descriptor behind only with the frame it tore. *)
LEMMA DestroyLeaves ==
  ASSUME PInv, NEW fails \in BOOLEAN, NEW unwinding \in BOOLEAN, Destroy(fails, unwinding),
         fd' = "left"
  PROVE  Torn'
<1>1. WInv /\ BlockLeftBehind
  BY DEF PInv, StreamsInv, WriterFacts, FrameInv
<1>2. fails /\ (DestroyFlush(fails) \/ DestroyAcross(fails))
  BY DEF Destroy, Close, FlushThrows
<1>3. status' = "closed"
  BY <1>2 DEF DestroyFlush, DestroyAcross
<1>4. PICK f : Hands(f, fails)
  BY <1>1, <1>2, DestroyFlushHands, DestroyAcrossHands
<1>5. sink' = Append(sink, f) /\ ~Complete(f) /\ f \in Frame /\ sink \in Seq(Frame)
  BY <1>1, <1>2, <1>4 DEF Hands, WInv, TypeOK
<1>6. Len(sink') > 0 /\ Last(sink') = f
  <2>1. PICK t : t = sink'
    OBVIOUS
  <2>2. Len(t) = Len(sink) + 1 /\ t[Len(t)] = f /\ Len(sink) \in Nat
    BY <1>5, <2>1
  <2> QED BY <2>1, <2>2 DEF Last
<1>7. Last(sink)' = f
  BY <1>6 DEF Last
<1>8. ~Complete(Last(sink))'
  BY <1>5, <1>7 DEF Complete, FrameSize, FRAME_HEADER_SIZE
<1> QED BY <1>3, <1>6, <1>8 DEF Torn

(* And nothing is written to it afterwards. *)
LEMMA LeakKept ==
  ASSUME PInv, LeakMeansTorn, [PNext]_PVars
  PROVE  LeakMeansTorn'
<1> SUFFICES ASSUME fd' = "left" PROVE Torn'
  BY DEF LeakMeansTorn, Torn
<1>1. ASSUME NEW fails \in Outcomes, NEW unwinding \in BOOLEAN, Destroy(fails, unwinding)
      PROVE  Torn'
  <2>1. fails \in BOOLEAN
    BY Zenon DEF Outcomes
  <2> QED BY <1>1, <2>1, DestroyLeaves
<1>2. CASE fd = "left"
  <2>1. Torn /\ status = "closed"
    BY <1>2 DEF LeakMeansTorn, Torn
  <2>2. [WCall]_wvars
    <3>1. PTypes /\ TypeOK
      BY DEF PInv, StreamsInv, WriterFacts, WInv
    <3>2. CASE WriterNext
      BY <3>1, <3>2, WriterStepActs DEF WriterActs
    <3>3. CASE ReaderNext
      BY <3>3 DEF ReaderNext, OpenFile, Peek, ReadPart, Garbled, HeaderRead, EventRead, ReaderFrame
    <3> QED BY <3>2, <3>3 DEF PNext, PVars
  <2>3. UNCHANGED wvars
    BY <2>1, <2>2, ClosedStays DEF PInv, StreamsInv, WriterFacts, WInv
  <2>4. UNCHANGED << sink, status >>
    BY <2>3 DEF wvars
  <2> QED BY <2>1, <2>4 DEF Torn, Complete, FrameSize, FRAME_HEADER_SIZE, Last
<1>3. CASE fd # "left" /\ ~(\E fails \in Outcomes, unwinding \in BOOLEAN : Destroy(fails, unwinding))
  BY <1>3 DEF PNext, WriterNext, ReaderNext, Setup, Analyze, Send, WritePiece, WriteMore,
       Terminate, Return, Die, OpenFile, Peek, ReadPart, Garbled, HeaderRead, EventRead,
       ReaderFrame, PVars, pvars
<1> QED BY <1>1, <1>2, <1>3

(***************************************************************************)
(* A descriptor that ~ProtoWriter leaves open means that the last write of *)
(* the file's stream has torn it, whatever had failed before.              *)
(***************************************************************************)
THEOREM LeaksAreTorn == PSpec => []LeakMeansTorn
<1>1. PInit => LeakMeansTorn
  BY DEF PInit, LeakMeansTorn
<1>2. PInv /\ LeakMeansTorn /\ [PNext]_PVars => LeakMeansTorn'
  BY LeakKept
<1> QED BY <1>1, <1>2, MessagesInvariant, PTL DEF PSpec

-----------------------------------------------------------------------------
(* The cells of a call's message; terminate has none. *)
Width(call) == IF call.kind = "terminate" THEN 0 ELSE MessageSize(call.segments)

(* The provider's first call is setup, and no message begins inside an earlier one. *)
CallsChained ==
  /\ calls # << >> => calls[1].kind = "setup" /\ calls[1].first = 1
  /\ \A i \in 1 .. Len(calls) : \A j \in i + 1 .. Len(calls) :
       calls[i].first + Width(calls[i]) <= calls[j].first

(* The cells of all messages are accepted, or pieces that are still to be written. *)
CallsAccounted ==
  status = "open" =>
    /\ building \/ pieces = << >>
    /\ calls = << >> => accepted = 0 /\ pieces = << >>
    /\ \A i \in 1 .. Len(calls) :
         calls[i].first + Width(calls[i]) <= accepted + Total(pieces) + 1

CallsInv == CallsChained /\ CallsAccounted

(* Sizes and places of the provider's calls. *)
LEMMA WidthIs ==
  ASSUME PTypes, CallsShaped, NEW i \in 1 .. Len(calls)
  PROVE  /\ Width(calls[i]) \in Nat /\ calls[i].first \in Nat /\ calls[i].first >= 1
         /\ calls[i].kind # "terminate" =>
              /\ Width(calls[i]) = MessageSize(calls[i].segments) /\ Width(calls[i]) >= 1
              /\ LastCell(i) = calls[i].first + Width(calls[i]) - 1
<1>1. calls[i].first \in Nat /\ calls[i].first >= 1
  <2>1. calls \in Seq(CallType)
    BY DEF PTypes, CallType, Kinds
  <2>2. calls[i] \in CallType
    BY <2>1
  <2> QED BY <2>2 DEF CallType
<1>2. CASE calls[i].kind = "terminate"
  BY <1>1, <1>2 DEF Width
<1>3. CASE calls[i].kind # "terminate"
  <2>1. PICK s : s = calls[i].segments
    OBVIOUS
  <2>2. s \in Seq(Nat) /\ Len(s) >= 1
    BY <1>3, <2>1, ShapeIs DEF CallsShaped
  <2>3. MessageSize(s) \in Nat /\ MessageSize(s) >= 1
    BY <2>2, SizesAre, TotalIs
  <2>4. Width(calls[i]) = MessageSize(s)
    BY <1>3, <2>1 DEF Width
  <2> QED BY <1>1, <2>1, <2>3, <2>4 DEF LastCell
<1> QED BY <1>2, <1>3

(* A call that comes next: its message begins behind all that was accepted. *)
LEMMA CallAppended ==
  ASSUME PTypes, CallsShaped, CallsInv, status = "open", accepted \in Nat, pieces = << >>,
         NEW c \in CallType, c.first = accepted + 1, calls' = Append(calls, c),
         calls = << >> => c.kind = "setup",
         accepted' = accepted, building' \/ pieces' = << >>,
         Width(c) \in Nat, Total(pieces') = Width(c)
  PROVE  CallsInv'
<1>1. PICK n, a, w : n = Len(calls) /\ a = accepted /\ w = Width(c)
  OBVIOUS
<1>2. /\ n \in Nat /\ a \in Nat /\ w \in Nat /\ Len(calls') = n + 1
      /\ \A i \in 1 .. n : calls'[i] = calls[i]
      /\ calls'[n + 1] = c /\ calls' # << >>
      /\ n = 0 => calls = << >>
  <2>1. calls \in Seq(CallType)
    BY DEF PTypes, CallType, Kinds
  <2> QED BY <1>1, <2>1
<1>3. /\ calls = << >> => a = 0
      /\ \A i \in 1 .. n : calls[i].first + Width(calls[i]) <= a + 1
  <2>1. \A i \in 1 .. n : calls[i].first + Width(calls[i]) <= a + Total(pieces) + 1
    BY <1>1 DEF CallsInv, CallsAccounted
  <2>2. a + Total(pieces) + 1 = a + 1
    BY <1>2, TotalNone
  <2> QED BY <1>1, <2>1, <2>2 DEF CallsInv, CallsAccounted
<1>4. \A i \in 1 .. n : Width(calls[i]) \in Nat /\ calls[i].first \in Nat
  BY <1>1, WidthIs
<1>5. CallsChained'
  <2>1. calls'[1].kind = "setup" /\ calls'[1].first = 1
    <3>1. CASE n = 0
      BY <1>1, <1>2, <1>3, <3>1
    <3>2. CASE n # 0
      <4>1. 1 \in 1 .. n /\ calls # << >>
        BY <1>1, <1>2, <3>2
      <4> QED BY <1>2, <4>1 DEF CallsInv, CallsChained
    <3> QED BY <3>1, <3>2
  <2>2. ASSUME NEW i \in 1 .. n + 1, NEW j \in i + 1 .. n + 1
        PROVE  calls'[i].first + Width(calls'[i]) <= calls'[j].first
    <3>1. i \in 1 .. n /\ calls'[i] = calls[i]
      BY <1>2
    <3>2. CASE j = n + 1
      BY <1>1, <1>2, <1>3, <3>1, <3>2
    <3>3. CASE j # n + 1
      <4>1. j \in i + 1 .. n /\ calls'[j] = calls[j]
        BY <1>2, <3>1, <3>3
      <4> QED BY <1>1, <3>1, <4>1 DEF CallsInv, CallsChained
    <3> QED BY <3>2, <3>3
  <2> QED BY <1>2, <2>1, <2>2 DEF CallsChained
<1>6. CallsAccounted'
  <2>1. ASSUME NEW i \in 1 .. n + 1
        PROVE  calls'[i].first + Width(calls'[i]) <= a + w + 1
    <3>1. CASE i = n + 1
      BY <1>1, <1>2, <3>1
    <3>2. CASE i # n + 1
      <4>1. i \in 1 .. n
        BY <1>2, <3>2
      <4>2. PICK b : b = calls[i].first + Width(calls[i])
        OBVIOUS
      <4>3. b \in Nat /\ b <= a + 1
        BY <1>3, <1>4, <4>1, <4>2
      <4>4. b <= a + w + 1
        BY ONLY <1>2, <4>3
      <4> QED BY <1>2, <4>1, <4>2, <4>4
    <3> QED BY <3>1, <3>2
  <2> QED BY <1>1, <1>2, <2>1 DEF CallsAccounted
<1> QED BY <1>5, <1>6 DEF CallsInv

(* The steps of the writer keep the calls apart. *)
LEMMA CallsKept ==
  ASSUME PInv, CallsInv, WriterNext
  PROVE  CallsInv'
<1>1. /\ PTypes /\ CallsShaped /\ accepted \in Nat /\ calls \in Seq(CallType)
      /\ pieces \in Seq(Nat)
  BY DEF PInv, StreamsInv, WriterFacts, WInv, TypeOK, PTypes, CallType, Kinds
<1>2. Ready => pieces = << >> /\ status = "open"
  BY DEF Ready, CallsInv, CallsAccounted
<1>3. ASSUME Ready, NEW kind \in {"setup", "event"}, NEW segments \in Shapes,
             Send(kind, segments), calls = << >> => kind = "setup"
      PROVE  CallsInv'
  <2>1. segments \in Seq(Nat) /\ Len(segments) >= 1
    BY ShapeIs
  <2>2. PICK c : c = Call(kind, segments)
    OBVIOUS
  <2>3. c \in CallType /\ c.first = accepted + 1 /\ c.kind = kind /\ c.segments = segments
    <3>1. accepted + 1 \in Nat \ {0}
      BY <1>1
    <3> QED BY <2>1, <2>2, <3>1 DEF Call, CallType, Kinds
  <2>4. Width(c) = MessageSize(segments) /\ Width(c) \in Nat
    BY <2>1, <2>3, SizesAre DEF Width
  <2>5. Total(pieces') = Width(c)
    <3>1. pieces' = MessagePieces(segments)
      BY <1>3 DEF Send
    <3>2. Total(MessagePieces(segments)) = MessageSize(segments)
      BY <2>1, TotalPieces
    <3> QED BY <2>4, <3>1, <3>2
  <2>6. calls' = Append(calls, c) /\ accepted' = accepted /\ building' = TRUE
    BY <1>3, <2>2 DEF Send, wvars
  <2> QED BY <1>1, <1>2, <1>3, <2>3, <2>4, <2>5, <2>6, CallAppended
<1>4. CASE Setup
  <2>1. HeaderShape \in Shapes
    BY DEF Shapes
  <2> QED BY <1>3, <1>4, <2>1 DEF Setup
<1>5. CASE Analyze
  <2>1. PICK segments \in EventShapes : Send("event", segments)
    BY <1>5 DEF Analyze
  <2>2. segments \in Shapes /\ Ready /\ calls # << >>
    BY <1>5 DEF Shapes, Analyze, Between
  <2> QED BY <1>3, <2>1, <2>2
<1>6. ASSUME NEW fails \in Outcomes, WritePiece(fails) PROVE CallsInv'
  <2>1. PICK h, t, a : h = Head(pieces) /\ t = Tail(pieces) /\ a = accepted
    OBVIOUS
  <2>2. /\ h \in Nat /\ t \in Seq(Nat) /\ a \in Nat /\ pieces # << >>
        /\ accepted' = a + h /\ pieces' = t /\ UNCHANGED << calls, building >>
        /\ status = "open"
    BY <1>1, <1>6, <2>1 DEF WritePiece, WriteFits, WriteSpills, WriteLargeFill
  <2>3. Total(pieces) = h + Total(t) /\ Total(t) \in Nat
    BY <1>1, <2>1, <2>2, TotalTail
  <2>4. a + Total(pieces) + 1 = (a + h) + Total(t) + 1
    BY ONLY <2>2, <2>3
  <2>5. CallsChained'
    BY <2>2 DEF CallsInv, CallsChained
  <2>6. CallsAccounted'
    <3>1. building /\ calls # << >>
      BY <2>2 DEF CallsInv, CallsAccounted
    <3>2. \A i \in 1 .. Len(calls) :
            calls[i].first + Width(calls[i]) <= (a + h) + Total(t) + 1
      BY <2>1, <2>2, <2>4 DEF CallsInv, CallsAccounted
    <3> QED BY <2>2, <3>1, <3>2 DEF CallsAccounted
  <2> QED BY <2>5, <2>6 DEF CallsInv
<1>7. ASSUME NEW fails \in Outcomes, Terminate(fails) PROVE CallsInv'
  <2>1. PICK c : c = Call("terminate", << >>)
    OBVIOUS
  <2>2. c \in CallType /\ c.first = accepted + 1 /\ c.kind = "terminate"
    <3>1. accepted + 1 \in Nat \ {0} /\ << >> \in Seq(Nat)
      BY <1>1
    <3> QED BY <2>1, <3>1 DEF Call, CallType, Kinds
  <2>3. Width(c) = 0 /\ Width(c) \in Nat
    BY <2>2 DEF Width
  <2>4. calls' = Append(calls, c) /\ calls # << >> /\ pieces' = pieces /\ Ready
    BY <1>7, <2>1 DEF Terminate, Between
  <2>5. accepted' = accepted
    BY <1>7 DEF Terminate, Flush, wvars
  <2>6. Total(pieces') = Width(c)
    BY <1>2, <2>3, <2>4, TotalNone
  <2> QED BY <1>1, <1>2, <2>2, <2>3, <2>4, <2>5, <2>6, CallAppended
<1>8. ASSUME UNCHANGED << calls, accepted, pieces, building >>, status' = "open" => status = "open"
      PROVE  CallsInv'
  BY <1>8 DEF CallsInv, CallsChained, CallsAccounted
<1>9. ASSUME NEW fails \in Outcomes, WriteMore(fails) PROVE CallsInv'
  <2>1. UNCHANGED << calls, accepted, pieces, building >> /\ status = "open"
    BY <1>9 DEF WriteMore, WriteLargeChunk, WriteLargeRest, pvars
  <2> QED BY <1>8, <2>1
<1>10. ASSUME Return PROVE CallsInv'
  <2>1. UNCHANGED << calls, accepted, status >> /\ pieces' = << >> /\ building' = FALSE
    BY <1>10 DEF Return
  <2>2. status = "open" => pieces = << >>
    BY <1>10 DEF Return
  <2> QED BY <2>1, <2>2 DEF CallsInv, CallsChained, CallsAccounted
<1>11. ASSUME Die \/ \E fails \in Outcomes, unwinding \in BOOLEAN : Destroy(fails, unwinding)
       PROVE  CallsInv'
  <2>1. calls' = calls /\ status' # "open"
    BY <1>11 DEF Die, Crash, Destroy, DestroyFlush, DestroyAcross, DestroyEmpty
  <2> QED BY <2>1 DEF CallsInv, CallsChained, CallsAccounted
<1> QED BY <1>4, <1>5, <1>6, <1>7, <1>9, <1>10, <1>11 DEF WriterNext

-----------------------------------------------------------------------------
(***************************************************************************)
(* The first p cells of the stream are whole messages, and of their        *)
(* events the analyzers were told, of no others.                           *)
(***************************************************************************)
SettledAt(p) ==
  /\ p = 0 \/ \E i \in 1 .. Len(calls) : calls[i].kind # "terminate" /\ LastCell(i) = p
  /\ \A i \in Analyzed : LastCell(i) <= p => \E k \in Told : notified[k].call = i
  /\ \A k \in Told : LastCell(notified[k].call) <= p

Settled ==
  ~Interrupted =>
    /\ stage \in {"header", "event"} => SettledAt(start)
    /\ stage \in {"first", "loop", "done"} => SettledAt(Len(delivered))

(* run() knows the header by its place, and the end by finding nothing. *)
Placed ==
  /\ stage = "new" => notified = << >>
  /\ stage = "first" => delivered = << >>
  /\ stage = "header" => start = 0
  /\ stage = "done" => Len(delivered) = stored

ReplayInv == Placed /\ Settled /\ (~Interrupted => ReplayedInOrder)

Notice == [kind : Kinds, call : Nat]

(* One more thing that the analyzers are told. *)
LEMMA NoticeAdded ==
  ASSUME notified \in Seq(Notice), NEW kind \in Kinds, NEW call \in Nat, Notify(kind, call),
         NEW n, n = Len(notified)
  PROVE  /\ n \in Nat /\ Told \subseteq 1 .. n /\ Told' \subseteq 1 .. n + 1
         /\ \A k \in 1 .. n : notified'[k] = notified[k] /\ (k \in Told' <=> k \in Told)
         /\ n + 1 \in Told' <=> kind = "event"
         /\ notified'[n + 1].call = call
<1>1. PICK x : x = [kind |-> kind, call |-> call]
  OBVIOUS
<1>2. x \in Notice /\ x.kind = kind /\ x.call = call /\ notified' = Append(notified, x)
  BY <1>1 DEF Notice, Notify
<1>3. /\ n \in Nat /\ DOMAIN notified = 1 .. n /\ DOMAIN notified' = 1 .. n + 1
      /\ \A k \in 1 .. n : notified'[k] = notified[k]
      /\ notified'[n + 1] = x
  BY <1>2
<1>4. /\ \A k \in 1 .. n : k \in 1 .. n + 1
      /\ n + 1 \in 1 .. n + 1
  BY <1>3
<1> QED BY <1>2, <1>3, <1>4 DEF Told, IsEvent

(* Who is told of anything but an event learns nothing of events. *)
LEMMA NothingTold ==
  ASSUME notified \in Seq(Notice), UNCHANGED calls,
         \/ UNCHANGED notified
         \/ \E kind \in Kinds \ {"event"} : Notify(kind, 0),
         NEW p
  PROVE  (SettledAt(p) => SettledAt(p)') /\ (ReplayedInOrder => ReplayedInOrder')
<1>1. Told' = Told /\ \A k \in Told : notified'[k] = notified[k]
  <2>1. CASE UNCHANGED notified
    BY <2>1 DEF Told, IsEvent
  <2>2. CASE \E kind \in Kinds \ {"event"} : Notify(kind, 0)
    <3>1. PICK kind \in Kinds \ {"event"} : Notify(kind, 0)
      BY <2>2
    <3>4. PICK n : n = Len(notified)
      OBVIOUS
    <3>2. /\ n \in Nat /\ Told \subseteq 1 .. n /\ Told' \subseteq 1 .. n + 1
          /\ \A k \in 1 .. n : notified'[k] = notified[k] /\ (k \in Told' <=> k \in Told)
          /\ n + 1 \notin Told'
      BY <3>1, <3>4, NoticeAdded
    <3>3. \A k \in 1 .. n + 1 : k \in 1 .. n \/ k = n + 1
      BY <3>2
    <3> QED BY <3>2, <3>3
  <2> QED BY <2>1, <2>2
<1>2. Analyzed' = Analyzed /\ \A i : LastCell(i)' = LastCell(i)
  BY DEF Analyzed, IsEvent, LastCell
<1> QED BY <1>1, <1>2 DEF SettledAt, ReplayedInOrder

(***************************************************************************)
(* A message that is whole is the next one behind those that are settled:  *)
(* earlier ones end where it begins, later ones are not there yet.         *)
(***************************************************************************)
LEMMA NextMessage ==
  ASSUME PInv, CallsInv, DeliveredInOrder, ~Interrupted, WholeMessage,
         NEW c, c = Current
  PROVE  /\ c \in 1 .. Len(calls) /\ calls[c].kind # "terminate"
         /\ calls[c].first = start + 1
         /\ start \in Nat /\ Len(delivered) \in Nat /\ start < Len(delivered)
         /\ LastCell(c) = Len(delivered)
         /\ \A i \in 1 .. Len(calls) :
              calls[i].kind # "terminate" =>
                /\ i < c => LastCell(i) <= start
                /\ i > c => LastCell(i) > Len(delivered)
<1>1. PTypes /\ CallsShaped /\ TableTaken /\ Len(calls) \in Nat
  BY DEF PInv, PTypes, WholeMessage
<1>2. c \in 1 .. Len(calls) /\ calls[c].kind # "terminate"
  BY <1>1, CurrentIs
<1>3. PICK a, d, w, f : a = start /\ d = Len(delivered) /\ w = Width(calls[c]) /\ f = calls[c].first
  OBVIOUS
<1>4. /\ a \in Nat /\ d \in Nat /\ a < d /\ w \in Nat /\ w >= 1 /\ f \in Nat
      /\ w = MessageSize(calls[c].segments) /\ LastCell(c) = f + w - 1
      /\ d - a = w
  <2>1. a \in Nat /\ d \in Nat /\ a < d
    BY <1>1, <1>3 DEF PTypes, TableTaken, Taken, PInv, StreamsInv, ReaderShape
  <2>2. w \in Nat /\ w >= 1 /\ f \in Nat /\ w = MessageSize(calls[c].segments) /\ LastCell(c) = f + w - 1
    BY <1>1, <1>2, <1>3, WidthIs
  <2>3. Taken = d - a /\ Taken = MessageSize(calls[c].segments)
    BY <1>3 DEF Taken, WholeMessage
  <2> QED BY <2>1, <2>2, <2>3
<1>5. f = a + 1
  <2>1. \E i \in DOMAIN calls : BeginsMessage(calls[i])
    BY <1>1 DEF TableTaken
  <2>2. BeginsMessage(calls[c])
    BY <2>1, Zenon DEF Current
  <2>3. a + 1 \in 1 .. d
    BY <1>4
  <2>4. delivered[a + 1] = a + 1
    BY <1>3, <2>3 DEF DeliveredInOrder
  <2> QED BY <1>3, <2>2, <2>4 DEF BeginsMessage
<1>6. ASSUME NEW i \in 1 .. Len(calls), calls[i].kind # "terminate"
      PROVE  (i < c => LastCell(i) <= a) /\ (i > c => LastCell(i) > d)
  <2>1. PICK v, g : v = Width(calls[i]) /\ g = calls[i].first
    OBVIOUS
  <2>2. v \in Nat /\ v >= 1 /\ g \in Nat /\ LastCell(i) = g + v - 1
    BY <1>1, <1>6, <2>1, WidthIs
  <2>3. ASSUME i < c PROVE LastCell(i) <= a
    <3>1. c \in i + 1 .. Len(calls)
      BY <1>1, <1>2, <2>3
    <3>2. g + v <= f
      BY <1>3, <2>1, <3>1 DEF CallsInv, CallsChained
    <3> QED BY <1>4, <1>5, <2>2, <3>2
  <2>4. ASSUME i > c PROVE LastCell(i) > d
    <3>1. i \in c + 1 .. Len(calls)
      BY <1>1, <1>2, <2>4
    <3>2. f + w <= g
      BY <1>2, <1>3, <2>1, <3>1 DEF CallsInv, CallsChained
    <3> QED BY <1>4, <1>5, <2>2, <3>2
  <2> QED BY <2>3, <2>4
<1> QED BY <1>2, <1>3, <1>4, <1>5, <1>6

(* What is in the writer's and the reader's history, by type. *)
LEMMA HistoryIs ==
  ASSUME PInv
  PROVE  /\ Len(calls) \in Nat /\ DOMAIN calls = 1 .. Len(calls)
         /\ Analyzed \subseteq 1 .. Len(calls)
         /\ \A i \in Analyzed : /\ calls[i].kind = "event"
                                /\ LastCell(i) \in Nat /\ LastCell(i) >= 1
         /\ notified \in Seq(Notice)
         /\ start \in Nat /\ Len(delivered) \in Nat
<1>1. PTypes /\ CallsShaped
  BY DEF PInv
<1>2. Len(calls) \in Nat /\ DOMAIN calls = 1 .. Len(calls)
  BY <1>1 DEF PTypes
<1>3. ASSUME NEW i \in Analyzed
      PROVE  i \in 1 .. Len(calls) /\ calls[i].kind = "event" /\ LastCell(i) \in Nat /\ LastCell(i) >= 1
  <2>1. i \in 1 .. Len(calls) /\ calls[i].kind = "event"
    BY <1>2 DEF Analyzed, IsEvent
  <2>2. PICK f, w : f = calls[i].first /\ w = Width(calls[i])
    OBVIOUS
  <2>3. /\ f \in Nat /\ f >= 1 /\ w \in Nat /\ w >= 1 /\ LastCell(i) = f + w - 1
    BY <1>1, <2>1, <2>2, WidthIs
  <2> QED BY <2>1, <2>3
<1>4. notified \in Seq(Notice)
  BY <1>1 DEF PTypes, Notice, Kinds
<1>5. start \in Nat /\ Len(delivered) \in Nat
  BY <1>1 DEF PTypes, PInv, StreamsInv, ReaderShape
<1> QED BY <1>2, <1>3, <1>4, <1>5

(***************************************************************************)
(* The event that is told next, with its last cell at d, is behind those   *)
(* that were told before, and none is between them.                        *)
(***************************************************************************)
LEMMA EventSettles ==
  ASSUME PInv, UNCHANGED calls, SettledAt(start), ReplayedInOrder,
         NEW c \in Analyzed, NEW d \in Nat, Notify("event", c),
         start < d, LastCell(c) = d,
         \A i \in Analyzed : (i < c => LastCell(i) <= start) /\ (i > c => LastCell(i) > d)
  PROVE  SettledAt(d)' /\ ReplayedInOrder'
<1>1. PICK n, s : n = Len(notified) /\ s = start
  OBVIOUS
<1>2. /\ Len(calls) \in Nat /\ Analyzed \subseteq 1 .. Len(calls) /\ s \in Nat /\ s < d
      /\ \A i \in Analyzed : LastCell(i) \in Nat /\ calls[i].kind = "event"
      /\ notified \in Seq(Notice)
  BY <1>1, HistoryIs
<1>3. c \in Nat /\ c \in 1 .. Len(calls)
  BY <1>2
<1>4. /\ n \in Nat /\ Told \subseteq 1 .. n /\ Told' \subseteq 1 .. n + 1
      /\ \A k \in 1 .. n : notified'[k] = notified[k] /\ (k \in Told' <=> k \in Told)
      /\ n + 1 \in Told' /\ notified'[n + 1].call = c
  <2>1. "event" \in Kinds
    BY DEF Kinds
  <2> QED BY <1>1, <1>2, <1>3, <2>1, NoticeAdded
<1>5. /\ \A k \in Told : k \in Told' /\ notified'[k].call = notified[k].call /\ k < n + 1
      /\ \A k \in Told' : k \in Told \/ k = n + 1
  <2>1. \A k \in 1 .. n + 1 : k \in 1 .. n \/ k = n + 1
    BY <1>4
  <2>2. \A k \in 1 .. n : k < n + 1
    BY <1>4
  <2> QED BY <1>4, <2>1, <2>2
<1>6. Analyzed' = Analyzed /\ \A i : LastCell(i)' = LastCell(i)
  BY DEF Analyzed, IsEvent, LastCell
<1>7. \A k \in Told : notified[k].call \in Analyzed /\ LastCell(notified[k].call) <= s
  BY <1>1 DEF ReplayedInOrder, SettledAt
<1>8. \A i \in Analyzed : LastCell(i) <= s => i < c /\ \E k \in Told : notified[k].call = i
  <2> SUFFICES ASSUME NEW i \in Analyzed, LastCell(i) <= s
               PROVE  i < c /\ \E k \in Told : notified[k].call = i
    OBVIOUS
  <2>1. PICK z : z = LastCell(i)
    OBVIOUS
  <2>2. z \in Nat /\ z <= s /\ i \in Nat
    BY <1>2, <2>1
  <2>3. ~(i > c) /\ i # c
    BY <1>2, <2>1, <2>2
  <2>4. \E k \in Told : notified[k].call = i
    BY <1>1 DEF SettledAt
  <2> QED BY <1>3, <2>2, <2>3, <2>4
<1>9. ReplayedInOrder'
  <2>1. \A k \in Told' : notified'[k].call \in Analyzed'
    BY <1>4, <1>5, <1>6, <1>7
  <2>2. ASSUME NEW j \in Told', NEW k \in Told', j < k
        PROVE  notified'[j].call < notified'[k].call
    <3>1. j \in Told
      <4>1. j # n + 1
        BY <1>4, <2>2
      <4> QED BY <1>5, <4>1
    <3>2. CASE k \in Told
      BY <1>5, <2>2, <3>1, <3>2 DEF ReplayedInOrder
    <3>3. CASE k = n + 1
      BY <1>4, <1>5, <1>7, <1>8, <3>1, <3>3
    <3> QED BY <1>5, <3>2, <3>3
  <2>3. ASSUME NEW k \in Told', NEW i \in Analyzed', i < notified'[k].call
        PROVE  \E j \in Told' : notified'[j].call = i
    <3>1. i \in Analyzed
      BY <1>6
    <3>2. \E j \in Told : notified[j].call = i
      <4>1. CASE k \in Told
        BY <1>5, <2>3, <3>1, <4>1 DEF ReplayedInOrder
      <4>2. CASE k = n + 1
        BY <1>1, <1>4, <1>8, <2>3, <3>1, <4>2
      <4> QED BY <1>5, <4>1, <4>2
    <3> QED BY <1>5, <3>2
  <2> QED BY <2>1, <2>2, <2>3 DEF ReplayedInOrder
<1>10. SettledAt(d)'
  <2>1. \E i \in 1 .. Len(calls') : calls'[i].kind # "terminate" /\ LastCell(i)' = d
    BY <1>2, <1>3, <1>6
  <2>2. ASSUME NEW i \in Analyzed', LastCell(i)' <= d
        PROVE  \E k \in Told' : notified'[k].call = i
    <3>1. i \in Analyzed /\ LastCell(i) <= d /\ i \in Nat /\ LastCell(i) \in Nat
      BY <1>2, <1>6, <2>2
    <3>2. i = c \/ LastCell(i) <= s
      <4>1. ~(i > c)
        BY <1>1, <3>1
      <4>2. i < c \/ i = c
        BY <1>3, <3>1, <4>1
      <4> QED BY <1>1, <3>1, <4>2
    <3> QED BY <1>4, <1>5, <1>8, <3>1, <3>2
  <2>3. ASSUME NEW k \in Told', NEW i, i = notified'[k].call PROVE LastCell(i)' <= d
    <3>1. CASE k = n + 1
      <4>1. i = c /\ LastCell(i)' = LastCell(c)
        BY <1>4, <1>6, <2>3, <3>1
      <4>2. d <= d
        OBVIOUS
      <4> QED BY <4>1, <4>2
    <3>2. CASE k \in Told
      <4>1. i = notified[k].call
        BY <1>5, <2>3, <3>2
      <4>2. i \in Analyzed /\ LastCell(i) <= s /\ LastCell(i) \in Nat
        BY <1>2, <1>7, <3>2, <4>1
      <4>3. LastCell(i) <= d
        BY <1>2, <4>2
      <4> QED BY <1>6, <4>3
    <3> QED BY <1>5, <3>1, <3>2
  <2>4. \A k \in Told' : (LastCell(notified[k].call) <= d)'
    BY <2>3 DEF LastCell
  <2> QED BY <2>1, <2>2, <2>4 DEF SettledAt, LastCell
<1> QED BY <1>9, <1>10

(* The writer is not there any more when run() is called, and the reader not before. *)
LEMMA WriterKeepsReplay ==
  ASSUME PInv, ReplayInv, WriterActs
  PROVE  ReplayInv'
<1>1. UNCHANGED << stage, start, notified, delivered >>
  BY DEF WriterActs, rvars
<1>2. CASE stage = "new"
  <2>1. notified' = << >> /\ stage' = "new"
    BY <1>1, <1>2 DEF ReplayInv, Placed
  <2>2. Told' = {}
    BY <2>1 DEF Told
  <2> QED BY <2>1, <2>2 DEF ReplayInv, Placed, Settled, ReplayedInOrder
<1>3. CASE stage # "new"
  <2>1. Written
    BY <1>3 DEF PInv, RunsAfter
  <2>2. UNCHANGED wvars
    BY <2>1, ClosedStays DEF PInv, StreamsInv, WriterFacts, WInv, Written, WriterActs
  <2>3. UNCHANGED << calls, stored >> /\ (Interrupted' <=> Interrupted)
    BY <2>1, <2>2, SameFrames DEF WriterActs, Called, Written
  <2>4. Placed'
    BY <1>1, <2>3 DEF ReplayInv, Placed
  <2>5. PICK a, d : a = start /\ d = Len(delivered)
    OBVIOUS
  <2>6. /\ SettledAt(a) => SettledAt(a)'
        /\ SettledAt(d) => SettledAt(d)'
        /\ ReplayedInOrder => ReplayedInOrder'
    BY <1>1, <2>3, NothingTold, HistoryIs
  <2>7. SettledAt(start)' <=> SettledAt(a)'
    BY <1>1, <2>5 DEF SettledAt
  <2>8. SettledAt(Len(delivered))' <=> SettledAt(d)'
    BY <1>1, <2>5 DEF SettledAt
  <2>9. Settled'
    BY <1>1, <2>3, <2>5, <2>6, <2>7, <2>8 DEF ReplayInv, Settled
  <2> QED BY <2>3, <2>4, <2>6, <2>9 DEF ReplayInv
<1> QED BY <1>2, <1>3

(* Nothing is settled, and nothing need be, when run() begins. *)
LEMMA OpenKeepsReplay ==
  ASSUME PInv, ReplayInv, OpenFile
  PROVE  ReplayInv'
<1>1. stage = "new" /\ stage' = "first" /\ UNCHANGED << notified, calls >> /\ Reader!Open
  BY DEF OpenFile, ReaderFrame
<1>2. delivered = << >> /\ delivered' = << >>
  BY <1>1 DEF PInv, StreamsInv, ReaderInv, Reader!Open, Reader!RInit
<1>3. notified = << >> /\ notified' = << >> /\ Told' = {}
  BY <1>1 DEF ReplayInv, Placed, Told
<1>4. Analyzed' = Analyzed /\ \A i : LastCell(i)' = LastCell(i)
  BY <1>1 DEF Analyzed, IsEvent, LastCell
<1>5. \A i \in Analyzed' : ~(LastCell(i)' <= 0)
  BY <1>4, HistoryIs
<1>6. SettledAt(0)'
  BY <1>3, <1>5 DEF SettledAt
<1>7. Len(delivered)' = 0
  BY <1>2
<1>8. SettledAt(Len(delivered))'
  BY <1>6, <1>7 DEF SettledAt
<1>9. ReplayedInOrder'
  BY <1>3 DEF ReplayedInOrder
<1> QED BY <1>1, <1>2, <1>8, <1>9 DEF ReplayInv, Placed, Settled

(* tryGetReadBuffer finds nothing only when nothing is left. *)
LEMMA PeekFindsEnd ==
  ASSUME PInv, Peek, rstatus' = "open", avail'.from = avail'.to
  PROVE  rstatus = "open" /\ NothingLeft /\ NothingLeft'
<1>1. rstatus' = "open" /\ avail'.from = avail'.to
  OBVIOUS
<1>2. /\ WriterFacts /\ ReaderShape
      /\ avail.from \in Nat /\ avail.to \in Nat
  BY DecompressedRoom DEF PInv, StreamsInv, ReaderShape
<1>3. Reader!TryGetReadBuffer
  <2>1. ~(avail.from < avail.to /\ UNCHANGED rvars)
    BY <1>1, <1>2 DEF rvars
  <2> QED BY <2>1 DEF Peek, Refill
<1>4. avail.from = avail.to /\ rstatus = "open"
  BY <1>2, <1>3 DEF Reader!TryGetReadBuffer, Reader!InBuffer
<1>5. ASSUME NEW id \in DOMAIN sink, avail' = Reader!Slice(0, Len(sink[id].plain))
      PROVE  FALSE
  <2>1. PICK n : n = Len(sink[id].plain)
    OBVIOUS
  <2>2. n \in Nat /\ n >= 1
    BY <1>2, <2>1, FactsType
  <2>3. avail'.from = 0 /\ avail'.to = n
    BY <1>5, <2>1 DEF Reader!Slice
  <2>4. 0 = n
    BY ONLY <1>1, <2>3
  <2> QED BY ONLY <2>2, <2>4
<1>6. ~Reader!Dies
  BY <1>1 DEF Reader!Dies
<1>7. NothingLeft
  BY <1>3, <1>4, <1>5, <1>6 DEF Reader!TryGetReadBuffer, Reader!AtEnd, NothingLeft
<1>8. NothingLeft'
  BY <1>1, <1>3, <1>5, <1>6, <1>7 DEF Reader!TryGetReadBuffer, Reader!UnchangedFrame, NothingLeft
<1> QED BY <1>4, <1>7, <1>8

(* The loop ends when tryGetReadBuffer finds nothing, at the end of the file. *)
LEMMA LoopEndsAtEnd ==
  ASSUME PInv, Peek, stage' = "done"
  PROVE  Len(delivered) = stored
<1>1. rstatus' = "open" /\ avail'.from = avail'.to
  BY DEF Peek
<1>2. NothingLeft /\ rstatus = "open"
  BY <1>1, PeekFindsEnd
<1>3. PICK q : Reading(q)
  BY <1>2, StreamsPlace DEF PInv
<1> QED BY <1>2, <1>3, EndReached

(* Looking for the next message leaves all that is settled so. *)
LEMMA PeekKeepsReplay ==
  ASSUME PInv, ReplayInv, Peek
  PROVE  ReplayInv'
<1>1. /\ UNCHANGED wvars /\ UNCHANGED calls
      /\ stage \in {"first", "loop"} /\ start' = Len(delivered)
  BY DEF Peek, ReaderFrame
<1>2. UNCHANGED delivered /\ UNCHANGED stored /\ (Interrupted' <=> Interrupted)
  BY <1>1, SameFrames DEF Peek, Refill, rvars, Reader!TryGetReadBuffer, Reader!Dies
<1>3. UNCHANGED notified \/ \E kind \in Kinds \ {"event"} : Notify(kind, 0)
  BY DEF Peek, NothingRead, Kinds
<1>4. PICK d : d = Len(delivered)
  OBVIOUS
<1>5. (SettledAt(d) => SettledAt(d)') /\ (ReplayedInOrder => ReplayedInOrder')
  BY <1>1, <1>3, NothingTold, HistoryIs
<1>6. SettledAt(start)' <=> SettledAt(d)'
  BY <1>1, <1>4 DEF SettledAt
<1>7. SettledAt(Len(delivered))' <=> SettledAt(d)'
  BY <1>2, <1>4 DEF SettledAt
<1>8. Settled'
  BY <1>1, <1>2, <1>4, <1>5, <1>6, <1>7 DEF ReplayInv, Settled
<1>9. Placed'
  <2>1. stage' # "new" /\ stage' # "first"
    BY <1>1 DEF Peek, NothingRead
  <2>2. stage' = "header" => start' = 0
    BY <1>1 DEF Peek, NothingRead, ReplayInv, Placed
  <2>3. stage' = "done" => Len(delivered') = stored'
    BY <1>2, LoopEndsAtEnd
  <2> QED BY <2>1, <2>2, <2>3 DEF Placed
<1> QED BY <1>2, <1>5, <1>8, <1>9 DEF ReplayInv

(* So does every step inside a message, *)
LEMMA PartKeepsReplay ==
  ASSUME PInv, ReplayInv, ReadPart \/ Garbled
  PROVE  ReplayInv'
<1>1. /\ UNCHANGED wvars /\ UNCHANGED << calls, start, notified >>
      /\ stage \in {"header", "event"} /\ stage' \in {"dead", "threw", "garbled", stage}
  BY DEF ReadPart, Garbled, ReaderFrame
<1>2. Interrupted' <=> Interrupted
  BY <1>1, SameFrames
<1>3. PICK a : a = start
  OBVIOUS
<1>4. (SettledAt(a) => SettledAt(a)') /\ (ReplayedInOrder => ReplayedInOrder')
  BY <1>1, NothingTold, HistoryIs
<1>5. SettledAt(start)' <=> SettledAt(a)'
  BY <1>1, <1>3 DEF SettledAt
<1>6. Settled'
  BY <1>1, <1>2, <1>3, <1>4, <1>5 DEF ReplayInv, Settled
<1>7. Placed'
  BY <1>1 DEF ReplayInv, Placed
<1> QED BY <1>2, <1>4, <1>6, <1>7 DEF ReplayInv

(* A reader that is not new hands out the stream in order. *)
LEMMA StreamsOrder ==
  ASSUME StreamsInv
  PROVE  DeliveredInOrder
<1>1. CASE rstatus = "new"
  <2>1. delivered = << >>
    BY <1>1 DEF StreamsInv, ReaderInv, Reader!RInit
  <2> QED BY <2>1 DEF DeliveredInOrder
<1>2. CASE rstatus # "new"
  <2>1. PICK q : Reading(q)
    BY <1>2, StreamsPlace
  <2> QED BY <2>1 DEF Reading, Progress, InOrder, DeliveredInOrder
<1> QED BY <1>1, <1>2

(* The message at the beginning is the first call's, which is setup: no event precedes it. *)
LEMMA HeaderKeepsReplay ==
  ASSUME PInv, CallsInv, ReplayInv, HeaderRead
  PROVE  ReplayInv'
<1>1. /\ UNCHANGED wvars /\ UNCHANGED << calls, delivered >> /\ stage' = "loop"
      /\ stage = "header" /\ WholeMessage /\ Notify("setup", 0) /\ start = 0
  BY DEF HeaderRead, ReaderFrame, rvars, ReplayInv, Placed
<1>2. Interrupted' <=> Interrupted
  BY <1>1, SameFrames
<1>3. PICK d : d = Len(delivered)
  OBVIOUS
<1>4. (SettledAt(d) => SettledAt(d)') /\ (ReplayedInOrder => ReplayedInOrder')
  <2>1. "setup" \in Kinds \ {"event"}
    BY DEF Kinds
  <2> QED BY <1>1, <2>1, NothingTold, HistoryIs
<1>5. ASSUME ~Interrupted PROVE SettledAt(d)
  <2>1. SettledAt(0) /\ ReplayedInOrder
    BY <1>1, <1>5 DEF ReplayInv, Settled
  <2>2. PICK c : c = Current
    OBVIOUS
  <2>3. /\ c \in 1 .. Len(calls) /\ calls[c].kind # "terminate" /\ LastCell(c) = d
        /\ d \in Nat /\ 0 < d
        /\ \A i \in 1 .. Len(calls) : calls[i].kind # "terminate" =>
             (i < c => LastCell(i) <= 0) /\ (i > c => LastCell(i) > d)
    BY <1>1, <1>3, <1>5, <2>2, NextMessage, StreamsOrder DEF PInv
  <2>4. /\ Len(calls) \in Nat /\ Analyzed \subseteq 1 .. Len(calls)
        /\ \A i \in Analyzed : calls[i].kind = "event" /\ LastCell(i) \in Nat
    BY HistoryIs
  <2>5. 1 \in 1 .. Len(calls) /\ calls[1].kind = "setup"
    BY <2>3, <2>4 DEF CallsInv, CallsChained
  <2>6. c = 1
    <3>1. LastCell(1) >= 1
      <4>1. PICK f, w : f = calls[1].first /\ w = Width(calls[1])
        OBVIOUS
      <4>2. f \in Nat /\ f >= 1 /\ w \in Nat /\ w >= 1 /\ LastCell(1) = f + w - 1
        BY <2>5, <4>1, WidthIs DEF PInv
      <4> QED BY <4>2
    <3>2. PICK z : z = LastCell(1)
      OBVIOUS
    <3>3. 1 < c => LastCell(1) <= 0
      BY <2>3, <2>5
    <3>4. ~(z >= 1 /\ z <= 0)
      <4>1. z \in Nat
        <5>1. PICK f, w : f = calls[1].first /\ w = Width(calls[1])
          OBVIOUS
        <5>2. f \in Nat /\ f >= 1 /\ w \in Nat /\ w >= 1 /\ LastCell(1) = f + w - 1
          BY <2>5, <5>1, WidthIs DEF PInv
        <5> QED BY <3>2, <5>2
      <4> QED BY <4>1
    <3> QED BY <2>3, <2>4, <3>1, <3>2, <3>3, <3>4
  <2>7. \A i \in Analyzed : ~(LastCell(i) <= d)
    <3> SUFFICES ASSUME NEW i \in Analyzed PROVE ~(LastCell(i) <= d)
      OBVIOUS
    <3>1. i \in 1 .. Len(calls) /\ i > c /\ calls[i].kind # "terminate"
      BY <2>4, <2>5, <2>6
    <3>2. PICK z : z = LastCell(i)
      OBVIOUS
    <3>3. z \in Nat /\ z > d
      BY <2>3, <2>4, <3>1, <3>2
    <3> QED BY <2>3, <3>2, <3>3
  <2>8. \A k \in Told : LastCell(notified[k].call) <= d
    <3> SUFFICES ASSUME NEW k \in Told PROVE LastCell(notified[k].call) <= d
      OBVIOUS
    <3>1. PICK z : z = LastCell(notified[k].call)
      OBVIOUS
    <3>2. z \in Nat /\ z <= 0
      BY <2>1, <2>4, <3>1 DEF SettledAt, ReplayedInOrder
    <3> QED BY <2>3, <3>1, <3>2
  <2> QED BY <2>3, <2>7, <2>8 DEF SettledAt
<1>6. SettledAt(Len(delivered))' <=> SettledAt(d)'
  BY <1>1, <1>3 DEF SettledAt
<1>7. Settled'
  BY <1>1, <1>2, <1>4, <1>5, <1>6 DEF Settled
<1>8. Placed'
  BY <1>1 DEF Placed
<1> QED BY <1>2, <1>4, <1>7, <1>8 DEF ReplayInv

(* A whole message is the next event, or a header that run() does not expect. *)
LEMMA EventKeepsReplay ==
  ASSUME PInv, CallsInv, ReplayInv, EventRead
  PROVE  ReplayInv'
<1>1. /\ UNCHANGED wvars /\ UNCHANGED << calls, delivered >>
      /\ stage = "event" /\ WholeMessage
  BY DEF EventRead, ReaderFrame, rvars
<1>2. Interrupted' <=> Interrupted
  BY <1>1, SameFrames
<1>3. CASE stage' = "threw"
  <2>1. UNCHANGED notified
    BY <1>3 DEF EventRead
  <2>2. ReplayedInOrder => ReplayedInOrder'
    BY <1>1, <2>1, NothingTold, HistoryIs
  <2> QED BY <1>2, <1>3, <2>2 DEF ReplayInv, Placed, Settled
<1>4. CASE stage' = "loop"
  <2>1. PICK c, d : c = Current /\ d = Len(delivered)
    OBVIOUS
  <2>2. calls[c].kind = "event" /\ Notify("event", c)
    BY <1>4, <2>1 DEF EventRead
  <2>3. ASSUME ~Interrupted PROVE SettledAt(d)' /\ ReplayedInOrder'
    <3>1. SettledAt(start) /\ ReplayedInOrder
      BY <1>1, <2>3 DEF ReplayInv, Settled
    <3>2. /\ c \in 1 .. Len(calls) /\ LastCell(c) = d /\ d \in Nat /\ start < d
          /\ \A i \in 1 .. Len(calls) : calls[i].kind # "terminate" =>
               (i < c => LastCell(i) <= start) /\ (i > c => LastCell(i) > d)
      BY <1>1, <2>1, <2>3, NextMessage, StreamsOrder DEF PInv
    <3>3. c \in Analyzed
      BY <2>2, <3>2, HistoryIs DEF Analyzed, IsEvent
    <3>4. \A i \in Analyzed : (i < c => LastCell(i) <= start) /\ (i > c => LastCell(i) > d)
      BY <3>2, HistoryIs
    <3> QED BY <1>1, <2>2, <3>1, <3>2, <3>3, <3>4, EventSettles
  <2>4. SettledAt(Len(delivered))' <=> SettledAt(d)'
    BY <1>1, <2>1 DEF SettledAt
  <2> QED BY <1>2, <1>4, <2>3, <2>4 DEF ReplayInv, Placed, Settled
<1> QED BY <1>3, <1>4 DEF EventRead

-----------------------------------------------------------------------------
OrderInv == PInv /\ CallsInv /\ ReplayInv

(***************************************************************************)
(* The invariant of a replay: behind every message that the reader has     *)
(* taken, its analyzers have been told of the events up to there, and the  *)
(* stream goes on with the next message of the provider's.                 *)
(***************************************************************************)
THEOREM ReplayInvariant == PSpec => []OrderInv
<1>1. PInit => CallsInv /\ ReplayInv
  <2> SUFFICES ASSUME PInit PROVE CallsInv /\ ReplayInv
    OBVIOUS
  <2>1. /\ calls = << >> /\ pieces = << >> /\ stage = "new" /\ notified = << >>
        /\ accepted = 0
    BY DEF PInit, Init, WInit
  <2>2. Told = {}
    BY <2>1 DEF Told
  <2> QED BY <2>1, <2>2 DEF CallsInv, CallsChained, CallsAccounted, ReplayInv, Placed, Settled,
                            ReplayedInOrder
<1>2. PInv /\ CallsInv /\ ReplayInv /\ [PNext]_PVars => CallsInv' /\ ReplayInv'
  <2> SUFFICES ASSUME PInv, CallsInv, ReplayInv, [PNext]_PVars
               PROVE  CallsInv' /\ ReplayInv'
    OBVIOUS
  <2>1. CASE WriterNext
    <3>1. WriterActs
      BY <2>1, WriterStepActs DEF PInv, StreamsInv, WriterFacts, WInv
    <3> QED BY <2>1, <3>1, CallsKept, WriterKeepsReplay
  <2>2. CASE ReaderNext
    <3>1. UNCHANGED << calls, pieces, building, accepted, status >>
      BY <2>2 DEF ReaderNext, OpenFile, Peek, ReadPart, Garbled, HeaderRead, EventRead,
                  ReaderFrame, wvars
    <3>2. CallsInv'
      BY <3>1 DEF CallsInv, CallsChained, CallsAccounted
    <3> QED BY <2>2, <3>2, OpenKeepsReplay, PeekKeepsReplay, PartKeepsReplay, HeaderKeepsReplay,
               EventKeepsReplay DEF ReaderNext
  <2>3. CASE UNCHANGED PVars
    <3>1. WriterActs
      BY <2>3 DEF PInv, PTypes, WriterActs, PVars, pvars
    <3>2. CallsInv'
      BY <2>3 DEF CallsInv, CallsChained, CallsAccounted, PVars, pvars, wvars
    <3> QED BY <3>1, <3>2, WriterKeepsReplay
  <2> QED BY <2>1, <2>2, <2>3 DEF PNext
<1> QED BY <1>1, <1>2, MessagesInvariant, PTL DEF PSpec, OrderInv

(***************************************************************************)
(* The reader's analyzers see the events the writer saw, in that order,    *)
(* none twice and none left out, each decoded from the very cells that     *)
(* were written for it, for messages, frames and runs of any number and    *)
(* size: writeToOutput and tryRead cut the stream into other pieces than   *)
(* writeMessage and InputStreamMessageReader do.                           *)
(***************************************************************************)
THEOREM EventsReplayInOrder == PSpec => []ReplayInOrder
<1>1. OrderInv => ReplayInOrder
  <2> SUFFICES ASSUME OrderInv, ~Interrupted PROVE ReplayedInOrder /\ (WholeMessage => MessageIntact)
    BY DEF ReplayInOrder
  <2>1. PInv /\ CallsInv /\ ReplayedInOrder /\ DeliveredInOrder
    BY StreamsOrder DEF OrderInv, ReplayInv, PInv
  <2>2. ASSUME WholeMessage, NEW k \in 1 .. Taken
        PROVE  delivered[start + k] = calls[Current].first + k - 1
    <3>1. PICK c, a, d : c = Current /\ a = start /\ d = Len(delivered)
      OBVIOUS
    <3>2. calls[c].first = a + 1 /\ a \in Nat /\ d \in Nat /\ a < d
      BY <2>1, <2>2, <3>1, NextMessage
    <3>3. Taken = d - a
      BY <3>1 DEF Taken
    <3>4. a + k \in 1 .. d /\ a + k = (a + 1) + k - 1
      BY <2>2, <3>2, <3>3
    <3>5. delivered[a + k] = a + k
      BY <2>1, <3>1, <3>4 DEF DeliveredInOrder
    <3> QED BY <3>1, <3>2, <3>4, <3>5
  <2> QED BY <2>1, <2>2 DEF MessageIntact
<1> QED BY <1>1, ReplayInvariant, PTL

(***************************************************************************)
(* notifyTerminate is only called at the end of the last message of the    *)
(* file, when every event that is whole in it has been told: a file that   *)
(* is cut inside a message makes run() throw instead.                      *)
(***************************************************************************)
THEOREM TerminateIsKept == PSpec => []TerminateMeansKept
<1>1. OrderInv => TerminateMeansKept
  <2> SUFFICES ASSUME OrderInv, stage = "done", ~Interrupted
               PROVE  /\ stored = 0 \/ \E i \in DOMAIN calls :
                           calls[i].kind # "terminate" /\ LastCell(i) = stored
                      /\ \A i \in Analyzed :
                           LastCell(i) <= stored => \E k \in Told : notified[k].call = i
    BY DEF TerminateMeansKept
  <2>1. Len(delivered) = stored /\ SettledAt(Len(delivered)) /\ DOMAIN calls = 1 .. Len(calls)
    BY HistoryIs DEF OrderInv, ReplayInv, Placed, Settled
  <2>2. SettledAt(stored)
    BY <2>1
  <2> QED BY <2>1, <2>2 DEF SettledAt
<1> QED BY <1>1, ReplayInvariant, PTL

-----------------------------------------------------------------------------
(***************************************************************************)
(* The replay of an ordinary file: ProtoReader::run neither throws nor     *)
(* dies on it.  A provider that runs once and whose messages fit a chunk   *)
(* leaves chunks that are full but for the last one, in which each message *)
(* begins where the one before it ends; the sizes the message reader asks  *)
(* for are then always there.                                              *)
(***************************************************************************)

Message(i) == calls[i].kind # "terminate"

(* A message that writeToOutput takes without a chunk of the caller's memory. *)
Fits(segments) == TableSize(segments) <= BUFFER_SIZE /\ Total(segments) <= BUFFER_SIZE

OneRun ==
  \A i, j \in 1 .. Len(calls) : calls[i].kind = "setup" /\ calls[j].kind = "setup" => i = j

Modest == AllComplete /\ OneRun /\ \A i \in 1 .. Len(calls) : Fits(calls[i].segments)

Terminated == calls # << >> /\ Last(calls).kind = "terminate"

FullFrames == \A i \in 1 .. Len(sink) : Len(sink[i].plain) = BUFFER_SIZE

PiecesFit == pieces # << >> => Head(pieces) <= BUFFER_SIZE /\ Total(Tail(pieces)) <= BUFFER_SIZE

(***************************************************************************)
(* The writer's side: only terminate and the destructor write a chunk that *)
(* is not full, and nothing comes after it; no chunk is compressed from    *)
(* the memory of a caller.                                                 *)
(***************************************************************************)
Chunked ==
  /\ ~inLarge /\ PiecesFit
  /\ dict.region = Caller => dict.len = 0
  /\ WellChunked /\ SourcesKept
  /\ status = "open" => IF Terminated THEN bufferPos.off = 0 /\ pieces = << >> ELSE FullFrames

ChunkInv == Modest => Chunked

-----------------------------------------------------------------------------
(* A frame that is handed over and refers to no memory of a caller that was reused. *)
Sighted(f) == \A k \in 1 .. Len(f.sees) : f.sees[k] # 0

Handed(f, fails) ==
  /\ f \in Frame /\ sink' = Append(sink, f)
  /\ Complete(f) <=> ~fails
  /\ (dict.region = Caller => dict.len = 0) => Sighted(f)

(* What the compressor sees in a buffer is a byte of the stream. *)
LEMMA BlockIsSighted ==
  ASSUME WInv, status = "open",
         NEW plain \in Seq(Nat), NEW buffers \in [Buffers -> [Offsets -> Nat]],
         NEW fails \in BOOLEAN,
         NEW f, NewFrame(f, plain, buffers, fails),
         dict.region \in Buffers => buffers[dict.region] = writeBuffer[dict.region]
  PROVE  Handed(f, fails)
<1>1. f \in Frame /\ dict \in Dictionary
  BY DEF WInv, TypeOK, NewFrame
<1>2. ASSUME dict.region = Caller => dict.len = 0, NEW k \in 1 .. Len(f.sees)
      PROVE  f.sees[k] # 0
  <2>1. k \in 1 .. dict.len /\ f.sees[k] = DictSees(dict, buffers, k)
    BY DEF NewFrame
  <2>2. PICK n, z : n = dict.len /\ z = dict.last
    OBVIOUS
  <2>3. n \in Nat /\ z \in Nat /\ n <= z /\ k \in 1 .. n
    BY <1>1, <2>1, <2>2 DEF WInv, DictionaryPlaced, Dictionary
  <2>4. dict.region \in Buffers
    <3>1. n # 0
      BY <2>3
    <3> QED BY <1>1, <1>2, <2>2, <3>1 DEF Dictionary
  <2>5. DictSees(dict, buffers, k) = DictSees(dict, writeBuffer, k)
    BY <2>4 DEF DictSees
  <2>6. DictSees(dict, writeBuffer, k) = z - k + 1
    BY <2>1, <2>2, <2>4 DEF WInv, DictionaryIntact
  <2> QED BY <2>1, <2>3, <2>5, <2>6
<1> QED BY <1>1, <1>2 DEF Handed, Sighted, NewFrame

(* A write that spills hands over a full chunk, *)
LEMMA SpillIsFull ==
  ASSUME WInv, NEW size, NEW fails \in BOOLEAN, WriteSpills(size, fails)
  PROVE  \E f : Handed(f, fails) /\ Len(f.plain) = BUFFER_SIZE
<1> DEFINE plain == Contents(Filled[activeBuffer], BUFFER_SIZE)
<1>1. /\ status = "open" /\ ~inLarge
      /\ CompressAndWrite(activeBuffer, plain, Filled,
                          UsableHistory(activeBuffer, BUFFER_SIZE), fails)
  BY DEF WriteSpills
<1>2. activeBuffer \in Buffers /\ BUFFER_SIZE \in Nat
  BY FormatAssumption DEF WInv, TypeOK
<1>3. /\ Filled \in [Buffers -> [Offsets -> Nat]]
      /\ \A b \in Buffers : b # activeBuffer => Filled[b] = writeBuffer[b]
  BY <1>1, FilledContents
<1>4. plain \in Seq(Nat) /\ Len(plain) = BUFFER_SIZE
  BY <1>1, FilledBlock
<1>5. PICK f : NewFrame(f, plain, Filled, fails)
  <2>1. UsableHistory(activeBuffer, BUFFER_SIZE) \in 0 .. dict.len
    BY <1>2, UsableHistoryType DEF WInv
  <2> QED BY <1>1, <1>3, <1>4, <2>1, CompressAndWriteAppends DEF WInv
<1>6. dict.region \in Buffers => Filled[dict.region] = writeBuffer[dict.region]
  BY <1>1, <1>3 DEF WInv, DictionaryPlaced
<1>7. Len(f.plain) = BUFFER_SIZE
  BY <1>4, <1>5 DEF NewFrame
<1> HIDE DEF plain
<1>8. Handed(f, fails)
  BY <1>1, <1>3, <1>4, <1>5, <1>6, BlockIsSighted
<1> QED BY <1>7, <1>8

(* and what is in the buffer is handed over as it is. *)
LEMMA TailIsHanded ==
  ASSUME WInv, status = "open", ~inLarge, NEW fails \in BOOLEAN, bufferPos.off > 0,
         CompressAndWrite(activeBuffer, Contents(writeBuffer[activeBuffer], bufferPos.off),
                          writeBuffer, UsableHistory(activeBuffer, bufferPos.off), fails)
  PROVE  \E f : Handed(f, fails)
<1> DEFINE plain == Contents(writeBuffer[activeBuffer], bufferPos.off)
<1>1. activeBuffer \in Buffers /\ bufferPos.off \in Nat /\ writeBuffer \in [Buffers -> [Offsets -> Nat]]
  BY FormatAssumption DEF WInv, TypeOK
<1>2. plain \in Seq(Nat)
  BY TailBlock DEF Running
<1>3. PICK f : NewFrame(f, plain, writeBuffer, fails)
  <2>1. UsableHistory(activeBuffer, bufferPos.off) \in 0 .. dict.len
    BY <1>1, UsableHistoryType DEF WInv
  <2> QED BY <1>1, <1>2, <2>1, CompressAndWriteAppends DEF WInv
<1> HIDE DEF plain
<1>4. Handed(f, fails)
  BY <1>1, <1>2, <1>3, BlockIsSighted
<1> QED BY <1>4

(* One more frame behind full ones. *)
LEMMA ChunkAppended ==
  ASSUME sink \in Seq(Frame), FullFrames, SourcesKept,
         NEW f, NEW fails, Handed(f, fails), dict.region = Caller => dict.len = 0, AllComplete'
  PROVE  /\ WellChunked' /\ SourcesKept' /\ ~fails
         /\ Len(f.plain) = BUFFER_SIZE => FullFrames'
<1>1. PICK n : n = Len(sink)
  OBVIOUS
<1>2. /\ n \in Nat /\ Len(sink') = n + 1 /\ sink'[n + 1] = f
      /\ \A i \in 1 .. n : sink'[i] = sink[i]
  BY <1>1 DEF Handed
<1>3. \A i \in 1 .. n + 1 : i \in 1 .. n \/ i = n + 1
  BY <1>2
<1>4. Complete(f) /\ Sighted(f)
  <2>1. n + 1 \in 1 .. Len(sink')
    BY <1>2
  <2>2. Complete(sink'[n + 1])
    BY <2>1 DEF AllComplete, Complete, FrameSize, FRAME_HEADER_SIZE
  <2> QED BY <1>2, <2>2 DEF Handed
<1>5. \A i \in 1 .. Len(sink') - 1 : i \in 1 .. n
  BY <1>2
<1>6. WellChunked'
  BY <1>1, <1>2, <1>5 DEF WellChunked, FullFrames
<1>7. SourcesKept'
  BY <1>1, <1>2, <1>3, <1>4 DEF SourcesKept, Sighted
<1>8. Len(f.plain) = BUFFER_SIZE => FullFrames'
  BY <1>1, <1>2, <1>3 DEF FullFrames
<1> QED BY <1>4, <1>6, <1>7, <1>8 DEF Handed

-----------------------------------------------------------------------------
(* What one run writes that is modest was modest before. *)
LEMMA ModestBefore ==
  ASSUME PInv, WriterActs, Modest'
  PROVE  Modest
<1>1. WInv /\ BlockLeftBehind /\ sink \in Seq(Frame) /\ calls \in Seq(CallType)
  BY DEF PInv, StreamsInv, WriterFacts, FrameInv, WInv, TypeOK, PTypes, CallType, Kinds
<1>2. AllComplete
  <2>1. CASE UNCHANGED << sink, stored >>
    BY <2>1 DEF Modest, AllComplete, Complete, FrameSize, FRAME_HEADER_SIZE
  <2>2. CASE \E fails \in BOOLEAN : \E f : Hands(f, fails)
    <3>1. PICK f : sink' = Append(sink, f)
      BY <2>2 DEF Hands
    <3>2. \A i \in 1 .. Len(sink) : i \in 1 .. Len(sink') /\ sink'[i] = sink[i]
      BY <1>1, <3>1
    <3> QED BY <3>2 DEF Modest, AllComplete, Complete, FrameSize, FRAME_HEADER_SIZE
  <2> QED BY <1>1, <2>1, <2>2, StepHands DEF WriterActs
<1>3. \A i \in 1 .. Len(calls) : i \in 1 .. Len(calls') /\ calls'[i] = calls[i]
  <2>1. CASE UNCHANGED calls
    BY <2>1
  <2>2. CASE Called
    <3>1. PICK c : calls' = Append(calls, c)
      BY <2>2 DEF Called
    <3> QED BY <1>1, <3>1
  <2> QED BY <2>1, <2>2 DEF WriterActs
<1>4. \A i \in 1 .. Len(calls) : Fits(calls[i].segments)
  <2>1. \A i \in 1 .. Len(calls') : Fits(calls'[i].segments)
    BY Zenon DEF Modest, Fits, TableSize, Total
  <2> QED BY <1>3, <2>1
<1>5. OneRun
  BY <1>3 DEF Modest, OneRun
<1> QED BY <1>2, <1>4, <1>5 DEF Modest

(* The pieces of a message that fits, and what is left of them. *)
LEMMA PiecesOfMessage ==
  ASSUME NEW s \in Seq(Nat), Len(s) >= 1, Fits(s)
  PROVE  /\ MessagePieces(s) # << >>
         /\ Head(MessagePieces(s)) <= BUFFER_SIZE
         /\ Total(Tail(MessagePieces(s))) <= BUFFER_SIZE
<1>1. PICK a, p : a = TableSize(s) /\ p = MessagePieces(s)
  OBVIOUS
<1>2. a \in Nat /\ a <= BUFFER_SIZE /\ Total(s) <= BUFFER_SIZE
  BY <1>1, SizesAre DEF Fits
<1>3. p = << a >> \o s /\ << a >> \in Seq(Nat)
  BY <1>1, <1>2 DEF MessagePieces
<1>4. p # << >> /\ Head(p) = a /\ Tail(p) = s
  BY ONLY <1>3, s \in Seq(Nat)
<1> QED BY <1>1, <1>2, <1>4

(* The pieces that are left fit as well. *)
LEMMA PiecesStayFit ==
  ASSUME pieces \in Seq(Nat), pieces # << >>, PiecesFit, pieces' = Tail(pieces)
  PROVE  PiecesFit'
<1> SUFFICES ASSUME pieces' # << >>
             PROVE  Head(pieces') <= BUFFER_SIZE /\ Total(Tail(pieces')) <= BUFFER_SIZE
  BY DEF PiecesFit, Total
<1>1. PICK t, h, r : t = Tail(pieces) /\ h = Head(t) /\ r = Total(Tail(t))
  OBVIOUS
<1>2. t \in Seq(Nat) /\ t # << >> /\ pieces' = t /\ Total(t) <= BUFFER_SIZE
  BY <1>1 DEF PiecesFit
<1>3. Total(t) = h + r /\ Total(t) \in Nat /\ r \in Nat
  BY <1>1, <1>2, TotalTail
<1>4. h \in Nat
  <2>1. Head(t) \in Nat
    BY <1>2, HeadTailProperties
  <2> QED BY <1>1, <2>1
<1>5. h <= BUFFER_SIZE /\ r <= BUFFER_SIZE
  BY <1>2, <1>3, <1>4, FormatAssumption
<1> QED BY <1>1, <1>2, <1>5

(* The kind of the last call, after one more. *)
LEMMA CallIsLast ==
  ASSUME PTypes, NEW c \in CallType, calls' = Append(calls, c)
  PROVE  /\ Len(calls) \in Nat /\ Len(calls') = Len(calls) + 1
         /\ calls'[Len(calls) + 1] = c /\ \A i \in 1 .. Len(calls) : calls'[i] = calls[i]
         /\ Terminated' <=> c.kind = "terminate"
<1>1. calls \in Seq(CallType)
  BY DEF PTypes, CallType, Kinds
<1>2. PICK t, n : t = calls' /\ n = Len(calls)
  OBVIOUS
<1>3. /\ n \in Nat /\ Len(t) = n + 1 /\ t[n + 1] = c /\ t # << >>
      /\ \A i \in 1 .. n : t[i] = calls[i]
  BY <1>1, <1>2
<1>4. Last(calls)' = c
  BY <1>2, <1>3 DEF Last
<1> QED BY <1>2, <1>3, <1>4 DEF Terminated

(* The calls that start a message: setup, which comes but once, and analyze. *)
LEMMA SendKeepsChunks ==
  ASSUME PInv, CallsInv, Chunked, Modest', status = "open",
         NEW kind \in {"setup", "event"}, NEW segments \in Shapes,
         kind = "event" => ~Terminated, Send(kind, segments)
  PROVE  Chunked'
<1>1. segments \in Seq(Nat) /\ Len(segments) >= 1 /\ accepted \in Nat
  BY ShapeIs DEF PInv, StreamsInv, WriterFacts, WInv, TypeOK
<1>2. PICK c : c = Call(kind, segments)
  OBVIOUS
<1>3. c \in CallType /\ c.kind = kind /\ c.segments = segments /\ calls' = Append(calls, c)
  <2>1. accepted + 1 \in Nat \ {0}
    BY <1>1
  <2> QED BY <1>1, <1>2, <2>1 DEF Call, CallType, Kinds, Send
<1>4. PICK n : n = Len(calls)
  OBVIOUS
<1>5. /\ n \in Nat /\ Len(calls') = n + 1 /\ calls'[n + 1] = c
      /\ \A i \in 1 .. n : calls'[i] = calls[i]
      /\ ~Terminated'
  BY <1>3, <1>4, CallIsLast DEF PInv
<1>6. Fits(segments)
  <2>1. \A i \in 1 .. Len(calls') : Fits(calls'[i].segments)
    BY Zenon DEF Modest, Fits, TableSize, Total
  <2>2. n + 1 \in 1 .. Len(calls')
    BY <1>5
  <2> QED BY <1>3, <1>5, <2>1, <2>2
<1>7. ~Terminated
  <2> SUFFICES ASSUME kind = "setup", Terminated PROVE FALSE
    OBVIOUS
  <2>1. calls # << >> /\ n # 0
    <3>1. calls # << >> /\ calls \in Seq(CallType)
      BY DEF Terminated, PInv, PTypes, CallType, Kinds
    <3> QED BY <1>4, <3>1
  <2>2. 1 \in 1 .. n /\ calls[1].kind = "setup"
    BY <1>5, <2>1 DEF CallsInv, CallsChained
  <2>3. 1 \in 1 .. Len(calls') /\ n + 1 \in 1 .. Len(calls')
    BY <1>5, <2>1
  <2>4. 1 = n + 1
    BY <1>3, <1>5, <2>2, <2>3 DEF Modest, OneRun
  <2> QED BY <1>5, <2>1, <2>4
<1>8. UNCHANGED wvars /\ pieces' = MessagePieces(segments)
  BY DEF Send
<1>9. PiecesFit'
  <2>1. PICK p : p = MessagePieces(segments)
    OBVIOUS
  <2>2. Head(p) <= BUFFER_SIZE /\ Total(Tail(p)) <= BUFFER_SIZE
    BY <1>1, <1>6, <2>1, PiecesOfMessage
  <2>3. pieces' = p
    BY <1>8, <2>1
  <2> QED BY <2>2, <2>3 DEF PiecesFit, Total
<1>10. UNCHANGED << inLarge, dict, sink, status, bufferPos >>
  BY <1>8 DEF wvars
<1>11. WellChunked' /\ SourcesKept' /\ FullFrames'
  BY <1>7, <1>10 DEF Chunked, WellChunked, SourcesKept, FullFrames, AllComplete, Complete,
                     FrameSize, FRAME_HEADER_SIZE
<1> QED BY <1>5, <1>9, <1>10, <1>11 DEF Chunked

(* Nothing of the stream is touched, or only the caller's and the buffer's place. *)
LEMMA SinkStaysChunked ==
  ASSUME Chunked, UNCHANGED << sink, inLarge >>, dict' = dict \/ dict' = NoDictionary,
         PiecesFit',
         status' = "open" =>
           IF Terminated' THEN bufferPos'.off = 0 /\ pieces' = << >> ELSE status = "open" /\ ~Terminated
  PROVE  Chunked'
<1>1. WellChunked' /\ SourcesKept' /\ (FullFrames => FullFrames')
  BY DEF Chunked, WellChunked, SourcesKept, FullFrames, AllComplete, Complete,
         FrameSize, FRAME_HEADER_SIZE
<1>2. (dict.region = Caller => dict.len = 0)'
  BY DEF Chunked, NoDictionary
<1> QED BY <1>1, <1>2 DEF Chunked

(* The pieces of a message, *)
LEMMA PieceKeepsChunks ==
  ASSUME PInv, Chunked, AllComplete', NEW fails \in BOOLEAN, WritePiece(fails)
  PROVE  Chunked'
<1>1. PICK h : h = Head(pieces)
  OBVIOUS
<1>2. /\ WInv /\ sink \in Seq(Frame) /\ pieces \in Seq(Nat) /\ pieces # << >> /\ h \in Nat
      /\ pieces' = Tail(pieces) /\ h <= BUFFER_SIZE /\ calls' = calls /\ status = "open"
      /\ activeBuffer \in Buffers /\ BUFFER_SIZE \in Nat
  <2>1. WInv /\ sink \in Seq(Frame) /\ activeBuffer \in Buffers /\ BUFFER_SIZE \in Nat
    BY FormatAssumption DEF PInv, StreamsInv, WriterFacts, WInv, TypeOK
  <2>2. pieces \in Seq(Nat) /\ pieces # << >> /\ pieces' = Tail(pieces) /\ calls' = calls
    BY DEF PInv, PTypes, WritePiece
  <2>3. h \in Nat
    BY <1>1, <2>2
  <2>4. h <= BUFFER_SIZE
    BY <1>1, <2>2 DEF Chunked, PiecesFit
  <2>5. status = "open"
    BY DEF WritePiece, WriteFits, WriteSpills, WriteLargeFill
  <2> QED BY <2>1, <2>2, <2>3, <2>4, <2>5
<1>3. PiecesFit'
  BY <1>2, PiecesStayFit DEF Chunked
<1>4. ~Terminated /\ ~Terminated' /\ FullFrames
  BY <1>2 DEF Chunked, Terminated, Last
<1>5. CASE WriteFits(h)
  BY <1>2, <1>3, <1>4, <1>5, SinkStaysChunked DEF WriteFits
<1>6. CASE WriteSpills(h, fails)
  <2>1. PICK f : Handed(f, fails) /\ Len(f.plain) = BUFFER_SIZE
    BY <1>2, <1>6, SpillIsFull
  <2>2. WellChunked' /\ SourcesKept' /\ FullFrames'
    BY <1>2, <1>4, <2>1, ChunkAppended DEF Chunked
  <2>3. dict'.region \in Buffers /\ ~inLarge'
    BY <1>2, <1>6 DEF WriteSpills, DictIsBuffer, Chunked
  <2>4. dict'.region # Caller
    BY <2>3 DEF Buffers, Caller
  <2> QED BY <1>3, <1>4, <2>2, <2>3, <2>4 DEF Chunked
<1>7. ~WriteLargeFill(h, fails)
  BY <1>2 DEF WriteLargeFill
<1> QED BY <1>1, <1>5, <1>6, <1>7 DEF WritePiece

(* the return of the call that wrote it, *)
LEMMA ReturnKeepsChunks ==
  ASSUME PInv, CallsInv, Chunked, AllComplete, Return
  PROVE  Chunked'
<1>1. status = "open" /\ dict \in Dictionary
  BY DEF PInv, StreamsInv, WriterFacts, WInv, ErrorsShow, TypeOK, Return
<1>2. dict' = dict
  <2>1. ~(dict.region = Caller /\ dict.len > 0)
    BY DEF Chunked
  <2> QED BY <2>1 DEF Return
<1>3. UNCHANGED << calls, sink, inLarge, bufferPos, status >> /\ pieces' = << >>
  BY DEF Return
<1>4. PiecesFit' /\ (Terminated' <=> Terminated)
  BY <1>3 DEF PiecesFit, Terminated, Last
<1> QED BY <1>1, <1>2, <1>3, <1>4, SinkStaysChunked DEF Chunked

(* terminate, whose chunk is the last one, *)
LEMMA TerminateKeepsChunks ==
  ASSUME PInv, CallsInv, Chunked, AllComplete', NEW fails \in BOOLEAN, Terminate(fails)
  PROVE  Chunked'
<1>1. /\ WInv /\ sink \in Seq(Frame) /\ status = "open" /\ ~building /\ accepted \in Nat
      /\ activeBuffer \in Buffers
  BY DEF PInv, StreamsInv, WriterFacts, WInv, TypeOK, Terminate, Ready
<1>2. PICK c : c = Call("terminate", << >>)
  OBVIOUS
<1>3. c \in CallType /\ c.kind = "terminate" /\ calls' = Append(calls, c)
  <2>1. accepted + 1 \in Nat \ {0} /\ << >> \in Seq(Nat)
    BY <1>1
  <2> QED BY <1>2, <2>1 DEF Call, CallType, Kinds, Terminate
<1>4. Terminated'
  BY <1>3, CallIsLast DEF PInv
<1>5. pieces = << >> /\ pieces' = << >> /\ PiecesFit'
  BY <1>1 DEF CallsInv, CallsAccounted, Terminate, PiecesFit
<1>6. FullFrames
  BY <1>1 DEF Chunked, Terminate, Between, Terminated
<1>7. CASE Flush(fails)
  <2>1. PICK f : Handed(f, fails)
    BY <1>1, <1>7, TailIsHanded DEF Flush
  <2>2. WellChunked' /\ SourcesKept' /\ ~fails
    BY <1>1, <1>6, <2>1, ChunkAppended DEF Chunked
  <2>3. dict'.region \in Buffers /\ ~inLarge' /\ bufferPos'.off = 0
    BY <1>1, <1>7, <2>2 DEF Flush, DictIsBuffer
  <2>4. dict'.region # Caller
    BY <2>3 DEF Buffers, Caller
  <2> QED BY <1>4, <1>5, <2>2, <2>3, <2>4 DEF Chunked
<1>8. CASE bufferPos.off = 0 /\ UNCHANGED wvars
  <2>1. UNCHANGED << sink, inLarge, dict, bufferPos, status >>
    BY <1>8 DEF wvars
  <2> QED BY <1>4, <1>5, <1>8, <2>1, SinkStaysChunked
<1> QED BY <1>7, <1>8 DEF Terminate

(* and the destructor, whose chunk is the last one otherwise. *)
LEMMA DestroyKeepsChunks ==
  ASSUME PInv, Chunked, AllComplete, AllComplete',
         NEW fails \in BOOLEAN, NEW unwinding, Destroy(fails, unwinding)
  PROVE  Chunked'
<1>1. WInv /\ sink \in Seq(Frame) /\ status = "open" /\ bufferPos.buf = activeBuffer /\ ~inLarge
  BY DEF PInv, StreamsInv, WriterFacts, WInv, TypeOK, ErrorsShow, BufferHoldsTail, Chunked,
         Destroy, DestroyFlush, DestroyAcross, DestroyEmpty, Destroyed
<1>2. UNCHANGED << inLarge, pieces >> /\ status' = "closed" /\ dict' = NoDictionary
  BY DEF Destroy, DestroyFlush, DestroyAcross, DestroyEmpty, Freed
<1>3. PiecesFit'
  BY <1>2 DEF Chunked, PiecesFit, Total
<1>4. CASE DestroyFlush(fails)
  <2>1. FullFrames
    BY <1>1, <1>4 DEF DestroyFlush, Chunked
  <2>2. PICK f : Handed(f, fails)
    BY <1>1, <1>4, TailIsHanded DEF DestroyFlush
  <2>3. WellChunked' /\ SourcesKept'
    BY <1>1, <2>1, <2>2, ChunkAppended DEF Chunked
  <2>4. (dict.region = Caller => dict.len = 0)'
    BY <1>2 DEF NoDictionary
  <2> QED BY <1>1, <1>2, <1>3, <2>3, <2>4 DEF Chunked
<1>5. ~DestroyAcross(fails)
  BY <1>1 DEF DestroyAcross
<1>6. CASE DestroyEmpty
  BY <1>2, <1>3, <1>6, SinkStaysChunked DEF DestroyEmpty
<1> QED BY <1>4, <1>5, <1>6 DEF Destroy

(* So does every step of the writer, of files of one run whose messages fit. *)
LEMMA ChunksKept ==
  ASSUME PInv, CallsInv, ChunkInv, WriterNext
  PROVE  ChunkInv'
<1> SUFFICES ASSUME Modest' PROVE Chunked'
  BY DEF ChunkInv
<1>1. PTypes /\ TypeOK
  BY DEF PInv, StreamsInv, WriterFacts, WInv
<1>2. Modest /\ AllComplete' /\ AllComplete
  BY <1>1, WriterStepActs, ModestBefore DEF Modest
<1>3. Chunked
  BY <1>2 DEF ChunkInv
<1>4. \A fails \in Outcomes : fails \in BOOLEAN
  BY Zenon DEF Outcomes
<1>5. CASE Setup
  <2>1. HeaderShape \in Shapes
    BY DEF Shapes
  <2> QED BY <1>3, <1>5, <2>1, SendKeepsChunks DEF Setup, Ready
<1>6. CASE Analyze
  <2>1. PICK segments \in EventShapes : Send("event", segments)
    BY <1>6 DEF Analyze
  <2>2. segments \in Shapes /\ status = "open" /\ ~Terminated
    BY <1>6 DEF Shapes, Analyze, Ready, Between, Terminated
  <2> QED BY <1>3, <2>1, <2>2, SendKeepsChunks
<1>7. ASSUME NEW fails \in Outcomes, WritePiece(fails) PROVE Chunked'
  BY <1>2, <1>3, <1>4, <1>7, PieceKeepsChunks
<1>8. ASSUME NEW fails \in Outcomes, WriteMore(fails) PROVE Chunked'
  BY <1>3, <1>8 DEF WriteMore, WriteLargeChunk, WriteLargeRest, Chunked
<1>9. ASSUME NEW fails \in Outcomes, Terminate(fails) PROVE Chunked'
  BY <1>2, <1>3, <1>4, <1>9, TerminateKeepsChunks
<1>10. ASSUME NEW fails \in Outcomes, NEW unwinding \in BOOLEAN, Destroy(fails, unwinding)
       PROVE  Chunked'
  BY <1>2, <1>3, <1>4, <1>10, DestroyKeepsChunks
<1>11. CASE Return
  BY <1>2, <1>3, <1>11, ReturnKeepsChunks
<1>12. CASE Die
  <2>1. UNCHANGED << sink, inLarge >> /\ dict' = NoDictionary /\ status' = "crashed" /\ pieces' = << >>
    BY <1>12 DEF Die, Crash, Freed
  <2>2. PiecesFit'
    BY <2>1 DEF PiecesFit
  <2> QED BY <1>3, <2>1, <2>2, SinkStaysChunked
<1> QED BY <1>5, <1>6, <1>7, <1>8, <1>9, <1>10, <1>11, <1>12 DEF WriterNext

-----------------------------------------------------------------------------
(* Another message begins behind the i-th, or its pieces are the last of the stream. *)
Followed(i) == \E j \in 1 .. Len(calls) : Message(j) /\ calls[j].first = LastCell(i) + 1

AtRear(i) == LastCell(i) >= accepted /\ (status = "open" => LastCell(i) = accepted + Total(pieces))

(* No cell of the stream lies between two messages, and no closed file lacks the end of one. *)
Linked == \A i \in 1 .. Len(calls) : Message(i) => Followed(i) \/ AtRear(i)

NothingCut ==
  status = "closed" /\ AllComplete => \A i \in 1 .. Len(calls) : Message(i) => LastCell(i) <= accepted

LinkInv == Linked /\ NothingCut

(* One more call: *)
LEMMA CallLinked ==
  ASSUME PTypes, CallsShaped, CallsInv, Linked, status = "open", accepted \in Nat, pieces = << >>,
         NEW c \in CallType, c.first = accepted + 1, calls' = Append(calls, c),
         accepted' = accepted, Total(pieces') = Width(c), Width(c) \in Nat
  PROVE  Linked'
<1>1. PICK n, a, w : n = Len(calls) /\ a = accepted /\ w = Width(c)
  OBVIOUS
<1>2. /\ n \in Nat /\ a \in Nat /\ w \in Nat /\ Len(calls') = n + 1
      /\ \A i \in 1 .. n : calls'[i] = calls[i]
      /\ calls'[n + 1] = c
  BY <1>1, CallIsLast
<1>3. \A i \in 1 .. n : LastCell(i)' = LastCell(i) /\ (Message(i)' <=> Message(i))
  BY <1>2 DEF LastCell, Message
<1>4. \A j \in 1 .. n : j \in 1 .. n + 1
  BY <1>2
<1>5. Total(pieces) = 0
  BY TotalNone
<1>6. ASSUME NEW i \in 1 .. n, Message(i)
      PROVE  \/ \E j \in 1 .. n + 1 : Message(j)' /\ calls'[j].first = LastCell(i)' + 1
             \/ LastCell(i)' >= a /\ LastCell(i)' = a + w
  <2>1. CASE Followed(i)
    <3>1. PICK j \in 1 .. n : Message(j) /\ calls[j].first = LastCell(i) + 1
      BY <1>1, <2>1 DEF Followed
    <3> QED BY <1>2, <1>3, <1>4, <3>1
  <2>2. CASE ~Followed(i)
    <3>1. LastCell(i) = a + 0
      BY <1>1, <1>5, <1>6, <2>2 DEF Linked, AtRear
    <3>2. LastCell(i) = a
      BY <1>2, <3>1
    <3>3. CASE c.kind = "terminate"
      <4>1. w = 0
        BY <1>1, <3>3 DEF Width
      <4> QED BY <1>2, <1>3, <3>2, <4>1
    <3>4. CASE c.kind # "terminate"
      <4>1. n + 1 \in 1 .. n + 1 /\ Message(n + 1)'
        BY <1>2, <3>4 DEF Message
      <4>2. calls'[n + 1].first = LastCell(i)' + 1
        BY <1>1, <1>2, <1>3, <3>2
      <4> QED BY <4>1, <4>2
    <3> QED BY <3>3, <3>4
  <2> QED BY <2>1, <2>2
<1>7. ASSUME Message(n + 1)' PROVE LastCell(n + 1)' >= a /\ LastCell(n + 1)' = a + w
  <2>1. w = MessageSize(c.segments)
    BY <1>1, <1>2, <1>7 DEF Width, Message
  <2>2. LastCell(n + 1)' = c.first + w - 1
    BY <1>2, <2>1 DEF LastCell
  <2>3. c.first = a + 1
    BY <1>1
  <2>4. (a + 1) + w - 1 = a + w /\ a + w >= a
    BY ONLY <1>2
  <2> QED BY <2>2, <2>3, <2>4
<1>8. ASSUME NEW i \in 1 .. n + 1, Message(i)'
      PROVE  \/ \E j \in 1 .. n + 1 : Message(j)' /\ calls'[j].first = LastCell(i)' + 1
             \/ LastCell(i)' >= a /\ LastCell(i)' = a + w
  <2>1. i \in 1 .. n \/ i = n + 1
    BY <1>2
  <2> QED BY <1>3, <1>6, <1>7, <1>8, <2>1
<1> QED BY <1>1, <1>2, <1>8 DEF Linked, Followed, AtRear

(* any step of the stream that takes from the pieces what it accepts; *)
LEMMA LinkKept ==
  ASSUME Linked, UNCHANGED calls, status' = "open" => status = "open",
         \/ UNCHANGED accepted /\ (status' = "open" => Total(pieces') = Total(pieces))
         \/ /\ status = "open"
            /\ accepted' \in Nat /\ Total(pieces') \in Nat
            /\ accepted' + Total(pieces') = accepted + Total(pieces)
  PROVE  Linked'
<1>1. \A i : /\ LastCell(i)' = LastCell(i) /\ (Message(i)' <=> Message(i))
             /\ Followed(i)' <=> Followed(i)
  BY DEF LastCell, Message, Followed
<1>2. ASSUME NEW i \in 1 .. Len(calls), AtRear(i) PROVE AtRear(i)'
  <2>1. CASE UNCHANGED accepted /\ (status' = "open" => Total(pieces') = Total(pieces))
    BY <1>1, <1>2, <2>1 DEF AtRear
  <2>2. CASE /\ status = "open"
             /\ accepted' \in Nat /\ Total(pieces') \in Nat
             /\ accepted' + Total(pieces') = accepted + Total(pieces)
    <3>1. PICK z, b, r : z = LastCell(i) /\ b = accepted' /\ r = Total(pieces')
      OBVIOUS
    <3>2. z = b + r /\ b \in Nat /\ r \in Nat
      BY <1>2, <2>2, <3>1 DEF AtRear
    <3>3. z >= b
      BY <3>2
    <3> QED BY <1>1, <3>1, <3>2, <3>3 DEF AtRear
  <2> QED BY <2>1, <2>2
<1> QED BY <1>1, <1>2 DEF Linked

(* So does every step of the writer. *)
LEMMA LinkedKept ==
  ASSUME PInv, CallsInv, Linked, WriterNext
  PROVE  Linked'
<1>1. /\ PTypes /\ CallsShaped /\ accepted \in Nat /\ pieces \in Seq(Nat)
  BY DEF PInv, StreamsInv, WriterFacts, WInv, TypeOK, PTypes
<1>2. Ready => pieces = << >> /\ status = "open"
  BY DEF Ready, CallsInv, CallsAccounted
<1>3. ASSUME Ready, NEW kind \in {"setup", "event"}, NEW segments \in Shapes, Send(kind, segments)
      PROVE  Linked'
  <2>1. segments \in Seq(Nat) /\ Len(segments) >= 1
    BY ShapeIs
  <2>2. PICK c : c = Call(kind, segments)
    OBVIOUS
  <2>3. c \in CallType /\ c.first = accepted + 1 /\ c.kind = kind /\ c.segments = segments
    <3>1. accepted + 1 \in Nat \ {0}
      BY <1>1
    <3> QED BY <2>1, <2>2, <3>1 DEF Call, CallType, Kinds
  <2>4. Width(c) = MessageSize(segments) /\ Width(c) \in Nat
    BY <2>1, <2>3, SizesAre DEF Width
  <2>5. Total(pieces') = Width(c)
    <3>1. pieces' = MessagePieces(segments)
      BY <1>3 DEF Send
    <3>2. Total(MessagePieces(segments)) = MessageSize(segments)
      BY <2>1, TotalPieces
    <3> QED BY <2>4, <3>1, <3>2
  <2>6. calls' = Append(calls, c) /\ accepted' = accepted
    BY <1>3, <2>2 DEF Send, wvars
  <2> QED BY <1>1, <1>2, <1>3, <2>3, <2>4, <2>5, <2>6, CallLinked
<1>4. CASE Setup
  <2>1. HeaderShape \in Shapes
    BY DEF Shapes
  <2> QED BY <1>3, <1>4, <2>1 DEF Setup
<1>5. CASE Analyze
  <2>1. PICK segments \in EventShapes : Send("event", segments)
    BY <1>5 DEF Analyze
  <2>2. segments \in Shapes /\ Ready
    BY <1>5 DEF Shapes, Analyze
  <2> QED BY <1>3, <2>1, <2>2
<1>6. ASSUME NEW fails \in Outcomes, WritePiece(fails) PROVE Linked'
  <2>1. PICK h, t, a : h = Head(pieces) /\ t = Tail(pieces) /\ a = accepted
    OBVIOUS
  <2>2. /\ h \in Nat /\ t \in Seq(Nat) /\ a \in Nat /\ pieces # << >>
        /\ accepted' = a + h /\ pieces' = t /\ UNCHANGED calls /\ status = "open"
    BY <1>1, <1>6, <2>1 DEF WritePiece, WriteFits, WriteSpills, WriteLargeFill
  <2>3. PICK x, y : x = Total(pieces) /\ y = Total(t)
    OBVIOUS
  <2>4. x = h + y /\ y \in Nat
    BY <1>1, <2>1, <2>2, <2>3, TotalTail
  <2>5. (a + h) + y = a + x /\ a + h \in Nat
    BY ONLY <2>2, <2>4
  <2>6. /\ accepted' \in Nat /\ Total(pieces') \in Nat
        /\ accepted' + Total(pieces') = accepted + Total(pieces)
    BY <2>1, <2>2, <2>3, <2>4, <2>5
  <2> QED BY <2>2, <2>6, LinkKept
<1>7. ASSUME NEW fails \in Outcomes, Terminate(fails) PROVE Linked'
  <2>1. PICK c : c = Call("terminate", << >>)
    OBVIOUS
  <2>2. c \in CallType /\ c.first = accepted + 1 /\ c.kind = "terminate"
    <3>1. accepted + 1 \in Nat \ {0} /\ << >> \in Seq(Nat)
      BY <1>1
    <3> QED BY <2>1, <3>1 DEF Call, CallType, Kinds
  <2>3. Width(c) = 0 /\ Width(c) \in Nat
    BY <2>2 DEF Width
  <2>4. calls' = Append(calls, c) /\ pieces' = pieces /\ Ready
    BY <1>7, <2>1 DEF Terminate
  <2>5. accepted' = accepted
    BY <1>7 DEF Terminate, Flush, wvars
  <2>6. Total(pieces') = Width(c)
    BY <1>2, <2>3, <2>4, TotalNone
  <2> QED BY <1>1, <1>2, <2>2, <2>3, <2>4, <2>5, <2>6, CallLinked
<1>8. ASSUME UNCHANGED << calls, accepted >>, status' = "open" => status = "open" /\ pieces' = pieces
      PROVE  Linked'
  <2>1. status' = "open" => Total(pieces') = Total(pieces)
    BY <1>8
  <2> QED BY <1>8, <2>1, LinkKept
<1>9. ASSUME NEW fails \in Outcomes, WriteMore(fails) PROVE Linked'
  <2>1. UNCHANGED << calls, accepted, pieces >> /\ status = "open"
    BY <1>9 DEF WriteMore, WriteLargeChunk, WriteLargeRest, pvars
  <2> QED BY <1>8, <2>1
<1>10. CASE Return
  <2>1. UNCHANGED << calls, accepted, status >> /\ pieces' = << >> /\ (status = "open" => pieces = << >>)
    BY <1>10 DEF Return
  <2> QED BY <1>8, <2>1
<1>11. ASSUME Die \/ \E fails \in Outcomes, unwinding \in BOOLEAN : Destroy(fails, unwinding)
       PROVE  Linked'
  <2>1. UNCHANGED << calls, accepted >> /\ status' # "open"
    BY <1>11 DEF Die, Crash, Destroy, DestroyFlush, DestroyAcross, DestroyEmpty
  <2> QED BY <1>8, <2>1
<1> QED BY <1>4, <1>5, <1>6, <1>7, <1>9, <1>10, <1>11 DEF WriterNext

(* A file is closed when every message that was begun is accepted. *)
LEMMA NothingCutKept ==
  ASSUME PInv, CallsInv, NothingCut, WriterNext
  PROVE  NothingCut'
<1> SUFFICES ASSUME status' = "closed", AllComplete'
             PROVE  \A i \in 1 .. Len(calls') : Message(i)' => LastCell(i)' <= accepted'
  BY DEF NothingCut
<1>1. WInv /\ TypeOK /\ PTypes /\ CallsShaped /\ BlockLeftBehind /\ sink \in Seq(Frame) /\ accepted \in Nat
  BY DEF PInv, StreamsInv, WriterFacts, FrameInv, WInv, TypeOK
<1>2. WriterActs
  BY <1>1, WriterStepActs
<1>3. CASE status = "closed"
  <2>1. UNCHANGED wvars
    BY <1>1, <1>2, <1>3, ClosedStays DEF WriterActs
  <2>2. UNCHANGED << calls, accepted >> /\ AllComplete
    BY <1>2, <1>3, <2>1, SameFrames DEF WriterActs, Called
  <2>3. \A i : LastCell(i)' = LastCell(i) /\ (Message(i)' <=> Message(i))
    BY <2>2 DEF LastCell, Message
  <2> QED BY <1>3, <2>2, <2>3 DEF NothingCut
<1>4. CASE status # "closed"
  <2>1. PICK fails \in Outcomes, unwinding \in BOOLEAN : Destroy(fails, unwinding)
    BY <1>4 DEF WriterNext, Setup, Analyze, Send, wvars, WritePiece, WriteFits, WriteSpills,
         WriteLargeFill, WriteMore, WriteLargeChunk, WriteLargeRest, Terminate, Flush, Return,
         Die, Crash
  <2>2. UNCHANGED << calls, accepted >> /\ ~building /\ Destroyed
    BY <2>1 DEF Destroy, DestroyFlush, DestroyAcross, DestroyEmpty
  <2>3. AllComplete
    <3>1. CASE UNCHANGED << sink, stored >>
      BY <3>1 DEF AllComplete, Complete, FrameSize, FRAME_HEADER_SIZE
    <3>2. CASE \E x \in BOOLEAN : \E f : Hands(f, x)
      <4>1. PICK f : sink' = Append(sink, f)
        BY <3>2 DEF Hands
      <4>2. \A i \in 1 .. Len(sink) : i \in 1 .. Len(sink') /\ sink'[i] = sink[i]
        BY <1>1, <4>1
      <4> QED BY <4>2 DEF AllComplete, Complete, FrameSize, FRAME_HEADER_SIZE
    <3> QED BY <1>1, <1>2, <3>1, <3>2, StepHands DEF WriterActs
  <2>4. status = "open"
    BY <1>1, <2>2, <2>3 DEF Destroyed, WInv, ErrorsShow
  <2>5. Total(pieces) = 0
    BY <2>2, <2>4, TotalNone DEF CallsInv, CallsAccounted
  <2>6. ASSUME NEW i \in 1 .. Len(calls), Message(i) PROVE LastCell(i) <= accepted
    <3>1. PICK f, w, a : f = calls[i].first /\ w = Width(calls[i]) /\ a = accepted
      OBVIOUS
    <3>2. f \in Nat /\ w \in Nat /\ LastCell(i) = f + w - 1 /\ a \in Nat
      BY <1>1, <2>6, <3>1, WidthIs DEF Message
    <3>3. f + w <= a + 0 + 1
      BY <2>4, <2>5, <3>1 DEF CallsInv, CallsAccounted
    <3>4. f + w - 1 <= a
      BY ONLY <3>2, <3>3
    <3> QED BY <3>1, <3>2, <3>4
  <2>7. \A i : LastCell(i)' = LastCell(i) /\ (Message(i)' <=> Message(i))
    BY <2>2 DEF LastCell, Message
  <2> QED BY <2>2, <2>6, <2>7
<1> QED BY <1>3, <1>4

WriterSide == ChunkInv /\ LinkInv

(* What the writer's steps keep, of the chunks and of the messages in them. *)
LEMMA WriterSideKept ==
  ASSUME PInv, CallsInv, WriterSide, WriterNext
  PROVE  WriterSide'
  BY ChunksKept, LinkedKept, NothingCutKept DEF WriterSide, LinkInv

-----------------------------------------------------------------------------
(***************************************************************************)
(* tryRead on a readable file, for no more than a chunk: it returns what   *)
(* was asked for, or all that is left.                                     *)
(***************************************************************************)
LEMMA ReadableRead ==
  ASSUME NEW q, Reading(q), UNCHANGED wvars, Readable,
         NEW maxBytes \in Nat, NEW minBytes \in Nat, minBytes <= maxBytes, maxBytes <= BUFFER_SIZE,
         Reader!TryRead(minBytes, maxBytes)
  PROVE  /\ rstatus' = "open"
         /\ IF shortRead' = 0 THEN Len(delivered) + minBytes <= Len(delivered')
            ELSE Len(delivered') = stored /\ stored < Len(delivered) + minBytes
<1>1. PICK m, d, D : m = Reader!InBuffer /\ d = Len(delivered) /\ D = Reader!DecompressedCapacity
  OBVIOUS
<1>2. /\ m \in Nat /\ d \in Nat /\ D = BUFFER_SIZE + 3 /\ BUFFER_SIZE \in Nat
      /\ After(q) = d + m /\ rstatus = "open"
  <2>1. m \in Nat /\ d \in Nat /\ After(q) = d + m
    BY <1>1, ReadingBounded DEF Reading, Progress, Counted
  <2>2. D = BUFFER_SIZE + 3 /\ BUFFER_SIZE \in Nat
    BY <1>1, DecompressedRoom, FormatAssumption
  <2> QED BY <2>1, <2>2 DEF Reader!TryRead
<1>3. CASE Reader!ReadFromBuffer(minBytes, maxBytes)
  <2>1. shortRead' = 0 /\ Len(delivered) + minBytes <= Len(delivered')
    BY <1>3, FromBuffer
  <2>2. rstatus' = rstatus
    BY <1>3 DEF Reader!ReadFromBuffer
  <2> QED BY <1>2, <2>1, <2>2
<1>4. ~Reader!ReadUnsupported(minBytes, maxBytes)
  <2>1. ~(maxBytes - m > D)
    BY <1>2
  <2> QED BY <1>1, <2>1 DEF Reader!ReadUnsupported, Reader!Wanted
<1>5. CASE Reader!ReadAcross(minBytes, maxBytes)
  <2>1. ~Reader!Dies
    BY NextFrameGood DEF Reader!Dies
  <2>2. minBytes > m
    BY <1>1, <1>5 DEF Reader!ReadAcross
  <2>3. CASE \E id \in DOMAIN sink :
          /\ Reader!ReadFrame(id)
          /\ LET n == Reader!AtMost(Len(sink[id].plain), Reader!Wanted(maxBytes)) IN
             /\ delivered' = delivered
                  \o Reader!Plaintext(decompressed, avail.from, Reader!InBuffer)
                  \o Reader!Plaintext(decompressed', 0, n)
             /\ avail' = Reader!Slice(n, Len(sink[id].plain))
             /\ shortRead' = IF Reader!InBuffer + n < minBytes THEN minBytes ELSE 0
          /\ UNCHANGED rstatus
    <3>1. PICK id, n :
            /\ id \in DOMAIN sink
            /\ n = Reader!AtMost(Len(sink[id].plain), Reader!Wanted(maxBytes))
            /\ Reader!ReadFrame(id)
            /\ delivered' = delivered
                 \o Reader!Plaintext(decompressed, avail.from, Reader!InBuffer)
                 \o Reader!Plaintext(decompressed', 0, n)
            /\ avail' = Reader!Slice(n, Len(sink[id].plain))
            /\ shortRead' = IF Reader!InBuffer + n < minBytes THEN minBytes ELSE 0
            /\ rstatus' = rstatus
      BY <2>3
    <3>2. /\ id = q /\ n \in Nat /\ Len(delivered') = Len(delivered) + Reader!InBuffer + n
          /\ \E r : Took(q, r)
      BY <1>1, <2>2, <3>1, AcrossFrame
    <3>3. PICK r : Took(q, r)
      BY <3>2
    <3>4. PICK e, p : e = Len(delivered') /\ p = Len(sink[q].plain)
      OBVIOUS
    <3>5. /\ e = d + m + n /\ p \in Nat
          /\ shortRead' = IF m + n < minBytes THEN minBytes ELSE 0
          /\ n = IF p <= maxBytes - m THEN p ELSE maxBytes - m
      <4>1. p \in Nat
        BY <3>3, <3>4, FactsType DEF Took, Reading
      <4>2. n = IF p <= maxBytes - m THEN p ELSE maxBytes - m
        BY <1>1, <3>1, <3>2, <3>4 DEF Reader!AtMost, Reader!Wanted
      <4>3. e = d + m + n /\ shortRead' = IF m + n < minBytes THEN minBytes ELSE 0
        BY <1>1, <3>1, <3>2, <3>4
      <4> QED BY <4>1, <4>2, <4>3
    <3>6. CASE m + n < minBytes
      <4>1. n = p /\ p < BUFFER_SIZE /\ shortRead' # 0 /\ e < d + minBytes
        BY <1>2, <3>2, <3>5, <3>6
      <4>2. q = Len(sink)
        <5>1. q \in 1 .. Len(sink) /\ Len(sink) \in Nat
          BY <3>3, FactsType DEF Took, Reading
        <5>2. \A i \in 1 .. Len(sink) - 1 : Len(sink[i].plain) = BUFFER_SIZE
          BY DEF Readable, WellChunked
        <5>3. p # BUFFER_SIZE
          BY <1>2, <3>5, <4>1
        <5>4. q \notin 1 .. Len(sink) - 1
          BY <3>4, <5>2, <5>3
        <5> QED BY ONLY <5>1, <5>4
      <4>3. r = Len(sink) + 1 /\ Len(sink) \in Nat
        BY <3>3, <4>2, FactsType DEF Took, Reading
      <4>4. After(r) = stored
        BY <4>3 DEF After
      <4>5. After(r)' = After(r)
        BY SameFrames
      <4>6. After(r)' = After(q) + p
        BY <3>3, <3>4 DEF Took
      <4>7. e = stored
        BY <1>2, <3>5, <4>1, <4>4, <4>5, <4>6
      <4> QED BY <1>1, <1>2, <3>1, <3>4, <4>1, <4>7
    <3>7. CASE ~(m + n < minBytes)
      <4>1. shortRead' = 0 /\ d + minBytes <= e
        BY <1>2, <3>2, <3>5, <3>7
      <4> QED BY <1>1, <1>2, <3>1, <3>4, <4>1
    <3> QED BY <3>6, <3>7
  <2>4. CASE /\ Reader!AtEnd
             /\ delivered' = delivered \o Reader!Plaintext(decompressed, avail.from, Reader!InBuffer)
             /\ avail' = Reader!Slice(0, 0)
             /\ shortRead' = minBytes
             /\ Reader!UnchangedFrame
             /\ UNCHANGED rstatus
    <3>1. PICK e : e = Len(delivered')
      OBVIOUS
    <3>2. e = d + m
      BY <1>1, <2>4, <3>1, AcrossEnd
    <3>3. shortRead' # 0 /\ e < d + minBytes
      BY <1>2, <2>2, <2>4, <3>2
    <3>4. q \in 1 .. Len(sink) + 1 /\ Len(sink) \in Nat /\ Stage(q) /\ nextFrameSize = 0
      BY <2>4, FactsType DEF Reading, Progress, Reader!AtEnd
    <3>5. q = Len(sink) + 1
      <4>1. AtFrame(q) => q \in 1 .. Len(sink) /\ sink[q].clen = 0
        BY <3>4 DEF AtFrame
      <4>2. ~AtFrame(q)
        BY <4>1, FactsType DEF Reading
      <4>3. \A i \in q .. Len(sink) : ~Complete(sink[i])
        BY <3>4, <4>2 DEF Stage, NoMore, Doomed
      <4>4. q \notin 1 .. Len(sink)
        BY <3>4, <4>3 DEF Readable, WellChunked, AllComplete
      <4> QED BY <3>4, <4>4
    <3>6. After(q) = stored
      BY <3>4, <3>5 DEF After
    <3>7. e = stored
      BY <1>2, <3>2, <3>6
    <3> QED BY <1>1, <1>2, <2>4, <3>1, <3>3, <3>7
  <2> QED BY <1>5, <2>1, <2>3, <2>4, Zenon DEF Reader!ReadAcross
<1> QED BY <1>3, <1>4, <1>5 DEF Reader!TryRead

(* The message reader never asks for more than a chunk of a message that fits. *)
LEMMA BoundsFit ==
  ASSUME NEW s \in Seq(Nat), Len(s) >= 1, Fits(s), NEW taken \in Nat,
         taken >= 1, taken < MessageSize(s), NEW b, b = Bounds(taken, s)
  PROVE  b[2] <= BUFFER_SIZE
<1>1. PICK z, t, a, h : z = MessageSize(s) /\ t = Total(s) /\ a = TableSize(s) /\ h = s[1]
  OBVIOUS
<1>2. /\ z \in Nat /\ t \in Nat /\ a \in Nat /\ z = a + t /\ taken < z
      /\ a <= BUFFER_SIZE /\ t <= BUFFER_SIZE /\ BUFFER_SIZE \in Nat
  BY <1>1, SizesAre, TotalIs, FormatAssumption DEF Fits
<1>3. b = IF a - taken > 0 THEN << a - taken, a - taken >>
            ELSE << IF a - taken = 0 THEN h ELSE z - taken, z - taken >>
  BY <1>1, Zenon DEF Bounds
<1>4. CASE a > taken
  <2>1. b = << a - taken, a - taken >>
    BY ONLY <1>2, <1>3, <1>4, taken \in Nat, taken >= 1
  <2>2. b[2] = a - taken
    BY <2>1
  <2> QED BY ONLY <1>2, <2>2, taken \in Nat
<1>5. CASE ~(a > taken)
  <2>1. ~(a - taken > 0)
    BY ONLY <1>2, <1>5, taken \in Nat
  <2>2. b[2] = z - taken
    BY <1>3, <2>1
  <2> QED BY ONLY <1>2, <1>5, <2>2, taken \in Nat
<1> QED BY <1>4, <1>5
-----------------------------------------------------------------------------
(* Nor does a request that it makes. *)
LEMMA RequestModest ==
  ASSUME PTypes, CallsShaped, InsideMessage, stage \in {"header", "event"},
         Taken > 0 => TableTaken /\ ~WholeMessage,
         \A i \in 1 .. Len(calls) : Fits(calls[i].segments)
  PROVE  NextBounds[2] <= BUFFER_SIZE
<1>1. Taken \in Nat /\ BUFFER_SIZE \in Nat /\ BUFFER_SIZE >= 1
  BY FormatAssumption DEF PTypes, Taken
<1>2. CASE Taken = 0
  <2>1. NextBounds = << 1, 1 >>
    BY <1>2 DEF NextBounds
  <2> QED BY <1>1, <2>1
<1>3. CASE Taken > 0
  <2>1. PICK s, b : s = calls[Current].segments /\ b = NextBounds
    OBVIOUS
  <2>2. s \in Seq(Nat) /\ Len(s) >= 1 /\ TableTaken /\ Fits(s)
    BY <1>3, <2>1, CurrentIs
  <2>3. Taken < MessageSize(s)
    <3>1. Taken <= MessageSize(s) /\ Taken # MessageSize(s)
      BY <1>3, <2>1, <2>2 DEF InsideMessage, WholeMessage
    <3>2. MessageSize(s) \in Nat
      BY <2>2, SizesAre
    <3> QED BY <1>1, <3>1, <3>2
  <2>4. b = Bounds(Taken, s)
    BY <1>3, <2>1 DEF NextBounds
  <2>5. Taken >= 1
    BY <1>1, <1>3
  <2>6. b[2] <= BUFFER_SIZE
    BY <1>1, <2>2, <2>3, <2>4, <2>5, BoundsFit
  <2> QED BY <2>1, <2>6
<1> QED BY <1>1, <1>2, <1>3

-----------------------------------------------------------------------------
(* What the reader of an ordinary file can rely on. *)
Whole ==
  /\ Readable /\ Written /\ ~Interrupted
  /\ stored = accepted /\ stored \in Nat
  /\ OneRun /\ \A i \in 1 .. Len(calls) : Fits(calls[i].segments)
  /\ \A i \in 1 .. Len(calls) : Message(i) => LastCell(i) <= stored
  /\ 1 \in 1 .. Len(calls) /\ Message(1) /\ calls[1].kind = "setup" /\ calls[1].first = 1

(* A provider that ran once called setup once. *)
LEMMA RunIsOne ==
  ASSUME Len(calls) \in Nat, DOMAIN calls = 1 .. Len(calls), Runs = 1
  PROVE  OneRun /\ 1 \in 1 .. Len(calls)
<1> DEFINE S == {i \in DOMAIN calls : calls[i].kind = "setup"}
<1>1. IsFiniteSet(1 .. Len(calls))
  BY FS_Interval
<1>2. IsFiniteSet(S)
  BY <1>1, FS_Subset
<1>3. Cardinality(S) = 1
  BY DEF Runs
<1>4. PICK x : S = {x}
  <2> HIDE DEF S
  <2> QED BY <1>2, <1>3, FS_Singleton
<1>5. x \in 1 .. Len(calls)
  BY <1>4
<1> QED BY <1>4, <1>5 DEF OneRun

(* The file of one run, with messages that fit, is whole. *)
LEMMA OrdinaryIsWhole ==
  ASSUME PInv, CallsInv, WriterSide, Ordinary
  PROVE  Whole
<1>1. /\ WInv /\ TypeOK /\ InterruptionShows /\ CloseLosesNothing /\ Len(calls) \in Nat
      /\ DOMAIN calls = 1 .. Len(calls)
  BY HistoryIs DEF PInv, StreamsInv, WriterFacts, FrameInv, WInv
<1>2. /\ status = "closed" /\ AllComplete /\ Len(sink) > 0 /\ Runs = 1
      /\ BUFFER_SIZE >= Window /\ FramesFit
  BY DEF Ordinary
<1>3. \A i \in 1 .. Len(calls) : Fits(calls[i].segments)
  BY <1>1 DEF Ordinary, Fits
<1>4. OneRun /\ 1 \in 1 .. Len(calls)
  BY <1>1, <1>2, RunIsOne
<1>5. Chunked
  BY <1>2, <1>3, <1>4 DEF Modest, WriterSide, ChunkInv
<1>6. Readable /\ Written /\ ~Interrupted
  BY <1>1, <1>2, <1>5 DEF Readable, Chunked, Written, InterruptionShows
<1>7. stored = accepted /\ stored \in Nat
  BY <1>1, <1>2, <1>5 DEF CloseLosesNothing, Chunked, TypeOK
<1>8. \A i \in 1 .. Len(calls) : Message(i) => LastCell(i) <= stored
  BY <1>2, <1>7 DEF WriterSide, LinkInv, NothingCut
<1>9. calls[1].kind = "setup" /\ calls[1].first = 1
  <2>1. calls # << >>
    BY <1>1, <1>4
  <2> QED BY <2>1 DEF CallsInv, CallsChained
<1> QED BY <1>3, <1>4, <1>6, <1>7, <1>8, <1>9 DEF Whole, Message

(***************************************************************************)
(* In a whole file what the reader takes for the table of a message is     *)
(* one, of the message that begins where it has come to, and the whole of  *)
(* that message is in the file.                                            *)
(***************************************************************************)
LEMMA MessageComes ==
  ASSUME PInv, CallsInv, ReplayInv, Linked, Whole, stage \in {"header", "event"}, Taken > 0,
         NEW c, c = Current
  PROVE  /\ TableTaken /\ c \in 1 .. Len(calls) /\ Message(c)
         /\ calls[c].first = start + 1
         /\ start \in Nat
         /\ MessageSize(calls[c].segments) \in Nat
         /\ start + MessageSize(calls[c].segments) <= stored
<1>1. PICK a, d : a = start /\ d = Len(delivered)
  OBVIOUS
<1>2. a \in Nat /\ d \in Nat /\ a < d
  BY <1>1, HistoryIs DEF Taken
<1>3. rstatus # "new"
  <2>1. delivered # << >>
    BY <1>1, <1>2
  <2> QED BY <2>1 DEF PInv, StreamsInv, ReaderInv, Reader!RInit
<1>4. PICK q : Reading(q)
  BY <1>3, StreamsPlace DEF PInv
<1>5. d <= stored /\ stored \in Nat
  BY <1>1, <1>4, ReadingBounded
<1>6. delivered[a + 1] = a + 1
  <2>1. a + 1 \in 1 .. d
    BY <1>2
  <2> QED BY <1>1, <2>1, StreamsOrder DEF PInv, DeliveredInOrder, Whole
<1>7. \E j \in 1 .. Len(calls) : Message(j) /\ calls[j].first = a + 1
  <2>1. CASE a = 0
    BY <2>1 DEF Whole
  <2>2. CASE a # 0
    <3>1. SettledAt(start)
      BY DEF ReplayInv, Settled, Whole
    <3>2. PICK i \in 1 .. Len(calls) : calls[i].kind # "terminate" /\ LastCell(i) = a
      BY <1>1, <2>2, <3>1 DEF SettledAt
    <3>3. ~(LastCell(i) >= accepted)
      BY <1>2, <1>5, <3>2 DEF Whole
    <3>4. Followed(i)
      BY <3>2, <3>3 DEF Linked, AtRear, Message
    <3> QED BY <3>2, <3>4 DEF Followed
  <2> QED BY <2>1, <2>2
<1>8. TableTaken
  <2>1. PICK j \in 1 .. Len(calls) : Message(j) /\ calls[j].first = a + 1
    BY <1>7
  <2>2. j \in DOMAIN calls /\ BeginsMessage(calls[j])
    BY <1>1, <1>6, <2>1, HistoryIs DEF BeginsMessage, Message
  <2> QED BY <2>2 DEF TableTaken
<1>9. c \in 1 .. Len(calls) /\ Message(c)
  BY <1>8, CurrentIs DEF PInv, Message
<1>10. calls[c].first = a + 1
  <2>1. \E i \in DOMAIN calls : BeginsMessage(calls[i])
    BY <1>8 DEF TableTaken
  <2>2. BeginsMessage(calls[c])
    BY <2>1, Zenon DEF Current
  <2> QED BY <1>1, <1>6, <2>2 DEF BeginsMessage
<1>11. PICK w, z : w = Width(calls[c]) /\ z = LastCell(c)
  OBVIOUS
<1>12. /\ w \in Nat /\ w = MessageSize(calls[c].segments) /\ z = (a + 1) + w - 1
  BY <1>9, <1>10, <1>11, WidthIs DEF PInv, Message
<1>13. z <= stored
  BY <1>9, <1>11 DEF Whole
<1>14. a + w <= stored
  BY <1>2, <1>12, <1>13
<1> QED BY <1>1, <1>2, <1>8, <1>9, <1>10, <1>12, <1>14
-----------------------------------------------------------------------------
(***************************************************************************)
(* ProtoReader::run has met no exception; it has seen that something is    *)
(* there of the message that it begins, and of an event that something is  *)
(* before it.                                                              *)
(***************************************************************************)
NotLost ==
  /\ stage \notin {"threw", "dead", "garbled"}
  /\ stage \in {"first", "header", "loop", "event"} => rstatus = "open" /\ shortRead = 0
  /\ stage \in {"header", "event"} /\ Taken = 0 => avail.from < avail.to
  /\ stage = "loop" => delivered # << >> \/ NothingLeft
  /\ stage = "event" => start > 0

ReaderGood == Ordinary => NotLost

(* The reader changes nothing of the file and of the writer's calls. *)
LEMMA SameFile ==
  ASSUME UNCHANGED wvars, UNCHANGED calls
  PROVE  Ordinary' <=> Ordinary
<1>1. UNCHANGED << status, sink >> /\ (AllComplete' <=> AllComplete)
  BY SameFrames
<1>2. Runs' = Runs
  BY Zenon DEF Runs
<1>3. (\A i \in DOMAIN calls : Fits(calls[i].segments))'
      <=> \A i \in DOMAIN calls' : Fits(calls'[i].segments)
  BY Zenon DEF Fits, TableSize, Total
<1>4. (\A i \in DOMAIN calls' : Fits(calls'[i].segments))
      <=> \A i \in DOMAIN calls : Fits(calls[i].segments)
  OBVIOUS
<1> QED BY <1>1, <1>2, <1>3, <1>4 DEF Ordinary, FramesFit, Fits

(* So what the writer keeps of them stays as it is, too. *)
LEMMA WriterSideStays ==
  ASSUME WriterSide, UNCHANGED wvars, UNCHANGED << calls, pieces >>
  PROVE  WriterSide'
<1>1. /\ UNCHANGED << status, sink, accepted, inLarge, dict, bufferPos >>
      /\ AllComplete' <=> AllComplete
  BY SameFrames DEF wvars
<1>2. Modest' <=> Modest
  <2>1. (\A i \in 1 .. Len(calls) : Fits(calls[i].segments))'
        <=> \A i \in 1 .. Len(calls') : Fits(calls'[i].segments)
    BY Zenon DEF Fits, TableSize, Total
  <2>2. (\A i \in 1 .. Len(calls') : Fits(calls'[i].segments))
        <=> \A i \in 1 .. Len(calls) : Fits(calls[i].segments)
    OBVIOUS
  <2>3. OneRun' <=> OneRun
    BY DEF OneRun
  <2> QED BY <1>1, <2>1, <2>2, <2>3 DEF Modest
<1>3. Chunked => Chunked'
  <2>1. PiecesFit' <=> PiecesFit
    BY Zenon DEF PiecesFit, Total
  <2>2. Terminated' <=> Terminated
    BY Zenon DEF Terminated, Last
  <2>3. (WellChunked => WellChunked') /\ (SourcesKept => SourcesKept') /\ (FullFrames => FullFrames')
    BY <1>1 DEF WellChunked, SourcesKept, FullFrames
  <2> QED BY <1>1, <2>1, <2>2, <2>3 DEF Chunked
<1>4. LinkInv'
  <2>1. \A i : /\ LastCell(i)' = LastCell(i) /\ (Message(i)' <=> Message(i))
               /\ (Followed(i)' <=> Followed(i))
    BY DEF LastCell, Message, Followed
  <2>2. Total(pieces') = Total(pieces)
    OBVIOUS
  <2>3. \A i : AtRear(i)' <=> AtRear(i)
    BY <1>1, <2>1, <2>2 DEF AtRear
  <2> QED BY <1>1, <2>1, <2>3 DEF WriterSide, LinkInv, Linked, NothingCut
<1> QED BY <1>2, <1>3, <1>4 DEF WriterSide, ChunkInv

(* The writer is gone when run() is called. *)
LEMMA WriterKeepsGood ==
  ASSUME PInv, ReaderGood, WriterActs
  PROVE  ReaderGood'
<1>1. CASE stage = "new"
  <2>1. stage' = "new"
    BY <1>1 DEF WriterActs
  <2> QED BY <2>1 DEF ReaderGood, NotLost
<1>2. CASE stage # "new"
  <2>1. Written /\ UNCHANGED wvars
    BY <1>2, ClosedStays DEF PInv, RunsAfter, StreamsInv, WriterFacts, WInv, Written, WriterActs
  <2>2. UNCHANGED << calls, stage, start >> /\ UNCHANGED rvars
    BY <2>1 DEF WriterActs, Called, Written
  <2>3. UNCHANGED << rstatus, shortRead, avail, delivered, nextFrameSize >>
    BY <2>2 DEF rvars
  <2>4. Ordinary' <=> Ordinary
    BY <2>1, <2>2, SameFile
  <2> QED BY <2>2, <2>3, <2>4 DEF ReaderGood, NotLost, Taken, NothingLeft
<1> QED BY <1>1, <1>2

(* A file that is open was not read before. *)
LEMMA OpenKeepsGood ==
  ASSUME PInv, OpenFile
  PROVE  ReaderGood'
<1>1. stage' = "first" /\ rstatus' = "open"
  BY DEF OpenFile, Reader!Open
<1>2. shortRead' = 0
  BY DEF PInv, StreamsInv, ReaderInv, OpenFile, Reader!Open, Reader!RInit
<1> QED BY <1>1, <1>2 DEF ReaderGood, NotLost

(* Frames of a whole file decode, and behind a header there is one or the end. *)
LEMMA PeekKeepsGood ==
  ASSUME PInv, CallsInv, WriterSide, ReaderGood, Peek
  PROVE  ReaderGood'
<1> SUFFICES ASSUME Ordinary' PROVE NotLost'
  BY DEF ReaderGood
<1>1. /\ UNCHANGED wvars /\ UNCHANGED calls
      /\ stage \in {"first", "loop"} /\ start' = Len(delivered)
  BY DEF Peek, ReaderFrame
<1>2. Ordinary /\ NotLost /\ Whole
  BY <1>1, SameFile, OrdinaryIsWhole DEF ReaderGood
<1>3. rstatus = "open" /\ shortRead = 0
  BY <1>1, <1>2 DEF NotLost
<1>4. PICK q : Reading(q)
  BY <1>3, StreamsPlace DEF PInv
<1>5. ~Reader!Dies
  BY <1>2, <1>4, NextFrameGood DEF Whole, Reader!Dies
<1>6. rstatus' = "open" /\ shortRead' = 0 /\ delivered' = delivered
  BY <1>3, <1>5 DEF Peek, Refill, rvars, Reader!TryGetReadBuffer
<1>7. avail.from \in Nat /\ avail.to \in Nat /\ avail'.from \in Nat /\ avail'.to \in Nat
  <2>1. ReaderShape /\ ReaderShape'
    BY PeekKeeps DEF PInv, StreamsInv
  <2>2. Reader!DecompressedCapacity' = Reader!DecompressedCapacity
    BY DEF Reader!DecompressedCapacity
  <2> QED BY <2>1, <2>2, DecompressedRoom DEF ReaderShape
<1>8. CASE avail'.from < avail'.to
  <2>1. stage' = IF stage = "first" THEN "header" ELSE "event"
    BY <1>6, <1>7, <1>8 DEF Peek
  <2>2. ~NothingLeft
    BY <1>5, <1>7, <1>8 DEF Peek, Refill, NothingLeft, rvars, Reader!TryGetReadBuffer,
                            Reader!ReadFrame, Reader!AtEnd, Reader!Slice
  <2>3. stage = "loop" => start' > 0
    <3>1. delivered \in Seq(Nat)
      BY <1>4 DEF Reading, ReaderShape
    <3> QED BY <1>1, <1>2, <2>2, <3>1 DEF NotLost
  <2>4. Taken' = 0 /\ avail'.from < avail'.to /\ stage' \in {"header", "event"}
    BY <1>1, <1>4, <1>6, <1>8, <2>1 DEF Taken, Reading, ReaderShape
  <2> QED BY <1>1, <1>6, <2>1, <2>3, <2>4 DEF NotLost
<1>9. CASE ~(avail'.from < avail'.to)
  <2>1. avail'.from = avail'.to /\ stage' \in {"loop", "done"}
    BY <1>6, <1>7, <1>9 DEF Peek, NothingRead
  <2>2. NothingLeft'
    BY <1>6, <2>1, PeekFindsEnd
  <2> QED BY <1>6, <2>1, <2>2 DEF NotLost
<1> QED BY <1>8, <1>9

(***************************************************************************)
(* What is asked for is there: of a message that is begun because the      *)
(* reader has seen something of it, and of one that is in the file as a    *)
(* whole because its beginning is.                                         *)
(***************************************************************************)
LEMMA PartKeepsGood ==
  ASSUME PInv, CallsInv, ReplayInv, WriterSide, ReaderGood, ReadPart
  PROVE  ReaderGood'
<1> SUFFICES ASSUME Ordinary' PROVE NotLost'
  BY DEF ReaderGood
<1>1. /\ UNCHANGED wvars /\ UNCHANGED << calls, start >>
      /\ stage \in {"header", "event"} /\ (Taken > 0 => TableTaken /\ ~WholeMessage)
      /\ Reader!TryRead(NextBounds[1], NextBounds[2])
      /\ stage' = IF rstatus' # "open" THEN "dead" ELSE IF shortRead' > 0 THEN "threw" ELSE stage
  BY DEF ReadPart, ReaderFrame
<1>2. Ordinary /\ NotLost /\ Whole
  BY <1>1, SameFile, OrdinaryIsWhole DEF ReaderGood
<1>3. rstatus = "open" /\ (Taken = 0 => avail.from < avail.to)
  BY <1>1, <1>2 DEF NotLost
<1>4. PICK q : Reading(q)
  BY <1>3, StreamsPlace DEF PInv
<1>5. PICK s, d, a, b, e : /\ s = start /\ d = Len(delivered) /\ e = Len(delivered')
                           /\ a = NextBounds[1] /\ b = NextBounds[2]
  OBVIOUS
<1>6. /\ a \in Nat /\ b \in Nat /\ a <= b
      /\ Taken > 0 => Taken + b <= MessageSize(calls[Current].segments)
  BY <1>1, <1>5, RequestFits DEF PInv
<1>7. b <= BUFFER_SIZE
  BY <1>1, <1>2, <1>5, RequestModest DEF PInv, Whole
<1>8. rstatus' = "open" /\ IF shortRead' = 0 THEN d + a <= e ELSE stored < d + a
  BY <1>1, <1>2, <1>4, <1>5, <1>6, <1>7, ReadableRead DEF Whole
<1>9. /\ s \in Nat /\ d \in Nat /\ s <= d /\ Taken = d - s
      /\ e \in Nat /\ Taken' = e - s /\ stored \in Nat
  <2>1. PTypes /\ ReaderShape /\ ReaderShape'
    BY ReadPartKeeps DEF PInv, StreamsInv
  <2>2. stored \in Nat
    BY <1>2 DEF Whole
  <2>3. s \in Nat /\ d \in Nat /\ s <= d
    BY <1>5, <2>1, HistoryIs DEF PTypes
  <2>4. e \in Nat
    <3>1. delivered' \in Seq(Nat)
      BY <2>1 DEF ReaderShape
    <3> QED BY <1>5, <3>1
  <2> QED BY <1>1, <1>5, <2>2, <2>3, <2>4 DEF Taken
<1>10. ASSUME Taken = 0 PROVE shortRead' = 0 /\ Taken' # 0
  <2>1. a = 1
    BY <1>5, <1>10 DEF NextBounds
  <2>2. d + 1 <= stored
    <3>1. PICK m : m = Reader!InBuffer
      OBVIOUS
    <3>2. m \in Nat /\ d + m <= stored
      BY <1>4, <1>5, <3>1, ReadingBounded
    <3>3. m # 0
      BY <1>3, <1>4, <1>10, <3>1, DecompressedRoom DEF Reader!InBuffer, Reading, ReaderShape
    <3> QED BY <1>9, <3>2, <3>3
  <2>3. shortRead' = 0 /\ d + 1 <= e
    BY <1>8, <1>9, <2>1, <2>2
  <2> QED BY <1>9, <2>3
<1>11. ASSUME Taken # 0 PROVE shortRead' = 0 /\ Taken' # 0
  <2>1. PICK z : z = MessageSize(calls[Current].segments)
    OBVIOUS
  <2>2. Taken > 0
    BY <1>9, <1>11
  <2>3. z \in Nat /\ s + z <= stored
    BY <1>1, <1>2, <1>5, <2>1, <2>2, MessageComes DEF WriterSide, LinkInv
  <2>4. (d - s) + b <= z
    BY <1>6, <1>9, <2>1, <2>2
  <2>5. d + a <= stored
    BY <1>6, <1>9, <2>3, <2>4
  <2> QED BY <1>6, <1>8, <1>9, <2>2, <2>5
<1> QED BY <1>1, <1>2, <1>8, <1>10, <1>11 DEF NotLost
(* What has been taken for the table of a message is one, *)
LEMMA NeverGarbled ==
  ASSUME PInv, CallsInv, ReplayInv, WriterSide, ReaderGood, Garbled
  PROVE  ReaderGood'
<1> SUFFICES ASSUME Ordinary' PROVE FALSE
  BY DEF ReaderGood
<1>1. UNCHANGED wvars /\ UNCHANGED calls
  BY DEF Garbled, ReaderFrame
<1>2. Ordinary /\ Whole
  BY <1>1, SameFile, OrdinaryIsWhole
<1>3. TableTaken
  BY <1>2, MessageComes DEF Garbled, WriterSide, LinkInv
<1> QED BY <1>3 DEF Garbled

(* and the header is the first message and no other. *)
LEMMA MessageKeepsGood ==
  ASSUME PInv, CallsInv, ReplayInv, WriterSide, ReaderGood, HeaderRead \/ EventRead
  PROVE  ReaderGood'
<1> SUFFICES ASSUME Ordinary' PROVE NotLost'
  BY DEF ReaderGood
<1>1. /\ UNCHANGED wvars /\ UNCHANGED << calls, rstatus, shortRead, delivered >>
      /\ WholeMessage /\ stage \in {"header", "event"} /\ stage' \in {"loop", "threw"}
  BY DEF HeaderRead, EventRead, ReaderFrame, rvars
<1>2. Ordinary /\ NotLost /\ Whole
  BY <1>1, SameFile, OrdinaryIsWhole DEF ReaderGood
<1>3. Taken > 0
  BY <1>1 DEF WholeMessage, TableTaken
<1>4. delivered # << >>
  <2>1. start \in Nat /\ Taken = Len(delivered) - start
    BY HistoryIs DEF Taken
  <2>2. Len(<< >>) = 0
    OBVIOUS
  <2> QED BY <1>3, <2>1, <2>2
<1>5. stage' = "loop"
  <2> SUFFICES ASSUME stage = "event", calls[Current].kind = "setup" PROVE FALSE
    BY DEF HeaderRead, EventRead
  <2>1. PICK c : c = Current
    OBVIOUS
  <2>2. c \in 1 .. Len(calls) /\ calls[c].first = start + 1 /\ start \in Nat
    BY <1>1, <1>2, <1>3, <2>1, MessageComes DEF WriterSide, LinkInv
  <2>3. c = 1
    BY <1>2, <2>1, <2>2 DEF Whole, OneRun
  <2>4. start + 1 = 1
    BY <1>2, <2>2, <2>3 DEF Whole
  <2> QED BY <1>2, <2>2, <2>4 DEF NotLost
<1> QED BY <1>1, <1>2, <1>4, <1>5 DEF NotLost

-----------------------------------------------------------------------------
(***************************************************************************)
(* The invariant of the replay of one run's file: the writer's chunks are  *)
(* full and the messages in them follow one another, and run() has met no  *)
(* exception.                                                              *)
(***************************************************************************)
THEOREM OneRunReplays == PSpec => [](WriterSide /\ ReaderGood)
<1>1. PInit => WriterSide /\ ReaderGood
  <2> SUFFICES ASSUME PInit PROVE WriterSide /\ ReaderGood
    OBVIOUS
  <2>1. /\ calls = << >> /\ pieces = << >> /\ stage = "new" /\ sink = << >> /\ ~inLarge
        /\ dict = NoDictionary /\ status = "open"
    BY DEF PInit, Init, WInit
  <2>2. /\ Len(sink) = 0 /\ Len(calls) = 0
    BY <2>1
  <2>3. Chunked
    BY <2>1, <2>2 DEF Chunked, PiecesFit, NoDictionary, Terminated, FullFrames, WellChunked,
                      AllComplete, SourcesKept
  <2>4. LinkInv
    BY <2>2 DEF LinkInv, Linked, NothingCut
  <2> QED BY <2>1, <2>3, <2>4 DEF WriterSide, ChunkInv, ReaderGood, NotLost
<1>2. OrderInv /\ WriterSide /\ ReaderGood /\ [PNext]_PVars => WriterSide' /\ ReaderGood'
  <2> SUFFICES ASSUME OrderInv, WriterSide, ReaderGood, [PNext]_PVars
               PROVE  WriterSide' /\ ReaderGood'
    OBVIOUS
  <2>1. PInv /\ CallsInv /\ ReplayInv
    BY DEF OrderInv
  <2>2. CASE WriterNext
    <3>1. WriterActs
      BY <2>1, <2>2, WriterStepActs DEF PInv, StreamsInv, WriterFacts, WInv
    <3> QED BY <2>1, <2>2, <3>1, WriterSideKept, WriterKeepsGood
  <2>3. CASE ReaderNext
    <3>1. UNCHANGED wvars /\ UNCHANGED << calls, pieces >>
      BY <2>3 DEF ReaderNext, OpenFile, Peek, ReadPart, Garbled, HeaderRead, EventRead, ReaderFrame
    <3>2. WriterSide'
      BY <3>1, WriterSideStays
    <3> QED BY <2>1, <2>3, <3>2, OpenKeepsGood, PeekKeepsGood, PartKeepsGood, NeverGarbled,
               MessageKeepsGood DEF ReaderNext
  <2>4. CASE UNCHANGED PVars
    <3>1. WriterActs
      BY <2>1, <2>4 DEF PInv, PTypes, WriterActs, PVars, pvars
    <3>2. WriterSide'
      BY <2>4, WriterSideStays DEF PVars, pvars
    <3> QED BY <2>1, <3>1, <3>2, WriterKeepsGood
  <2> QED BY <2>2, <2>3, <2>4 DEF PNext
<1> QED BY <1>1, <1>2, ReplayInvariant, PTL DEF PSpec

(***************************************************************************)
(* The file of one run of a provider, with messages whose table and whose  *)
(* segments are no larger than a chunk, is replayed without an exception,  *)
(* whether or not the run ended with terminate: tryRead never falls short  *)
(* of what the message reader asks it for.                                 *)
(***************************************************************************)
THEOREM OrdinaryFilesReplay == PSpec => []ReplaySucceeds
<1>1. ReaderGood => ReplaySucceeds
  BY DEF ReaderGood, NotLost, ReplaySucceeds
<1> QED BY <1>1, OneRunReplays, PTL

=============================================================================
