----------------------------- MODULE ProtoStream -----------------------------
(***************************************************************************)
(* Messages on an AUSA buffer file: source/ProtoWriter.cpp writes one for  *)
(* the setup and one for each event, and ProtoReader::run replays them to  *)
(* its own analyzers.                                                      *)
(*                                                                         *)
(* A message is a table of segment sizes followed by its segments, written *)
(* to the LZ4OutputStream one piece after the other.  The reader never     *)
(* learns a message's kind: it takes the first one for the header and each *)
(* of the others for an event.                                             *)
(***************************************************************************)
EXTENDS AUSABufFile

CONSTANTS
  HeaderShape,   \* the segment sizes of a header message
  EventShapes,   \* the segment sizes events may have
  MAX_EVENTS,    \* bound: events of one run of the provider
  MAX_RUNS       \* bound: how often the provider runs

(* A message has a first segment. *)
ASSUME ProtoAssumption ==
  /\ \A segments \in {HeaderShape} \cup EventShapes : segments \in Seq(Nat) /\ Len(segments) >= 1
  /\ MAX_EVENTS \in Nat /\ MAX_RUNS \in Nat

VARIABLES
  calls,      \* history: the calls of the ProtoWriter, with their messages
  pieces,     \* pieces of the current message still to be written
  building,   \* a message builder is alive: setup or analyze has not returned
  fd,         \* the writer's file descriptor: open, closed, or left behind
  stage,      \* where ProtoReader::run is
  start,      \* stream cells the reader had taken before the current message
  notified    \* what the reader's analyzers were told

pvars == << calls, pieces, building, fd, stage, start, notified >>

PVars == << wvars, rvars, pvars >>

-----------------------------------------------------------------------------
(* The words of all segments. *)
Total(segments) ==
  LET sum[n \in 0 .. Len(segments)] == IF n = 0 THEN 0 ELSE sum[n - 1] + segments[n]
  IN sum[Len(segments)]

(* The table is a word for the first segment and one for each two more. *)
TableSize(segments) == Len(segments) \div 2 + 1

MessageSize(segments) == TableSize(segments) + Total(segments)

(* writeMessage hands over the table and then each segment. *)
MessagePieces(segments) == << TableSize(segments) >> \o segments

(* first is the position of the message's first cell in the stream. *)
Call(kind, segments) == [kind |-> kind, first |-> accepted + 1, segments |-> segments]

(* A provider calls setup, then analyze for each event, then terminate. *)
Between == calls # << >> => Last(calls).kind = "terminate"

Runs == Cardinality({i \in DOMAIN calls : calls[i].kind = "setup"})

EventsOfRun == Cardinality({i \in DOMAIN calls :
  calls[i].kind = "event" /\ \A k \in i .. Len(calls) : calls[k].kind # "setup"})

Ready == status = "open" /\ ~building

PInit ==
  /\ Init
  /\ calls = << >>
  /\ pieces = << >>
  /\ building = FALSE
  /\ fd = "open"
  /\ stage = "new"
  /\ start = 0
  /\ notified = << >>

-----------------------------------------------------------------------------
(* setup and analyze build a message and start to write it. *)
Send(kind, segments) ==
  /\ calls' = Append(calls, Call(kind, segments))
  /\ pieces' = MessagePieces(segments)
  /\ building' = TRUE
  /\ UNCHANGED << fd, stage, start, notified >>
  /\ UNCHANGED << wvars, rvars >>

Setup ==
  /\ Ready /\ Between
  /\ Send("setup", HeaderShape)

Analyze ==
  /\ Ready /\ ~Between
  /\ \E segments \in EventShapes : Send("event", segments)

WritePiece(fails) ==
  /\ pieces # << >>
  /\ \/ WriteFits(Head(pieces))
     \/ WriteSpills(Head(pieces), fails)
     \/ WriteLargeFill(Head(pieces), fails)
  /\ pieces' = Tail(pieces)
  /\ UNCHANGED << calls, building, fd, stage, start, notified >>
  /\ UNCHANGED rvars

WriteMore(fails) ==
  /\ WriteLargeChunk(fails) \/ WriteLargeRest
  /\ UNCHANGED pvars /\ UNCHANGED rvars

(***************************************************************************)
(* The call returns, normally or with the exception of a write, and its    *)
(* builder is destroyed: the segments are freed, or zeroed when they lie   *)
(* in the writer's scratch buffer.  A dictionary in them is lost.          *)
(***************************************************************************)
Return ==
  /\ building
  /\ status = "failed" \/ (status = "open" /\ pieces = << >> /\ ~inLarge)
  /\ building' = FALSE
  /\ pieces' = << >>
  /\ dict' = IF dict.region = Caller /\ dict.len > 0 THEN [dict EXCEPT !.live = FALSE]
             ELSE dict
  /\ UNCHANGED << writeBuffer, activeBuffer, bufferPos, inLarge, remaining,
                  accepted, stored, sink, status >>
  /\ UNCHANGED << calls, fd, stage, start, notified >> /\ UNCHANGED rvars

(* terminate flushes; with nothing in the buffer that does nothing. *)
Terminate(fails) ==
  /\ Ready /\ ~Between
  /\ \/ Flush(fails)
     \/ bufferPos.off = 0 /\ UNCHANGED wvars
  /\ calls' = Append(calls, Call("terminate", << >>))
  /\ UNCHANGED << pieces, building, fd, stage, start, notified >>
  /\ UNCHANGED rvars

(* Deliberate error, for LeakMeansTorn: any failed write keeps the descriptor. *)
FlushThrowsLate(fails, unwinding) == fails \/ status = "failed"

(***************************************************************************)
(* ~ProtoWriter deletes the LZ4OutputStream, in whose destructor what is   *)
(* left is flushed, then the FdOutputStream, then closes the descriptor.   *)
(* When the flush throws, the unwind detector swallows the exception if    *)
(* another is unwinding the stack; if not, ~ProtoWriter catches it and     *)
(* skips the rest.                                                         *)
(***************************************************************************)
FlushThrows(fails, unwinding) == fails /\ ~unwinding

Close(throws) == fd' = IF throws THEN "left" ELSE "closed"

Destroy(fails, unwinding) ==
  /\ ~building
  /\ \/ (DestroyFlush(fails) \/ DestroyAcross(fails)) /\ Close(FlushThrows(fails, unwinding))
     \/ DestroyEmpty /\ Close(FALSE)
  /\ UNCHANGED << calls, pieces, building, stage, start, notified >> /\ UNCHANGED rvars

Die ==
  /\ Crash
  /\ building' = FALSE /\ pieces' = << >> /\ fd' = "closed"
  /\ UNCHANGED << calls, stage, start, notified >> /\ UNCHANGED rvars

WriterNext ==
  \/ Runs < MAX_RUNS /\ Setup
  \/ EventsOfRun < MAX_EVENTS /\ Analyze
  \/ \E fails \in Outcomes : WritePiece(fails) \/ WriteMore(fails)
                               \/ Terminate(fails)
  \/ \E fails \in Outcomes, unwinding \in BOOLEAN : Destroy(fails, unwinding)
  \/ Return
  \/ Die

-----------------------------------------------------------------------------
(* ProtoReader::run *)
ReaderFrame == UNCHANGED wvars /\ UNCHANGED << calls, pieces, building, fd >>

Notify(kind, call) == notified' = Append(notified, [kind |-> kind, call |-> call])

OpenFile ==
  /\ Written /\ stage = "new"
  /\ Reader!Open
  /\ stage' = "first"
  /\ UNCHANGED << start, notified >> /\ ReaderFrame

(* Deliberate error, for TerminateMeansKept: an empty buffer is not refilled. *)
RefillSkipped == UNCHANGED rvars

(***************************************************************************)
(* tryGetReadBuffer() != nullptr, before the header ("first") and at the   *)
(* head of the loop ("loop"): the buffer is refilled if it is empty.       *)
(***************************************************************************)
Refill ==
  \/ avail.from < avail.to /\ UNCHANGED rvars
  \/ Reader!TryGetReadBuffer

(* Deliberate error, for RunEnds: the loop waits for more. *)
NothingReadWaits ==
  /\ stage' = "loop"
  /\ UNCHANGED notified

(* Deliberate error, for PTypeOK: notifySetup only behind a header that was skipped. *)
NothingReadSilent ==
  /\ stage' = IF stage = "first" THEN "loop" ELSE "done"
  /\ IF stage = "first" THEN UNCHANGED notified ELSE Notify("terminate", 0)

(* With nothing to read there is no header to skip, or no event left. *)
NothingRead ==
  /\ stage' = IF stage = "first" THEN "loop" ELSE "done"
  /\ Notify(IF stage = "first" THEN "setup" ELSE "terminate", 0)

Peek ==
  /\ stage \in {"first", "loop"}
  /\ Refill
  /\ start' = Len(delivered)
  /\ \/ /\ rstatus' # "open"
        /\ stage' = "dead"
        /\ UNCHANGED notified
     \/ /\ rstatus' = "open" /\ avail'.from < avail'.to
        /\ stage' = IF stage = "first" THEN "header" ELSE "event"
        /\ UNCHANGED notified
     \/ /\ rstatus' = "open" /\ avail'.from = avail'.to
        /\ NothingRead
  /\ ReaderFrame

(* The message whose table begins with the cell taken first. *)
Taken == Len(delivered) - start

BeginsMessage(call) == call.kind # "terminate" /\ call.first = delivered[start + 1]

Current == CHOOSE i \in DOMAIN calls : BeginsMessage(calls[i])

(***************************************************************************)
(* InputStreamMessageReader: the first word, the rest of the table, then   *)
(* the first segment and as much of the others as comes with it; the rest  *)
(* is read when it is looked at, or skipped by the destructor.             *)
(***************************************************************************)
Bounds(taken, segments) ==
  LET rest == MessageSize(segments) - taken
      table == TableSize(segments) - taken
  IN IF table > 0 THEN << table, table >>
     ELSE << IF table = 0 THEN segments[1] ELSE rest, rest >>

NextBounds == IF Taken = 0 THEN << 1, 1 >> ELSE Bounds(Taken, calls[Current].segments)

TableTaken == Taken > 0 /\ \E i \in DOMAIN calls : BeginsMessage(calls[i])

WholeMessage == TableTaken /\ Taken = MessageSize(calls[Current].segments)

(* A table that is no table is taken for one: what follows is arbitrary. *)
Garbled ==
  /\ stage \in {"header", "event"}
  /\ Taken > 0 /\ ~TableTaken
  /\ stage' = "garbled"
  /\ UNCHANGED << start, notified >> /\ UNCHANGED rvars /\ ReaderFrame

(* InputStream::read throws when tryRead returns less than minBytes. *)
ReadPart ==
  /\ stage \in {"header", "event"}
  /\ Taken > 0 => TableTaken /\ ~WholeMessage
  /\ Reader!TryRead(NextBounds[1], NextBounds[2])
  /\ stage' = IF rstatus' # "open" THEN "dead"
              ELSE IF shortRead' > 0 THEN "threw" ELSE stage
  /\ UNCHANGED << start, notified >> /\ ReaderFrame

HeaderRead ==
  /\ stage = "header" /\ WholeMessage
  /\ Notify("setup", 0)
  /\ stage' = "loop"
  /\ UNCHANGED start /\ UNCHANGED rvars /\ ReaderFrame

(***************************************************************************)
(* The message is decoded as an event.  A header is not decoded: its list  *)
(* of signals is refused by getSignal (HeaderIsNoEvent in EventCodec).     *)
(***************************************************************************)
EventRead ==
  /\ stage = "event" /\ WholeMessage
  /\ \/ /\ calls[Current].kind = "event"
        /\ Notify("event", Current)
        /\ stage' = "loop"
     \/ /\ calls[Current].kind = "setup"
        /\ stage' = "threw" /\ UNCHANGED notified
  /\ UNCHANGED start /\ UNCHANGED rvars /\ ReaderFrame

ReaderNext == OpenFile \/ Peek \/ ReadPart \/ Garbled \/ HeaderRead \/ EventRead

PNext == WriterNext \/ ReaderNext

PSpec == PInit /\ [][PNext]_PVars

(* run() is one thread that does nothing else once it is called. *)
FairPSpec == PSpec /\ WF_PVars(ReaderNext)

-----------------------------------------------------------------------------
(* Types of the message layer's state. *)
PTypes ==
  /\ calls \in Seq([kind : {"setup", "event", "terminate"}, first : Nat \ {0}, segments : Seq(Nat)])
  /\ pieces \in Seq(Nat)
  /\ building \in BOOLEAN
  /\ fd \in {"open", "closed", "left"}
  /\ stage \in {"new", "first", "header", "loop", "event",
                "done", "threw", "dead", "garbled"}
  /\ start \in 0 .. Len(delivered)
  /\ notified \in Seq([kind : {"setup", "event", "terminate"}, call : Nat])

(* What run has told when it stands at stage: setup first and once, terminate last. *)
Provides ==
  /\ stage \in {"new", "first", "header"} => notified = << >>
  /\ stage \in {"loop", "event", "done"} => notified # << >>
  /\ \A k \in DOMAIN notified :
       /\ notified[k].kind = "setup" <=> k = 1
       /\ notified[k].kind = "terminate" <=> stage = "done" /\ k = Len(notified)

(***************************************************************************)
(* The state is well-formed, and what run tells its analyzers is what a    *)
(* provider may say, on any file: notifySetup once and before all else,    *)
(* notifyTerminate once it is done and at no other time.                   *)
(***************************************************************************)
PTypeOK == PTypes /\ Provides

IsEvent(x) == x.kind = "event"

(* The events the writer saw, and what the reader's analyzers were told of events. *)
Analyzed == {i \in DOMAIN calls : IsEvent(calls[i])}

Told == {k \in DOMAIN notified : IsEvent(notified[k])}

(***************************************************************************)
(* The reader's analyzers see the events the writer saw, in that order,    *)
(* none twice and none left out before another, and each is decoded from   *)
(* the very cells that were written for it, however the messages fell on   *)
(* the frames, wherever the file ends and however often the provider ran.  *)
(***************************************************************************)
ReplayedInOrder ==
  /\ \A k \in Told : notified[k].call \in Analyzed
  /\ \A j, k \in Told : j < k => notified[j].call < notified[k].call
  /\ \A k \in Told, i \in Analyzed :
       i < notified[k].call => \E j \in Told : notified[j].call = i

MessageIntact ==
  \A k \in 1 .. Taken : delivered[start + k] = calls[Current].first + k - 1

ReplayInOrder ==
  ~Interrupted =>
    /\ ReplayedInOrder
    /\ stage = "event" /\ WholeMessage => MessageIntact

(***************************************************************************)
(* notifyTerminate is only called at the end of a message that is whole,   *)
(* and after every event whose message is whole in the file: a file that   *)
(* is cut inside a message makes run throw instead.                        *)
(***************************************************************************)
LastCell(i) == calls[i].first + MessageSize(calls[i].segments) - 1

TerminateMeansKept ==
  stage = "done" /\ ~Interrupted /\ Len(sink) > 0 =>
    /\ stored = 0 \/ \E i \in DOMAIN calls : calls[i].kind # "terminate" /\ LastCell(i) = stored
    /\ \A i \in Analyzed : LastCell(i) <= stored => \E k \in Told : notified[k].call = i

(***************************************************************************)
(* The file of one run of a provider, with messages whose table and whose  *)
(* segments are no larger than a chunk and frames that fit their buffer    *)
(* (see AUSABufFile), is replayed without an exception, whether or not the *)
(* run ended with terminate: the sizes the message reader asks for never   *)
(* make tryRead fall short.                                                *)
(***************************************************************************)
Ordinary ==
  /\ status = "closed" /\ AllComplete /\ Len(sink) > 0
  /\ Runs = 1
  /\ BUFFER_SIZE >= Window /\ FramesFit
  /\ \A i \in DOMAIN calls : /\ TableSize(calls[i].segments) <= BUFFER_SIZE
                             /\ Total(calls[i].segments) <= BUFFER_SIZE

ReplaySucceeds == Ordinary => stage \notin {"threw", "dead", "garbled"}

(***************************************************************************)
(* A writer that is gone leaves its descriptor open only when its very     *)
(* last write has torn the file, never because of an earlier failure that  *)
(* was made good, or one the provider's own exception followed.            *)
(***************************************************************************)
LeakMeansTorn ==
  fd = "left" => status = "closed" /\ Len(sink) > 0 /\ ~Complete(Last(sink))

(***************************************************************************)
(* ProtoReader::run returns or throws, on any file a writer leaves.        *)
(***************************************************************************)
RunEnds == Written ~> stage \in {"done", "threw", "dead", "garbled"}

(***************************************************************************)
(* It reads a well-chunked file (see AUSABufFile) to its last byte, also   *)
(* when the file ends inside a message.                                    *)
(***************************************************************************)
ReadsToTheEnd ==
  Written /\ WellChunked /\ SourcesKept /\ FramesFit /\ Len(sink) > 0
    ~> Len(delivered) = stored

-----------------------------------------------------------------------------
(***************************************************************************)
(* ProtoReader.h: it reads in a file and notifies the attached analyzers.  *)
(* A file that was closed without an error is replayed without one.        *)
(***************************************************************************)
ClosedIsReplayed ==
  status = "closed" /\ AllComplete /\ Len(sink) > 0 => stage \notin {"threw", "dead"}

==============================================================================
