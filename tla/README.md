# AUSA buffer files: a verification project

`AUSAbuf` stores streams of detector events.  `ProtoWriter`, an analyzer, packs
each event into a Cap'n Proto message and writes it through `LZ4OutputStream`,
which compresses chunks with LZ4's streaming interface, hashes them with
XXH64 and frames them into a file.  `ProtoReader` reads the file back through
`LZ4InputStream` and notifies its own analyzers of the same events.

This directory holds TLA+ modules of that system, the TLC runs that check them
on small instances, and proofs checked by TLAPS for every instance.

## 1. Inventory

| component | source | state | operations |
|---|---|---|---|
| `LZ4OutputStream` | `source/LZ4OutputStream.cpp` | two write buffers, `activeBuffer`, `bufferPos`, the LZ4 dictionary | `write`, `getWriteBuffer`, `flush`, `compressAndWrite`, destructor |
| `LZ4InputStream` | `source/LZ4InputStream.cpp` | compressed and plaintext buffer, `bufferAvailable`, size and hash of the next frame, the LZ4 decoder's dictionary | constructor, `readCompressed`, `tryRead`, `tryGetReadBuffer` |
| file layout | `AUSALZ4.h` | magic word, buffer size, then frames of size, hash, payload | - |
| `ProtoWriter` | `source/ProtoWriter.cpp` | file descriptor, the two streams, the buffer events are built in | `setup` (header message), `analyze` (event message), `terminate` (flush), destructor |
| `ProtoReader` | `source/ProtoReader.cpp` | the output the analyzers look at | `run`: skip the header, `notifySetup`, one `notifyAnalyze` per message, `notifyTerminate` |
| event codec | `source/EventBuilder.cpp`, `ProtoReader.cpp:76-122` | - | `buildEvent`, and its inverse in `run` |
| header codec | `HeaderBuilder.h` | - | `buildHeader`; nothing reads it back yet |
| generated Cap'n Proto code | `*.capn.h`, `*.capn.c++` | the messages' structs | `has`, `get`, `set`, `init`, `adopt`, `disown` of every field; schemas for reflection |
| xxHash | `external/source/xxhash.c` | streaming state | one-shot and streaming hashes; only the one-shot hash is used |
| main, CMake | `AUSAbuf.cpp`, `CMakeLists.txt` | - | a scratch program |

The components call each other synchronously, in one thread: provider ->
`ProtoWriter` -> `LZ4OutputStream` -> `kj::FdOutputStream`, and `ProtoReader` ->
Cap'n Proto -> `LZ4InputStream` -> `kj::FdInputStream`.  The two chains share
nothing but the file.  What is hard here is therefore not interleaving but

- memory that must survive a call: the compressor refers to the block it
  compressed last, wherever that lies, and the decoder to the block it decoded
  last, over which it decodes the next;
- sequences of calls whose sizes fall on the buffers in every way, several of
  which keep a byte in memory for many calls;
- one step of several failing: `inner.write` may throw after half a frame, and
  the destructor flushes the same stream again;
- a process that dies in the middle of a frame, a file that ends anywhere.

What makes each component correct:

- output stream: every byte accepted is stored once and in order, the tail is
  never lost by a normal close, and every match in a frame can be resolved from
  the frames before it;
- input stream: what it delivers is a prefix of what was written, whatever the
  file looks like; a file that was closed normally is delivered to its end;
- both together: a byte file (`ByteFile`) that only ever grows at its end;
- event codec: decoding what was built gives the event back, detector by detector,
  with any setup for which that is possible;
- header codec: what is in the file tells the setup it was written with, and is
  never shown as an event;
- message building: each call changes what it names and nothing else, although
  the memory was used for earlier messages;
- writer and reader: the analyzers of the reader see the calls the writer saw.

## 2. The plan

1. `LZ4Format`, `LZ4OutputStream`: the writer, with faults. *Done.*
2. `LZ4InputStream`, `AUSABufFile`, `ByteFile`: the reader, the composition, the
   abstract file and the refinement. *Done.*
3. Proofs of these: `LZ4OutputStreamProofs`, `LZ4InputStreamProofs`,
   `AUSABufFileProofs`. *Done.*
4. `ProtoStream`: messages on top of the two streams - header, events,
   `terminate`, a provider that runs twice, a file cut inside a message, the
   destructor and its descriptor; `ProtoStreamProofs`. *Done.*
5. `CapnLayout`, `EventCodec`: the structs of the messages as the generated code
   lays them out; `buildHeader`, `buildEvent`, and the reader's loop over what it
   takes for an event, with its own setup; `CapnLayoutProofs`, `EventCodecProofs`.
   *Done.*
6. `MessageSchema`, `MessageBuilder`: what the schema promises the users of a
   message, and the generated builders over memory that is reused, refined to it;
   `MessageBuilderProofs`. *Done.*

`ProtoStream` EXTENDS `AUSABufFile`, which EXTENDS `LZ4OutputStream` and has
`LZ4InputStream` and `ByteFile` as instances.  `EventCodec` and `MessageBuilder`
both EXTEND `CapnLayout`, and `MessageBuilder` has `MessageSchema` as an instance.
The two halves do not meet: what is in a message does not matter to how it
travels, but for one fact that `ProtoStream` takes from `EventCodec`, that a header
is refused as an event.

## 3. The modules

**`LZ4Format`** - layout and sizes.  Sizes are counted in *cells*: each header
field is one cell, and so is each byte of plaintext or payload.  A byte of the
stream is represented by its position in it (1, 2, 3, ...), so that a lost,
repeated or swapped byte shows as a wrong number; 0 is memory that holds no byte
of the stream.  A frame is recorded as what the compressor saw: the plaintext it
was given (`plain`, which also stands for its hash: collisions are excluded),
the compressed size (`clen`, any of `CompressedSizes`), the older bytes its
matches may refer to as they lay in memory at that moment (`sees`: all that the
window and the dictionary allow, or none), and how many of its cells the
underlying stream took (`landed`).

**`LZ4OutputStream`** - `writeBuffer`, `activeBuffer` and `bufferPos` are the
members of the class (`bufferPos` is a pointer: buffer and offset, because after
an error it may point into the other buffer).  `dict` is what `LZ4_stream_t`
remembers.  One action per way through `write` (`WriteFits`, `WriteSpills`,
`WriteLargeFill`, then `WriteLargeChunk` per round of the loop and
`WriteLargeRest`), `Flush`, and three for the destructor.  Each call of
`inner.write` may fail with any number of cells taken (`MayFail`); the exception
ends the use of the stream, and the destructor flushes (`DestroyFlush`,
`DestroyEmpty`, and `DestroyAcross` when `bufferPos` and `activeBuffer` belong
to different buffers).  `SourceReused` is the caller freeing the memory of an
earlier large write; `Crash` is the death of the process.  `accepted` and
`stored` are history.

**`LZ4InputStream`** - reads the cells that landed.  `readCompressed` is
`ReadFrame` (a frame that decodes to the bytes its hash was computed of), `AtEnd`
or `Dies` (anything else ends the program; an overrun of `compressedBuffer` is
kept apart: more cells land than it has, which at the end of the file may be fewer
than were asked for; `CellAt` is what is read behind its end without having been
written).  Decoding is modelled byte by byte where it matters: `Old(f, p, k)` is what
the decoder finds `k` cells before the frame while it writes byte `p` over its
own dictionary.  `tryRead` is `ReadFromBuffer`, `ReadAcross` or
`ReadUnsupported`.

**`AUSABufFile`** - the two composed: the writer runs to its end (closed or
crashed), then the reader opens the file.  **`ByteFile`** is what the whole
promises, and `ImplementsByteFile` the refinement: `input` is what was accepted,
`kept` the concatenation of the complete frames, `output` what was delivered.

**`ProtoStream`** - who calls whom at which size.  A call of `setup` or `analyze`
starts a message (`Send`), each of its pieces is one `write` of the output stream
(`WritePiece`, `WriteMore` for the loop over chunks), and `Return` destroys the
message builder, whose memory the compressor may still refer to.  `Terminate`
flushes, `Destroy` is `~ProtoWriter`: `fd` is left open when the flush throws and no
other exception is unwinding the stack (then the stream's unwind detector lets it
out and `~ProtoWriter` catches it behind the deleting).  The provider is one like
`ProtoReader::run`: setup, events, terminate, and it may run again.  On the other
side `stage` is where `ProtoReader::run` is: `Peek` is the call of
`tryGetReadBuffer`, `ReadPart` one read of Cap'n Proto's message reader
(`Bounds` are the sizes it asks for: a word, the table, a segment and as much
more as comes), `HeaderRead` and `EventRead` the end of a message, `threw` an
exception that leaves `run`, also when the message is a second header.
`Provides` says what may have been told at each stage.

**`CapnLayout`** - a struct is its bytes and its pointers, a list knows the type it
was made of, and a field is the place that its accessor in `*.capn.h` names,
counted in elements of the field's own size.  `SetData` and `GetData` cut and
join bytes (of `BYTE` values; `Values` counts what several of them can say, and
`Total` sums).  `Refused` is the library's rule for a list that
is read as one of another type: numbers can be read from structs that begin with
data, and a list of structs of pointers only is an exception (Cap'n Proto 0.5.1,
the version the generated code demands).

**`EventCodec`** - `BuildHeader` and `BuildEvent` make messages of these structs
from the writer's setup and what its detectors saw, `Read` is one round of the
loop in `run`: it takes any message for an event and counts through its lists with
the reader's setup, into the output that is reused from event to event.  The
multiplicities in the message are cut to a byte, the list of hits is sized with
the whole ones, and the loops run to the cut ones.  No bound is checked when
`run` reads beyond a list; the model then stops with `outcome = "outside"`.

**`MessageSchema`** - a message as the schema promises it: a record of lists of
records.  **`MessageBuilder`** - the same calls on the root struct with all that
hangs on it (`root`), orphans that were disowned, and the words of
`ProtoWriter::buffer` that are handed out (`used`) or may hold something else than
zeros (`dirty`).  A new list is filled with what the memory holds, which is 0 as
long as the constructor's fill and the clearing at the end of each message leave
no word dirty.  `ImplementsSchema` is the refinement: `value` is what the getters
show.

**`MCLZ4OutputStream`**, **`MCAUSABufFile`**, **`MCProtoStream`**,
**`MCEventCodec`**, **`MCMessageBuilder`** - the instances for TLC.

The proofs are in modules of their own.  Each EXTENDS the ones before it that it needs:

| module | proves |
|---|---|
| `SequenceFacts` | induction, sums, and what `FlattenSeq` does to any number of sequences |
| `LZ4OutputStreamProofs` | the writer's invariant and the properties of run `writer`; how the frames left behind follow one another, torn ones included |
| `LZ4InputStreamProofs` | which cell of the file is where, what a reader finds at the start of a frame, where it stands, what is in its buffers there, and what reading one more frame does |
| `AUSABufFileProofs` | the invariant from end to end, the properties of the reader, and that the whole implements `ByteFile` |
| `ProtoStreamProofs` | the message layer: what the analyzers are told, and that `run` does not throw on a file it should be able to read |
| `CapnLayoutProofs` | fields of structs: what is set is read again, and nothing else changes |
| `EventCodecProofs` | lists of hits and headers: what is in the messages |
| `MessageBuilderProofs` | that the generated builders implement `MessageSchema` |

A few definitions are marked as deliberate errors: they are small slips a
programmer might make (a buffer not switched, a source not advanced), kept to show
that each property notices them.  No specification uses them.

## 4. The runs

| run | bounds | shows |
|---|---|---|
| `writer` | buffers of 3, window 3, writes up to 9, stream up to 10, failures | types; `FramesInOrder`, `DictionaryIntact`, `BufferHoldsTail`, `CloseLosesNothing`, `ReferencesPrecede` |
| `faults` | buffers and window of 4, compressed sizes 1 and 2, stream up to 8, one flush, failures | `DeliveredInOrder`, `EndDeliversStored`, `ImplementsByteFile` over torn files |
| `large` | buffers of 3, compressed sizes 1 and 3, writes up to 8, reads up to 7 | `NeverRejected`, `ShortOnlyAtEnd` with large writes, and reads beyond the buffer |
| `messages` | chunks of 4, up to three events of 5 cells, with a segment of exactly a chunk or with two segments, one run, failures | types, and that `run` speaks like a provider; `TerminateMeansKept`, `ReplaySucceeds`, `LeakMeansTorn`, `RunEnds`, `ReadsToTheEnd` |
| `replays` | chunks of 3, two runs of one event, events larger than a chunk, failures | `ReplayInOrder` |
| `codec` | bytes of 4 values, four setups for the writer and for the reader, up to 5 hits a side, two events, two headers | `HitsStayHome`, `NoHitOutsideTheList`, `HeaderTellsSetup`, `HeaderIsNoEvent`, `HeaderWouldTell` |
| `builder` | bytes of 2 values, a buffer of 9 words, lists of up to 2, five calls on a message, any number of messages | `ImplementsSchema` |

The bounds are enough for the cases that differ: a buffer of 3 or 4 cells has an
empty, a partly filled, an exactly full state and one cell less; a stream of two
to three buffers lets each buffer be used, reused and referred to; a write of
9 with buffers of 3 has a first part, up to three rounds of the loop and a rest of
every size; a window of the size of a buffer lets every cell of the previous
block be referred to.  `MAX_FLUSH` bounds the number of short frames in the runs
over the whole file; in `writer` and in the message layer, where only `terminate`
flushes, it does not bind.  The messages of `replays` are sized so that
pieces straddle two chunks, that a large segment has a full chunk of its own, and
that a failed one leaves a stale frame.  In `codec` and `builder` a byte has 4 or 2
values so that small numbers reach below, at and beyond the limits of a field of
one byte, of two, or of four; a multiplicity of 3 is the largest that a byte of 4
values holds.  In `large` a frame of 3 cells fits the buffer it is read into only when it is the
last, with no header behind it.  The setups of `codec`
are some of which one leads the other (fewer detectors or signals at the end) and
some of which none does.  In `builder` nine words hold two short lists and the root
but not everything, so that lists lie in the buffer, beyond it, and where a list
of an earlier message lay; five calls are enough to disown a list, make and
fill another one in its place, and bring the first one back.
Deadlock is not checked: a closed writer and a reader that has ended stop.

These runs show where the code does not do what its documentation says; each
checks one property and finds it violated:

| run | what happens |
|---|---|
| `interrupted` | `inner.write` throws inside the loop of a large write; the destructor's flush emits a valid frame of stale bytes (`LZ4OutputStream.cpp:109,127`) |
| `small_chunk` | chunk smaller than the LZ4 window: decoding overwrites its dictionary (`LZ4InputStream.cpp:69`) |
| `incompressible` | a chunk that grows lands, with the header of the next frame behind it, beyond the end of `compressedBuffer` (`LZ4InputStream.cpp:61-68`): the sizes of the two buffers are exchanged |
| `empty` | a file without frames: uninitialised memory is taken for a frame header (`LZ4InputStream.cpp:45,58`) |
| `second_run` | a provider that runs twice writes a second header, which is taken for an event, and `run` throws (`ProtoWriter.cpp:44`, `ProtoReader.cpp:66,81`) |

The conditions of the passing properties name the limits within which the code does
what it should, each of which TLC finds necessary when it is dropped.  A flush in the
middle of a stream makes a block short and the next one overwrite its dictionary
(`WellChunked` in `NeverRejected`).  A large write leaves the dictionary in memory the
caller may reuse (`SourcesKept`).  A frame must fit the buffer it is
read into, with the header behind it unless it is the last (`FramesFit`; run
`incompressible`).  A read that spans more than one frame boundary falls short, because
`tryRead` takes one more frame at most (`shortRead` of at most a block in
`ShortOnlyAtEnd`), and one of more than the plaintext buffer holds ends the program
("Currently unsupported!"); a message with a segment larger than a chunk cannot be read
for one reason or the other (`Ordinary` in `ReplaySucceeds`), and neither can one whose
table of segments alone is larger, which empty segments make possible.  The segments
of `messages` go up to that limit, and start in the middle of a chunk.  A multiplicity
beyond 8 bits is cut, and the hits it leaves out are not stored (`HitsStayHome`).  With
a setup that does not lead the writer's, hits may be shown by the wrong detector or
read outside the list (`Leads` in `HitsStayHome`); the header in the file would tell
each time (`HeaderWouldTell`), but nobody asks it.

With the defaults (chunks of 20 or 50 MB, flush only in `terminate`, messages far
smaller than a chunk) a writer meets none of these limits but that of
incompressible data, which is why the library works in its usual use.

**Fairness.**  Only `messages` assumes any, for `RunEnds` and `ReadsToTheEnd`: weak fairness of `ReaderNext`, the
steps of one call of `ProtoReader::run`.  It is one thread that loops until
`tryGetReadBuffer` returns nothing and waits for nobody.  The writer has none: it
may stop anywhere.

## 5. The proofs

The theorems hold for every value of the constants that satisfies the named
assumptions.  The streams and the messages on them have four:
`FormatAssumption` (a buffer and a window are not empty, a frame's
payload neither, and one byte can be compressed into two cells),
`OutputAssumption` and `FileAssumption` (the bounds are numbers) and
`ProtoAssumption` (a message has a first segment).  The codec has three:
`LayoutAssumption` (a byte has at least two values), `CodecAssumption` (what a
setup consists of; among the multiplicities there is a largest one) and
`FloatAssumption`: the energies of all events can be held by a Float32.  An energy
of the model stands for the number of the reading, so that no two are alike, and a
Float32 for one of `BYTE^4` values; with the 2^32 of the code that allows
billions of hits.  In the code any energy has a Float32 next to it.  The builders need
`LayoutAssumption` and `BuilderAssumption` (the numbers that are set, the longest list and
the words of the buffer are naturals).  The bounds `MAX_WRITE`,
`MAX_BYTES`, `MAX_FLUSH`, `MAX_READ`, `MAX_EVENTS` and `MAX_RUNS` restrict nothing
but the cases TLC visits: the theorems hold for all of them, and the lemmas on
the writer's steps are about `WCall`, a call of any size at any time.

**Writer** (`LZ4OutputStreamProofs`).  `WSpec => []WInv` (`WriterInvariant`), and
from it the six properties of run `writer`.  None of them is inductive alone.  That the
next frame holds the right bytes needs to know what is in the active buffer
(`BufferHoldsTail`); that in turn needs every accepted byte to be accounted for
(`BytesAccounted`).  That a frame refers to the right bytes needs the dictionary to
be the block before the bytes to come, outside the active buffer
(`DictionaryPlaced`, `DictionaryIntact`).  That a normal close loses nothing
although the destructor of a failed stream may, needs an error to show in the sink
(`ErrorsShow`).  There is one lemma per action; lemmas on the blocks handed to
the compressor and on what one more frame does to the sink are shared by the five
actions that compress.

**Frames** (`LZ4OutputStreamProofs`, at its end).  `FrameInv` says what the reader relies on: each frame
is a non-empty block that begins where the complete ones before it end and holds
the bytes that come next, or else the destructor has interrupted a large write.
`SmallWritesFollow` is the positive side of run `interrupted`: when no write is
larger than a buffer, `FlushedDataFollows` holds as the header says it.

**Reader** (`LZ4InputStreamProofs`, `AUSABufFileProofs`).  The file
is the concatenation of what landed of each frame.  `FileCells` and `CellIs` say
which cell is where; that is an induction over the number of frames, which
`SequenceFacts` does once, with sets (a set of numbers that holds 0 and every
successor of its members holds all) and no operator as a parameter.  `ReaderInv`
then places the reader: there is a frame `q` with everything before it complete
or without a trace (`Passed`), `filePos` behind its header or at an end from
which nothing complete follows (`Stage`), and in the buffers the bytes before it
(`Counted`, `InOrder`) with the block decoded last as the dictionary
(`Dictionaried`, `Leftovers`).  The lemma that carries it is `GoodIsNext`: whatever is taken for a frame
and survives the hash is frame `q` itself, complete.  What
a torn frame leaves in the file may stand before a retried one, and what an earlier
frame left in `compressedBuffer` behind a torn one; neither can be taken for
the frame whose hash was read, because no two frames that follow each other hold
the same bytes (`NoRepeat`).  From `FileInv` follow `DeliveredInOrder` and
`EndDeliversStored`, for any file that the writer can leave.
`NeverRejected` is inductive on top of it: when all blocks but the last are full and no
smaller than the window, and every frame fits the buffer it is read into, every older byte a frame refers to is
still in the decoder's dictionary, above what has been decoded over it.
`ShortOnlyAtEnd` likewise: with full blocks, what one frame adds to the buffer is
enough for a read of a block.

**Refinement** (`AUSABufFileProofs`, at its end).  `Spec => ImplementsByteFile`, with torn frames,
failing destructors and crashes, under `Undisturbed`: `MAX_WRITE <= BUFFER_SIZE \/ ~MayFail`.
This is a hypothesis about the program, not about the bounds of a run, and
necessary: run `interrupted` is the counterexample without it, a failure inside the
loop of a large write after which the destructor adds bytes that nobody wrote.
TLC checks the refinement in run `faults`, where no write exceeds a buffer.
A step of the writer is `Write`, or `Close` when it ends the stream; one of the reader is
`Read`, or `Reject` when it refuses the file; the rest stutter.  What is needed
is that the three sequences are beginnings of the stream (`Beginnings`), and that
nothing is framed that was not accepted (`Covered`, `LoopSafe`).

**Messages** (`ProtoStreamProofs`).  The writer's and the reader's steps are those of
the layers below, so their invariants are taken over.  `PInv` adds that the
sizes the message reader asks for can be met and stay within its message
(`InsideMessage`), and gives `LeakMeansTorn`; with `Provides`, which every step keeps by
itself, it gives `PTypeOK`: on any file, torn or not, what the analyzers are told is a
beginning of setup, events, terminate.
`CallsInv` says that the provider's messages follow one another in the stream
without gap or overlap, and `ReplayInv` that behind each message which the
reader has taken, exactly the events up to there have been told.  They give
`ReplayInOrder` and `TerminateMeansKept`: the analyzers see the writer's events in
order, none twice and none left out, and `terminate` only when every whole event
has been told, for messages of any size and number.

**Replay** (`ProtoStreamProofs`, at its end).  `ReplaySucceeds`: on the file of a provider that ran
once and whose writer was closed with every frame whole, `run` does not throw, for
messages whose table and segments fit a chunk, with chunks no smaller than the window
and frames that fit their buffer.  The theorems on the streams do not give it alone, because they ask
for a file of full chunks, and whether there is one depends on who calls `flush`, and when.
`ChunkInv` says that only `terminate` and the destructor leave a chunk short,
and that nothing follows it; that no piece of a message is larger than a chunk, so
that none is compressed from memory which `Return` frees; and hence that the file is
`Readable`.  `LinkInv` says that each message ends where the next begins, and that a closed
file has them all to their last cell.  The reader's side is `NotLost`: wherever `run` stands,
what Cap'n Proto asks for is no more than a chunk and lies within a whole message
(`MessageComes`), and then a read falls short only where the file ends
(`ReadableRead`), which is behind the last message.  The message layer's two halves
meet in `OneRunReplays`: the writer's half is invariant by itself, the reader's under it.

**Codec** (`CapnLayoutProofs`, `EventCodecProofs`).  The state adds little here: `CodecInv` says that each
message is the one built of the call it stands for.  What has to be proved is what
building and reading do to data of any size.  First fields: a field that is set holds its number
byte by byte, and every field apart from it keeps its own (`SetHolds`); what is read from such
bytes is the number, but for what they cannot hold (`HeldIsRead`, by `RemainderJoins`:
the remainders of quotients add up to the remainder).  Then headers (`HeaderShows`), which
give `HeaderTellsSetup`, and `HeaderIsNoEvent` because a list of signals has no data
(`HeaderIsRefused`).  Then the list of hits.  The block of each detector
has its hits at the places that the reader's loops will look at, for a detector with
one side or two (`BlockIs`); the blocks are as long as the cut multiplicities say and no
longer than the whole ones (`HitsFit`: `NoHitOutsideTheList`); and the reader's count is, detector
by detector, the sum of the lengths of the blocks before (`CountsAgree`), if its setup
leads the writer's.  With it `HitsStayHome` holds for every
setup, every number of detectors and hits, and every width of a byte.  The first message
is a header, and what the header shows leads and is led like the setup it was built of
(`HeaderLeads`): that gives `HeaderWouldTell`.

**Message building** (`MessageBuilderProofs`).  `BSpec => ImplementsSchema`.  The state is a
tree of structs, and `BInv` says what it looks like: behind each pointer of the root
hangs a list of the type that its field has, with items of that type's size, and so
it is with the orphans.  That is enough for every call but `init`, whose new list holds
whatever its memory does; there the refinement needs `MemoryInv`: only words that
this message has been given may hold something else than zeros.  It is inductive
because the library clears what was handed out when a message ends, and because
the constructor has filled the buffer before the first one.  Each call then is a
step of the schema.  For `set` on an item that is `FieldSet`: the accessors of an item's fields name places
that lie apart, so that the field shows the number, cut to what it can say, and the others
show what they did (`SetLeaves`, `HeldIsRead`).  For `init`, `adopt`, `disown` and `set` on a
slot of the root, `ListReplaced` and `SlotSet`: a list is shown at the slot it was put at, and
the other slots show theirs.

Only model-checked is liveness (`RunEnds`, `ReadsToTheEnd`), which is out of the prover's
reach.  All other properties of the passing runs are proved.

## 6. Not modelled

- What `run` shows its analyzers when it reads outside of a list: anything; the
  model stops there.
- Reflection (`toString`, the schemas as bytes in `*.capn.c++`), the `Pipeline`
  classes and `totalSize` of the generated code: nothing in the program calls them.
  Limits on what a reader traverses, and messages that are not what the writer
  wrote: the hash of a frame keeps them out.
- Hits at the back beyond the front's multiplicity: matched events have as many
  at the back as at the front.  The 32-bit sums of multiplicities.
- More hits than a detector has strips: `createOutput` sizes the output by the strips,
  the model's slots are as many as the largest multiplicity needs.
- A caller that writes in place more than `getWriteBuffer` offers: `LZ4OutputStream.h`
  leaves that bound to the caller, and the bytes lie outside the buffer before
  `write` is called.
- xxHash: vendored, and used as a function without collisions.  What it computes
  is arithmetic on 64-bit words, beyond TLC; its streaming interface is not used.
- The scratch main program and the build.
- The writer's constructor failing to write the file header; byte order; the
  widths of sizes (frames beyond 2 GB); I/O errors of the reader, which are
  exceptions of `inner.tryRead` that leave the stream unusable.
