----------------------------- MODULE AUSABufFile -----------------------------
(***************************************************************************)
(* An AUSA buffer file from one end to the other: an LZ4OutputStream       *)
(* writes it, and once that stream is closed, or its process has died, an  *)
(* LZ4InputStream reads what is there.                                     *)
(***************************************************************************)
EXTENDS LZ4OutputStream, SequencesExt

CONSTANTS
  MAX_READ    \* bound: the largest maxBytes of a read

ASSUME FileAssumption == MAX_READ \in Nat

VARIABLES
  file, filePos, nextFrameSize, lastHash, compressed, decompressed,
  prefixSize, avail, delivered, shortRead, rstatus

Reader == INSTANCE LZ4InputStream

rvars == << file, filePos, nextFrameSize, lastHash, compressed, decompressed,
            prefixSize, avail, delivered, shortRead, rstatus >>

vars == << wvars, rvars >>

Written == status \in {"closed", "crashed"}

Init == WInit /\ Reader!RInit

Next ==
  \/ WNext /\ UNCHANGED rvars
  \/ Written /\ Reader!RNext /\ UNCHANGED wvars

Spec == Init /\ [][Next]_vars

-----------------------------------------------------------------------------
(* Types of the reader's state: bufferAvailable lies within the plaintext buffer. *)
ReaderTypes == Reader!RTypeOK

(***************************************************************************)
(* The reader never hands out a wrong byte: what it delivers is the        *)
(* beginning of the stream that was written, in order, whatever became of  *)
(* the file (torn frames, a retry after an error, a crash) and of the      *)
(* dictionaries on both sides.  Every other outcome is caught by the hash. *)
(***************************************************************************)
DeliveredInOrder ==
  ~Interrupted => \A n \in 1 .. Len(delivered) : delivered[n] = n

(***************************************************************************)
(* A file whose frames are all complete and full but for the last one is   *)
(* what a writer leaves that is not flushed in between.  When no frame     *)
(* refers to memory of a caller that was reused, it is readable to its end *)
(* if each frame fits the buffer it is read into together with the header  *)
(* behind it, the last one without, and blocks are no smaller than the     *)
(* window of LZ4: although each block is decoded over its own dictionary,  *)
(* no match reads what has been overwritten, and both sides always have    *)
(* the same dictionary.                                                    *)
(***************************************************************************)
WellChunked ==
  /\ AllComplete
  /\ \A i \in 1 .. Len(sink) - 1 : Len(sink[i].plain) = BUFFER_SIZE

SourcesKept == \A i \in 1 .. Len(sink) : 0 \notin {sink[i].sees[k] : k \in 1 .. Len(sink[i].sees)}

FramesFit ==
  \A i \in 1 .. Len(sink) :
    sink[i].clen + (IF i < Len(sink) THEN FRAME_HEADER_SIZE ELSE 0) <= BUFFER_SIZE

NeverRejected ==
  BUFFER_SIZE >= Window /\ FramesFit /\ WellChunked /\ SourcesKept /\ Len(sink) > 0
    => rstatus \notin {"aborted", "overrun"}

(***************************************************************************)
(* What the users of tryRead rely on (kj::InputStream): fewer bytes than   *)
(* minBytes only when there are no more.  It holds for reads of up to a    *)
(* block when all blocks but the last are full.                            *)
(***************************************************************************)
NothingLeft == nextFrameSize = 0 /\ avail.from = avail.to

ShortOnlyAtEnd ==
  WellChunked /\ shortRead \in 1 .. BUFFER_SIZE => NothingLeft

(***************************************************************************)
(* Durability of what was handed over: a reader that reaches the end of a  *)
(* file, torn by a crash or not, has delivered every complete frame.       *)
(***************************************************************************)
AtEndOfFile == rstatus = "open" /\ NothingLeft

EndDeliversStored ==
  AtEndOfFile /\ Len(sink) > 0 => Len(delivered) = stored

(***************************************************************************)
(* The whole file implements ByteFile: the complete frames, one after the  *)
(* other, are a prefix of what was accepted, the reader hands out a prefix *)
(* of them, and no step of either takes back what was kept or delivered.   *)
(***************************************************************************)
KeptBytes ==
  FlattenSeq([i \in 1 .. Len(sink) |-> IF Complete(sink[i]) THEN sink[i].plain ELSE << >>])

Abstract == INSTANCE ByteFile WITH
  input  <- [i \in 1 .. accepted |-> i],
  kept   <- KeptBytes,
  output <- delivered,
  phase  <- IF ~Written THEN "writing"
            ELSE IF rstatus \in {"new", "open"} THEN "written" ELSE "rejected"

ImplementsByteFile == Abstract!Spec

-----------------------------------------------------------------------------
(***************************************************************************)
(* What the documentation promises and the code does not keep.             *)
(***************************************************************************)

(***************************************************************************)
(* LZ4InputStream.h: it "will decompress a file written by                 *)
(* LZ4OutputStream".  A file whose every frame was written completely ends *)
(* the reader neither with a hash mismatch nor with a frame that does not  *)
(* fit its buffer.                                                         *)
(***************************************************************************)
WrittenIsReadable ==
  AllComplete /\ Len(sink) > 0 => rstatus \notin {"aborted", "overrun"}

(***************************************************************************)
(* The same promise for a stream that was closed before anything was       *)
(* written to it: the reader finds no bytes, and that is all.              *)
(***************************************************************************)
EmptyIsReadable ==
  status = "closed" /\ accepted = 0 => rstatus \notin {"aborted", "overrun"}

==============================================================================
