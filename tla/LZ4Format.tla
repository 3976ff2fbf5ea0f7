------------------------------ MODULE LZ4Format ------------------------------
(***************************************************************************)
(* The layout of an AUSA buffer file (include/ausa/buf/AUSALZ4.h) and what *)
(* the writer and the reader use of liblz4 and xxHash.                     *)
(*                                                                         *)
(* Sizes are counted in cells.  Each field of the layout (the magic word,  *)
(* the buffer size, a frame's size, a frame's hash) is one cell, and so is *)
(* each byte of plaintext or of compressed payload: a torn write may end   *)
(* between any two cells.                                                  *)
(*                                                                         *)
(* The plaintext is a stream of bytes, and a byte is represented by its    *)
(* position in that stream, 1, 2, 3, ...; 0 stands for memory that holds   *)
(* no byte of the stream.  Two cells with different numbers may hold equal *)
(* or different values, as the data has it.                                *)
(***************************************************************************)
EXTENDS Integers, Sequences

CONSTANTS
  BUFFER_SIZE,      \* chunkSize: the capacity of each write buffer
  Window,           \* the largest distance of an LZ4 match (64 KB)
  CompressedSizes   \* the sizes of compressed frame the data may lead to

ASSUME FormatAssumption ==
  /\ BUFFER_SIZE \in Nat \ {0}
  /\ Window \in Nat \ {0}
  /\ CompressedSizes \subseteq Nat \ {0}
  /\ \E c \in CompressedSizes : c <= 2   \* even one byte can be compressed

(* Sizes in cells: magic word and buffer size; frame size and frame hash.  *)
HEADER_SIZE == 2
FRAME_HEADER_SIZE == 2

(* LZ4_COMPRESSBOUND: incompressible input grows.                          *)
CompressBound(n) == n + 1

AtMost(m, n) == IF m <= n THEN m ELSE n

(***************************************************************************)
(* A frame as compressAndWrite hands it to the underlying stream.          *)
(*   plain   the bytes that were compressed and hashed, as read from       *)
(*           memory; the recorded hash stands for them (no collisions)     *)
(*   clen    the compressed size                                           *)
(*   sees    the bytes of older blocks the matches of the frame refer to:  *)
(*           sees[k] was k cells before the frame in the compressor's      *)
(*           dictionary; << >> when no match leaves the frame              *)
(*   landed  how many of the frame's cells the underlying stream took      *)
(*   after   history: plaintext bytes in the complete frames before it     *)
(***************************************************************************)
Frame == [plain  : Seq(Nat),
          clen   : Nat \ {0},
          sees   : Seq(Nat),
          landed : Nat,
          after  : Nat]

FrameSize(f) == FRAME_HEADER_SIZE + f.clen
Complete(f) == f.landed = FrameSize(f)

==============================================================================
