---------------------------- MODULE MCProtoStream ----------------------------
(* Instance of the message layer for TLC. *)
EXTENDS ProtoStream

\* Headers of one segment; events that have one segment as large as a chunk of 4, or two.
SmallHeader == << 1 >>
WideHeader == << 3 >>
SmallEvents == { << 4 >>, << 1, 2 >> }

\* An event with a segment larger than a chunk of 3.
LargeEvents == { << 2 >>, << 4 >> }
==============================================================================
