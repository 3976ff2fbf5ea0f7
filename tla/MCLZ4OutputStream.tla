-------------------------- MODULE MCLZ4OutputStream --------------------------
(* Instance of the output stream for TLC: buffers of 3 cells. *)
EXTENDS LZ4OutputStream
=============================================================================
