---------------------------- MODULE MCAUSABufFile ----------------------------
(* Instance of the whole file, writer to reader, for TLC. *)
EXTENDS AUSABufFile
==============================================================================
