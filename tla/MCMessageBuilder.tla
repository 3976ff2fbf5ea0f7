--------------------------- MODULE MCMessageBuilder ---------------------------
(* Instance of the message builder for TLC. *)
EXTENDS MessageBuilder
===============================================================================
