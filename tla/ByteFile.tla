------------------------------- MODULE ByteFile -------------------------------
(***************************************************************************)
(* What an AUSA buffer file promises, whatever it is made of: bytes are    *)
(* put in at one end and come out at the other in the same order.          *)
(*   input   the bytes accepted from the writing program                   *)
(*   kept    those that are safe in the file, a prefix of input            *)
(*   output  those handed to the reading program, a prefix of kept         *)
(* A file may be rejected at any time, but it never changes its mind: what *)
(* was kept stays kept, and nothing is handed out twice or out of order.   *)
(***************************************************************************)
EXTENDS Sequences, SequencesExt

VARIABLES input, kept, output, phase

Init ==
  /\ input = << >> /\ kept = << >> /\ output = << >>
  /\ phase = "writing"

Keep == IsPrefix(kept, kept') /\ IsPrefix(kept', input')

Write ==
  /\ phase = "writing"
  /\ IsPrefix(input, input')
  /\ Keep
  /\ UNCHANGED << output, phase >>

Close ==
  /\ phase = "writing"
  /\ phase' = "written"
  /\ Keep
  /\ UNCHANGED << input, output >>

Read ==
  /\ phase = "written"
  /\ IsPrefix(output, output') /\ IsPrefix(output', kept)
  /\ UNCHANGED << input, kept, phase >>

Reject ==
  /\ phase = "written"
  /\ phase' = "rejected"
  /\ UNCHANGED << input, kept, output >>

Next == Write \/ Close \/ Read \/ Reject

Spec == Init /\ [][Next]_<< input, kept, output, phase >>
===============================================================================
