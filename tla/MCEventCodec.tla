----------------------------- MODULE MCEventCodec -----------------------------
(* Instance of the event codec for TLC. *)
EXTENDS EventCodec

\* Detectors that differ, with a strip count beyond 16 bits (BYTE = 4).
Dssd(i) == [name |-> << i >>, front |-> i, back |-> BYTE^2 + 4 + i]
Single(i) == [name |-> << i, 2 >>, strips |-> BYTE + i]

Telescope(doubles, singles, signals) ==
  [doubles |-> [i \in 1 .. doubles |-> Dssd(i)],
   singles |-> [i \in 1 .. singles |-> Single(i)],
   signals |-> [i \in 1 .. signals |-> << 3, i >>]]

\* Setups that lead one another, and that do not.
SomeSetups == {Telescope(2, 1, 1), Telescope(2, 0, 2), Telescope(1, 2, 0), Telescope(1, 0, 1)}
===============================================================================
