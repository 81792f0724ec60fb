-------------------------- MODULE MCMinuteCounter ---------------------------
(* Instances of MinuteCounter for TLC. *)
EXTENDS MinuteCounter

CONSTANTS t1, t2, r1, cycle, metal

\* An ordinary clock, and one that a correction can move by a whole window.
Forward == {1}
Corrected == {1, 3, -3}
=============================================================================
