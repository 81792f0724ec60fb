---------------------------- MODULE MCOeeHistory ----------------------------
(* Instances of OeeHistory for TLC. *)
EXTENDS OeeHistory

\* Images that show every edge alone, and the edges that a 500 ms sample can
\* merge: a part entering while another finishes, and a long part on two
\* sensors.  P1 and time play no part in counting.
BeltImages == {{}, {"B3"}, {"B2"}, {"B4"}, {"B1"}, {"B1", "B3"},
               {"B2", "B3"}, {"B2", "B4"}, {"B1", "B2"}}
Instant == {0}
=============================================================================
