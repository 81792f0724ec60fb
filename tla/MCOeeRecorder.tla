--------------------------- MODULE MCOeeRecorder ----------------------------
(* Instance of OeeRecorder for TLC. *)
EXTENDS OeeRecorder

\* A part that enters, passes the middle sensor and finishes, with the red
\* light on or off; MCOeeHistory checks the counting of the other images.
FewImages == {{}, {"B3", "B2"}, {"P1"}, {"B1"}}
Clock == 0..3
=============================================================================
