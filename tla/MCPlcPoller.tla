---------------------------- MODULE MCPlcPoller -----------------------------
(* Instance of PlcPoller for TLC: one event tag in each area, one request. *)
EXTENDS PlcPoller

InputTags == {"B4"}
OutputTags == {"P3"}

\* The metal detector rises once, the green light twice: an edge may follow
\* another of the same tag, or one of the other area.
FewRises == [t \in InputTags \cup OutputTags |-> IF t = "P3" THEN 2 ELSE 1]
=============================================================================
