-------------------------- MODULE MCSourceManager ---------------------------
(* Instances of SourceManager for TLC: one request at a time, or two that   *)
(* overlap.                                                                 *)
EXTENDS SourceManager

CONSTANTS b1, b2, r1, r2, s1
=============================================================================
