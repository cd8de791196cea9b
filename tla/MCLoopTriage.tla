--------------------------- MODULE MCLoopTriage ---------------------------
(* Small instances of LoopTriage for TLC. *)
EXTENDS LoopRefinement

CONSTANTS p1, p2
=============================================================================
