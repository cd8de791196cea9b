--------------------------- MODULE MCMemoryLegacy ---------------------------
(* Small instances of MemoryLegacy for TLC. *)
EXTENDS MCMemoryStore, MemoryLegacy
=============================================================================
