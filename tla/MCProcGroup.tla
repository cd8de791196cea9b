---------------------------- MODULE MCProcGroup -----------------------------
(* Small instances of ProcGroup for TLC. *)
EXTENDS ProcGroup, TLC

CONSTANTS m, w, v, a, b, c, d

\* Pids are interchangeable, and so are two workers.
Symmetric == Permutations(Pid)
=============================================================================
