-------------------------- MODULE MCMutationCheck ---------------------------
(* Small instances of MutationMain and MutationCheck for TLC. *)
EXTENDS MutationMain, TLC

CONSTANTS w1, w2, f, g

\* Mutants of two files in turn.
MCFileOf == [m \in Mutant |-> IF m % 2 = 1 THEN f ELSE g]

\* Every setting, with the sandbox installed, missing, mistyped, and leaking.
MCMachines ==
  [setting : Setting, binary : {"found", "none"}, problems : {{}}]
    \cup [setting : {"auto"}, binary : {"found"}, problems : {{"sees processes"}}]
    \cup [setting : {"off"}, binary : {"mistyped"}, problems : {{}}]

MCTexts == [effects : {{}, {"process"}, {"files"}}, parses : {TRUE}]
             \cup [effects : {{}}, parses : {FALSE}]
=============================================================================
