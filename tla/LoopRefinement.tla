--------------------------- MODULE LoopRefinement ---------------------------
(***************************************************************************)
(* LoopTriage implements LoopLedger where there is a flock: what a session *)
(* has read and not yet written, and the lock, are nothing of the ledger's.*)
(***************************************************************************)
EXTENDS LoopTriage

Ledger == INSTANCE LoopLedger WITH loops <- store.loops, given <- 1 .. minted, deleted <- resets

\* Adds and decisions of all sessions take effect one at a time, each on what the
\* one before left, whoever read what and whenever, and whoever dies.
ImplementsLedger == Ledger!Init /\ [][Ledger!Next]_Ledger!vars
=============================================================================
