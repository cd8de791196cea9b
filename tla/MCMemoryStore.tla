--------------------------- MODULE MCMemoryStore ---------------------------
(* Small instances of MemoryStore for TLC. *)
EXTENDS MemoryRefinement, TLC

CONSTANTS p1, p2, n1, n2, n3, t1, t2, k1, k2

\* Free names are tried in the order n, n-2, n-3.
MCSuffixes == [n \in Name |-> CASE n = n1 -> SelectSeq(<<n1, n2, n3>>, LAMBDA m : m \in Name)
                                [] n = n2 -> <<n2>>
                                [] OTHER  -> <<n>>]

\* Processes are interchangeable; the runs without liveness use it.
Symmetric == Permutations(Proc)

\* Pending entries that all want the name n1.
OneSlug == [e \in Entry |-> n1]
OnePending == [e \in Entry |-> "pending"]
OneText == [e \in Entry |-> t1]
=============================================================================
