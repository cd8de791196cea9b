-------------------------- MODULE MemoryRefinement --------------------------
(***************************************************************************)
(* MemoryStore implements FactHistory.  A mutation takes effect with the   *)
(* one file operation that changes the fact; the window of undoable        *)
(* mutations is read off the journal and the facts, never stored.          *)
(***************************************************************************)
EXTENDS MemoryStore

\* Whether the fact operation of a record has happened: recovery would not look
\* at the record any more, or the fact shows it.
Landed(e) == ~IsDangling(journal, e) \/ facts[e.name] = e.post

UndoneSeqs == {e.target : e \in {r \in Entries(journal) : r.op = "rollback" /\ Landed(r)}}

AsMutation(s, n, pre, post) == [seq |-> s, name |-> n, pre |-> pre, post |-> post]

\* Mutations in force, and the target of a rollback that has not landed: its
\* own record may already have left the journal.
UndoWindow ==
  {AsMutation(e.seq, e.name, e.pre, e.post) :
     e \in {f \in Entries(journal) :
              f.op \in ForwardOps /\ Landed(f) /\ f.seq \notin UndoneSeqs}}
  \cup
  {AsMutation(r.target, r.name, r.post, r.pre) :
     r \in {x \in Entries(journal) : x.op = "rollback" /\ ~Landed(x)}}

History == INSTANCE FactHistory WITH undo <- UndoWindow, Stamp <- 1 .. MaxSeq

\* Every behaviour of the store, crashes and recoveries included, is one of a
\* store whose mutations and undos are atomic; what the single-phase version
\* left is one more state such a store may start from.
ImplementsHistory ==
  (journal = <<>> => History!Init) /\ [][History!Next]_<<facts, UndoWindow>>
=============================================================================
