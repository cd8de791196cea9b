---------------------------- MODULE FactHistory ----------------------------
(***************************************************************************)
(* What the rich memory backend promises, without files, locks or crashes: *)
(* a set of named facts that change atomically, and a window of recent     *)
(* mutations, each of which can be undone as long as no later one of the   *)
(* same fact is still in force.  Old mutations may leave the window.       *)
(***************************************************************************)
EXTENDS Integers

CONSTANTS Name, Value, Absent,
  Stamp     \* the numbers mutations are told apart and ordered by

VARIABLES
  facts,   \* [Name -> Value]
  undo     \* the mutations that can still be undone

Mutation == [seq : Stamp, name : Name, pre : Value, post : Value]

vars == <<facts, undo>>

Init ==
  /\ facts = [n \in Name |-> Absent]
  /\ undo = {}

\* A write, a promotion or a deletion.
Mutate(n, v) ==
  \E s \in Stamp :
    /\ v # facts[n]
    /\ \A e \in undo : e.seq < s
    /\ facts' = [facts EXCEPT ![n] = v]
    /\ undo' = undo \cup {[seq |-> s, name |-> n, pre |-> facts[n], post |-> v]}

IsLatest(e) == \A f \in undo : f.name = e.name => f.seq <= e.seq

\* Undoing takes back exactly what the mutation did.
Undo(e) ==
  /\ IsLatest(e)
  /\ facts[e.name] = e.post
  /\ facts' = [facts EXCEPT ![e.name] = e.pre]
  /\ undo' = undo \ {e}

\* Retention: what stays is, fact by fact, the newest.
Forget(kept) ==
  /\ \A e \in kept, f \in undo : f.name = e.name /\ f.seq > e.seq => f \in kept
  /\ undo' = kept
  /\ UNCHANGED facts

\* Migration adds facts that cannot be undone.
Import(n, v) ==
  /\ facts[n] = Absent
  /\ facts' = [facts EXCEPT ![n] = v]
  /\ UNCHANGED undo

Next ==
  \/ \E n \in Name, v \in Value : Mutate(n, v) \/ Import(n, v)
  \/ \E e \in undo : Undo(e)
  \/ \E kept \in SUBSET undo : Forget(kept)

Spec == Init /\ [][Next]_vars
=============================================================================
