----------------------------- MODULE LoopLedger -----------------------------
(***************************************************************************)
(* What the loop store promises the sessions that share it, without files, *)
(* locks or copies: one list of loops, of which each command changes one   *)
(* at once.  A loop has a number, unique until the list is deleted, and a  *)
(* uuid, which is never given twice; loops from before uuids get theirs    *)
(* with the next command.                                                  *)
(***************************************************************************)
EXTENDS Integers, Sequences

CONSTANT NoUuid

VARIABLES
  loops,     \* the loops in the order they were added
  given,     \* the uuids ever given
  deleted    \* how often the list was deleted

vars == <<loops, given, deleted>>

Increasing == \A i, k \in DOMAIN loops : i < k => loops[i].id < loops[k].id

Init ==
  /\ Increasing
  /\ \A i \in DOMAIN loops : loops[i].uuid \in given \cup {NoUuid}
  /\ deleted = 0

\* The loop m is l, with a uuid.
Named(l, m) ==
  /\ m = [l EXCEPT !.uuid = m.uuid]
  /\ IF l.uuid = NoUuid THEN m.uuid \in given' \ given ELSE m.uuid = l.uuid

\* The list is to be ls, every loop with a uuid of its own.
Becomes(ls) ==
  /\ given \subseteq given'
  /\ DOMAIN loops' = DOMAIN ls
  /\ \A i \in DOMAIN ls : Named(ls[i], loops'[i])
  /\ \A i, k \in DOMAIN ls : loops'[i].uuid = loops'[k].uuid => i = k
  /\ UNCHANGED deleted

\* A new loop has a number above all others.
Add(l) ==
  /\ l.status = "open" /\ l.count = 0 /\ l.uuid = NoUuid
  /\ \A i \in DOMAIN loops : loops[i].id < l.id
  /\ Becomes(Append(loops, l))

Close(i) == Becomes([loops EXCEPT ![i].status = "closed"])

\* Undecided once more.
Count(i, n) == Becomes([loops EXCEPT ![i].count = n])

Delete ==
  /\ loops' = <<>>
  /\ deleted' = deleted + 1
  /\ UNCHANGED given

Newest == loops'[Len(loops')]

Next ==
  \/ loops' # <<>> /\ Add([Newest EXCEPT !.uuid = NoUuid])
  \/ \E i \in DOMAIN loops :
       \/ Close(i)
       \/ i \in DOMAIN loops' /\ Count(i, loops'[i].count)
  \/ Delete
=============================================================================
