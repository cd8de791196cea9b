---------------------------- MODULE MemoryLegacy ----------------------------
(***************************************************************************)
(* The store on a journal that the single-phase version left behind: its   *)
(* records carry no committed flag, and its process may have died between  *)
(* journaling a mutation and making it.                                    *)
(***************************************************************************)
EXTENDS MemoryStore

CONSTANT MaxLegacy   \* bound: legacy records to start from

ASSUME LegacyAssumption == MaxLegacy \in 0 .. MaxSeq

LegacyEntry(s) ==
  {e \in [seq : {s}, op : ForwardOps, name : Name, pre : Value, post : Value,
          target : {NoTarget}, flag : {"none"}, restore : {NoRestore}] :
     \/ e.op = "write" /\ e.pre = Absent /\ e.post # Absent
     \/ e.op = "delete" /\ e.pre # Absent /\ e.post = Absent
     \/ /\ e.op = "promote"
        /\ e.pre # Absent /\ e.pre.status = "pending"
        /\ e.post = [e.pre EXCEPT !.status = "confirmed"]}

\* Every mutation starts from an image of the one before it on the same fact:
\* the image it left, or the one it was to replace when it never landed.
Follows(j) ==
  \A i \in DOMAIN j : \A k \in 1 .. i - 1 :
    (/\ j[k].name = j[i].name
     /\ \A m \in k + 1 .. i - 1 : j[m].name # j[i].name)
      => j[i].pre \in {j[k].pre, j[k].post}

LegacyJournals ==
  {j \in UNION {[1 .. k -> UNION {LegacyEntry(i) : i \in 1 .. k}] : k \in 0 .. MaxLegacy} :
     (\A i \in DOMAIN j : j[i].seq = i) /\ Follows(j)}

\* Nobody is at work; with an interrupted publication .dirty is there and the
\* index is not up to date.
AtRest ==
  /\ \/ dirty = TRUE /\ index = NoIndex
     \/ dirty = FALSE /\ index = facts
  /\ newer = {}
  /\ migrating = FALSE
  /\ lock = NoProc
  /\ pc = [p \in Proc |-> "idle"]
  /\ op = [p \in Proc |-> "none"]
  /\ work = NoWork
  /\ edits = 0

\* The fact of the last record of each name is at one of its two images.
LegacyInit ==
  /\ journal \in LegacyJournals
  /\ facts \in [Name -> Value]
  /\ \A n \in Name :
       LET mine == {i \in DOMAIN journal : journal[i].name = n}
           last == CHOOSE i \in mine : \A k \in mine : k <= i
       IN IF mine = {} THEN facts[n] = Absent
          ELSE facts[n] \in {journal[last].pre, journal[last].post}
  /\ AtRest

LegacySpec == LegacyInit /\ [][Next]_vars

\* A mutation and its undo: by the single-phase version, which journaled an undo
\* when it had made it; or by the first two-phase version, whose intent did not
\* say what to restore.  Retention may have dropped what came before the last.
EarlierJournals ==
  UNION {LET undo(f) == [seq |-> 2, op |-> "rollback", name |-> e.name, pre |-> e.post,
                         post |-> e.pre, target |-> 1, flag |-> f, restore |-> NoRestore]
         IN {<<e, undo("none")>>, <<undo("none")>>, <<[e EXCEPT !.seq = 2]>>,
             <<[e EXCEPT !.flag = "done"], undo("open")>>, <<undo("open")>>} :
           e \in LegacyEntry(1)}

\* What an intent without its mutation was to restore nobody can say any more: if
\* it has not been done, it is left to a person.
EarlierInit ==
  /\ journal \in EarlierJournals
  /\ LET r == journal[Len(journal)]
     IN \E v \in {r.pre, r.post} :
          /\ v # r.post => r.op \in ForwardOps \/ (r.flag = "open" /\ Len(journal) = 2)
          /\ facts = [n \in Name |-> IF n = r.name THEN v ELSE Absent]
  /\ AtRest

EarlierSpec == (LegacyInit \/ EarlierInit) /\ [][Next]_vars
=============================================================================
