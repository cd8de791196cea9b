----------------------------- MODULE ReviewDelta -----------------------------
(***************************************************************************)
(* What the final check of a branch must still review, also after a rebase *)
(* (scripts/review_delta.py), over a model of git's history.               *)
(*                                                                         *)
(* The base branch is a line of versions.  A branch forks off one of them  *)
(* and is a sequence of commits; a merge brings in a later version, or     *)
(* something else.  A file is an array of hunks.                           *)
(***************************************************************************)
EXTENDS Integers, Sequences, SequencesExt

CONSTANTS
  File, Content,   \* Content: functions from a set of places to hunks
  Version,         \* 1..n
  BaseTree         \* [Version -> Tree]

Tree == [File -> Content]

ASSUME DeltaAssumption ==
  /\ Version \subseteq Nat /\ 1 \in Version
  /\ BaseTree \in [Version -> Tree]

\* base: the version of the base branch that the commit contains.
Commit == [tree : Tree, base : Version, merge : BOOLEAN]

Branch == [fork : Version, commits : Seq(Commit)]

TreeOf(b) == IF b.commits = <<>> THEN BaseTree[b.fork] ELSE Last(b.commits).tree

\* git merge-base of the branch and the base branch
MergeBase(b) == IF b.commits = <<>> THEN b.fork ELSE Last(b.commits).base

Changed(t, u) == {f \in File : t[f] # u[f]}

\* git merge-base --is-ancestor.  Commits made alike are taken for the same.
IsAncestor(a, b) == a.fork = b.fork /\ IsPrefix(a.commits, b.commits)

FirstOf(b, n) == [b EXCEPT !.commits = SubSeq(@, 1, n)]

\* What git patch-id tells two patches apart by: files and hunks, but not where
\* in the file a hunk is.
PatchId(t, u) ==
  {<<f, {<<t[f][i], u[f][i]>> : i \in {j \in DOMAIN t[f] : t[f][j] # u[f][j]}}>> :
     f \in Changed(t, u)}

\* _patch_ids.  A merge shows no patch, like an empty commit.
PatchIds(b) ==
  [i \in DOMAIN b.commits |->
     IF b.commits[i].merge THEN {}
     ELSE PatchId(TreeOf(FirstOf(b, i - 1)), b.commits[i].tree)]

HasMerge(b) == \E i \in DOMAIN b.commits : b.commits[i].merge

Full(b) == [mode |-> "full", tree |-> BaseTree[MergeBase(b)]]

\* Bug: equal patches are enough.
Mapped_ByPatchId(last, head) == IsPrefix(PatchIds(last), PatchIds(head))

\* The branch starts with every reviewed patch, in order, and these change the
\* same files to the same contents.
Mapped(last, head) ==
  LET n == Len(last.commits)
      paths == Changed(BaseTree[MergeBase(last)], TreeOf(last))
      mapped == TreeOf(FirstOf(head, n)) IN
  /\ n > 0
  /\ IsPrefix(PatchIds(last), PatchIds(head))
  /\ paths = Changed(BaseTree[MergeBase(head)], mapped)
  /\ \A f \in paths : TreeOf(last)[f] = mapped[f]

\* delta_base: the tree to review head against.  found: the last reviewed commit
\* is still in the repository.
DeltaBase(last, head, found) ==
  CASE ~found -> Full(head)
    [] found /\ last = head -> [mode |-> "reviewed", tree |-> TreeOf(head)]
    [] found /\ last # head /\ IsAncestor(last, head) ->
         [mode |-> "ancestor", tree |-> TreeOf(last)]
    [] found /\ ~IsAncestor(last, head) ->
         IF HasMerge(head) \/ ~Mapped(last, head) THEN Full(head)
         ELSE [mode |-> IF Len(head.commits) = Len(last.commits) THEN "reviewed" ELSE "rebase",
               tree |-> TreeOf(FirstOf(head, Len(last.commits)))]
=============================================================================
