------------------------------- MODULE Review --------------------------------
(***************************************************************************)
(* What the review bridge promises whoever calls it, without its stages,   *)
(* files and processes: a review that was asked for fails and gives        *)
(* nothing, or gives a text at once and as a whole.  Either the text is    *)
(* what the reviewer wrote and says that nobody judged it, or each finding *)
(* was decided on by itself, and the decision says what became of it.      *)
(***************************************************************************)
EXTENDS Integers, Sequences

CONSTANTS
  Texts,       \* what the reviewer may write
  Decisions,   \* the decisions that count as one
  NoText, NoId

VARIABLES
  status,      \* "none", "asked", "failed" or "given"
  found,       \* what the reviewer wrote
  decided,     \* the decision on each finding, if there are any
  report,      \* what the caller reads
  banner       \* whether it says that nobody judged it

vars == <<status, found, decided, report, banner>>

Nothing == found = NoText /\ decided = <<>> /\ report = <<>> /\ banner = "none"

Init == status = "none" /\ Nothing

Ask == status = "none" /\ status' = "asked" /\ UNCHANGED <<found, decided, report, banner>>

Fail == status = "asked" /\ status' = "failed" /\ UNCHANGED <<found, decided, report, banner>>

Shown(f, fate) ==
  [id |-> f.id, severity |-> f.severity, fate |-> fate,
   headings |-> IF fate = "dropped" THEN 0 ELSE f.headings]

\* All findings, and the banner unless it could not be written; without it there
\* must be something to read.
AsWritten ==
  /\ decided' = <<>>
  /\ report' = [i \in DOMAIN found'.findings |-> Shown(found'.findings[i], "unjudged")]
  /\ banner' \in {"written", "failed"}
  /\ found'.blank => banner' = "written"

\* The decision's own word, or both sides say that the finding bears load.
Stands(f, d) ==
  d.call = "keep" \/ (d.reason = "out-of-diff-boundary" /\ f.flagged /\ d.causal = "true")

Fate(f, d) ==
  IF Stands(f, d) THEN "kept"
  ELSE IF f.severity = "blocker" /\ d.reason # "auto-zero-category" THEN "contested" ELSE "dropped"

\* Every finding can be told from the others, and has a decision; where one is
\* dropped, what is left has at most its own heading.
Decided ==
  LET F == found'.findings IN
  /\ ~found'.blank
  /\ \A i \in DOMAIN F : F[i].id # NoId
  /\ \A i, k \in DOMAIN F : F[i].id = F[k].id => i = k
  /\ DOMAIN decided' = DOMAIN F
  /\ \A i \in DOMAIN F : decided'[i] \in Decisions /\ decided'[i].id = F[i].id
  /\ report' = [i \in DOMAIN F |-> Shown(F[i], Fate(F[i], decided'[i]))]
  /\ (\E i \in DOMAIN F : report'[i].fate = "dropped") =>
       \A i \in DOMAIN F : report'[i].headings <= 1
  /\ banner' = "none"

Give ==
  /\ status = "asked" /\ status' = "given"
  /\ found' \in Texts
  /\ AsWritten \/ Decided

\* The caller has read the review, or learnt that there is none.
Take == status \in {"failed", "given"} /\ status' = "none" /\ Nothing'

Next == Ask \/ Fail \/ Give \/ Take
=============================================================================
