----------------------------- MODULE ReviewJudge -----------------------------
(***************************************************************************)
(* Ground or drop (scripts/review_judge.py,                                *)
(* scripts/judge_decision_validator.py): what makes a generator's text fit *)
(* to be judged, what makes the judge's answer a decision table, and what  *)
(* the two together do to each finding.                                    *)
(*                                                                         *)
(* A finding is a JSON block; the heading and prose above it are in the    *)
(* gap between the block before it and its own.  A heading in the gap is   *)
(* what a reader takes for a finding, with or without a block.             *)
(***************************************************************************)
EXTENDS Integers, Sequences, FiniteSets, Functions

CONSTANTS FindingId, NoId     \* NoId: the block has no id, or is no JSON

ASSUME IdAssumption == NoId \notin FindingId

Severities == {"minor", "major", "blocker"}

\* extract_findings.  flagged is out_of_scope_load_bearing; headings counts the
\* finding headings in the gap before the block.
Finding == [id : FindingId \cup {NoId}, severity : Severities, flagged : BOOLEAN, headings : 0..2]

\* What the generator wrote.  clean: its verdict is LGTM.  blank: white space only.
Text == [clean : BOOLEAN, blank : BOOLEAN, findings : Seq(Finding)]

\* check_generator_contract
Contract(text) ==
  LET F == text.findings IN
  IF F = <<>> THEN text.clean
  ELSE /\ \A i \in DOMAIN F : F[i].id # NoId
       /\ \A i, j \in DOMAIN F : F[i].id = F[j].id => i = j

-----------------------------------------------------------------------------
(* The decision table *)

DropReasons == {"no-evidence", "below-threshold", "auto-zero-category", "out-of-diff-boundary"}

\* "odd" stands for every value a field must not have.  reclassified is null
\* unless said otherwise; the score is in range or not.
Decision == [id : FindingId \cup {NoId},
             call : {"keep", "drop", "odd"},
             scored : BOOLEAN,
             reason : DropReasons \cup {"null", "odd"},
             reclassified : {"null", "tier-3", "odd"},
             causal : {"true", "false", "null", "odd"}]

\* The judge's answer, if it is a list of objects at all.
NoTable == << >>
Answer == Seq(Decision)

WellFormed(d) ==
  /\ d.scored
  /\ \/ d.call = "keep" /\ d.reason = "null" /\ d.reclassified = "null"
     \/ /\ d.call = "drop" /\ d.reason \in DropReasons
        /\ \/ d.reclassified = "null"
           \/ d.reclassified = "tier-3" /\ d.reason = "auto-zero-category"
  /\ d.causal # "odd"

Ids(s) == {s[i].id : i \in DOMAIN s}

\* validate_decisions: exactly one well-formed decision for each finding.
Valid(answer, findings) ==
  /\ \A i \in DOMAIN answer : WellFormed(answer[i]) /\ answer[i].id \in Ids(findings)
  /\ \A i, j \in DOMAIN answer : answer[i].id = answer[j].id => i = j
  /\ Ids(findings) \subseteq Ids(answer)

DecisionOn(f, answer) == answer[CHOOSE i \in DOMAIN answer : answer[i].id = f.id]

-----------------------------------------------------------------------------
(* reconcile *)

Fates == {"unjudged", "kept", "contested", "dropped"}

\* The generator's flag and the judge's confirmation are both needed to keep a
\* finding that lies outside the diff.
Escapes(f, d) == d.reason = "out-of-diff-boundary" /\ f.flagged /\ d.causal = "true"

\* Bug: a blocker is dropped like any other finding.
Fate_DropsBlockers(f, d) == IF d.call = "keep" \/ Escapes(f, d) THEN "kept" ELSE "dropped"

\* What reconcile makes of a finding: the class that is never a blocker first,
\* then blockers, which are never dropped.
Fate(f, d) ==
  CASE d.call = "keep" -> "kept"
    [] d.call = "drop" /\ Escapes(f, d) -> "kept"
    [] d.call = "drop" /\ d.reason = "auto-zero-category" -> "dropped"
    [] OTHER -> IF f.severity = "blocker" THEN "contested" ELSE "dropped"

\* Bug: the generator's flag alone counts.
Removes_FlagAlone(f, d) ==
  /\ d.call = "drop"
  /\ ~(d.reason = "out-of-diff-boundary" /\ f.flagged)
  /\ d.reason = "auto-zero-category" \/ f.severity # "blocker"

\* _decision_removes, which must agree with reconcile.
Removes(f, d) ==
  /\ d.call = "drop"
  /\ ~Escapes(f, d)
  /\ d.reason = "auto-zero-category" \/ f.severity # "blocker"

\* drop_leaves_orphan_prose: something is removed, and headings and blocks do
\* not come in pairs.
OrphanProse(text, answer) ==
  LET F == text.findings IN
  /\ \E i \in DOMAIN F : Removes(F[i], DecisionOn(F[i], answer))
  /\ \E i \in DOMAIN F : F[i].headings > 0
  /\ \E i \in DOMAIN F : F[i].headings # 1

\* A finding in the artifact.  A block that goes takes its heading along only if
\* it is the one heading in the gap.
Line == [id : FindingId \cup {NoId}, severity : Severities, fate : Fates, headings : 0..2]

LineOf(f, fate) ==
  [id |-> f.id, severity |-> f.severity, fate |-> fate,
   headings |-> IF fate = "dropped" /\ f.headings = 1 THEN 0 ELSE f.headings]

Unjudged(text) == [i \in DOMAIN text.findings |-> LineOf(text.findings[i], "unjudged")]

Reconciled(text, answer) ==
  [i \in DOMAIN text.findings |->
     LET f == text.findings[i] IN LineOf(f, Fate(f, DecisionOn(f, answer)))]
=============================================================================
