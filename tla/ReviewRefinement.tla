-------------------------- MODULE ReviewRefinement ---------------------------
(***************************************************************************)
(* Ship's bridge implements Review: what is in its files before it ends,   *)
(* and after it has failed, is nothing that was given.                     *)
(***************************************************************************)
EXTENDS Ship

Status ==
  CASE stage = "idle" -> "none"
    [] stage = "ended" -> IF exit = "path" THEN "given" ELSE "failed"
    [] OTHER -> "asked"

GivenText == IF exit = "path" THEN text ELSE NoText
GivenDecisions ==
  IF exit = "path" /\ out.by = "judge"
    THEN [i \in DOMAIN text.findings |-> DecisionOn(text.findings[i], answer)]
    ELSE <<>>
GivenLines == IF exit = "path" THEN out.lines ELSE <<>>
GivenBanner == IF exit = "path" THEN out.banner ELSE "none"

Promised == INSTANCE Review WITH
  Decisions <- {d \in Decision : WellFormed(d)}, status <- Status, found <- GivenText,
  decided <- GivenDecisions, report <- GivenLines, banner <- GivenBanner

\* A failure gives nothing and an answer is whole: all findings with the banner
\* that nobody judged them, or each with a decision of its own, whichever stage fails,
\* times out or answers badly, in every review of a branch.
ImplementsReview == Promised!Init /\ [][Promised!Next]_Promised!vars
=============================================================================
