------------------------------- MODULE MCShip --------------------------------
(* A small instance of Ship for TLC. *)
EXTENDS ReviewRefinement

CONSTANTS x, y, f1, f2

MCClassOf == [i \in FindingId \cup {NoId} |-> IF i = x THEN "correctness" ELSE "unclassified"]

F(id, severity, flagged, headings) ==
  [id |-> id, severity |-> severity, flagged |-> flagged, headings |-> headings]
T(clean, blank, findings) == [clean |-> clean, blank |-> blank, findings |-> findings]

MCTexts ==
  {T(TRUE, FALSE, <<>>), T(FALSE, TRUE, <<>>),
   T(FALSE, FALSE, <<F(y, "blocker", FALSE, 1)>>),
   T(FALSE, FALSE, <<F(x, "major", TRUE, 2), F(y, "minor", FALSE, 0)>>),
   T(FALSE, FALSE, <<F(x, "minor", FALSE, 1), F(y, "major", FALSE, 1)>>),
   T(FALSE, FALSE, <<F(NoId, "minor", FALSE, 1)>>)}

D(id, call, reason, causal) ==
  [id |-> id, call |-> call, scored |-> TRUE, reason |-> reason, reclassified |-> "null",
   causal |-> causal]
Keep(id) == D(id, "keep", "null", "null")
Weak(id) == D(id, "drop", "below-threshold", "null")
Outside(id, causal) == D(id, "drop", "out-of-diff-boundary", causal)
Zero(id) == D(id, "drop", "auto-zero-category", "null")

MCAnswers ==
  {<<>>, <<Keep(y)>>, <<Weak(y)>>, <<Zero(y)>>, <<D(y, "odd", "null", "null")>>,
   <<Keep(x), Weak(y)>>, <<Outside(x, "true"), Keep(y)>>, <<Outside(x, "false"), Keep(y)>>}

\* A file has a line that the base branch changes and one that the branch does.
\* The base branch changes one file.
MCContent == {<<i, j>> : i, j \in 0..1}
MCBaseTree == <<[f \in File |-> <<0, 0>>], [f \in File |-> IF f = f1 THEN <<1, 0>> ELSE <<0, 0>>]>>
MCTree0 == {t \in [File -> MCContent] :
              t[f2] = <<0, 0>> \/ (t[f2] = <<0, 1>> /\ t[f1][1] = 0)}

W(proposed, override, previous, live) ==
  [proposed |-> proposed, override |-> override, previous |-> previous, live |-> live]
MCWishes ==
  {W(0, None, None, FALSE), W(0, None, 2, FALSE), W(0, 0, None, FALSE), W(None, None, None, FALSE),
   W(1, None, None, TRUE)}
=============================================================================
