---------------------------- MODULE ReviewBridge -----------------------------
(***************************************************************************)
(* One run of the review bridge (scripts/codex-bridge.sh): the generator   *)
(* writes findings, the baseline is published, the judge decides on them   *)
(* and its decisions are worked into the published text; or, without       *)
(* Codex, one Claude reviews.  Every stage may fail or time out.           *)
(*                                                                         *)
(* The caller gets the path of the artifact, or the class of a failure and *)
(* a nonzero exit.                                                         *)
(***************************************************************************)
EXTENDS ReviewJudge

CONSTANTS
  Texts,      \* what the generator, or Claude, may write
  Answers     \* what the judge may answer

ASSUME BridgeAssumption == Texts \subseteq Text /\ Answers \subseteq Answer

VARIABLES
  stage,
  text,       \* the generator's output
  answer,     \* the judge's, once it is in use
  out,        \* the artifact
  exit        \* "path", the class of a failure, or "none" while it runs

bridge == <<stage, text, answer, out, exit>>

NoText == [clean |-> FALSE, blank |-> TRUE, findings |-> <<>>]

\* The artifact.  by: whose text it is.  banner: the text says that it was not
\* judged, or was meant to.
Artifact == [by : {"nobody", "generator", "judge", "claude"},
             banner : {"none", "written", "failed"},
             blank : BOOLEAN,
             lines : Seq(Line)]
Empty == [by |-> "nobody", banner |-> "none", blank |-> TRUE, lines |-> <<>>]

Classes == {"bad-args", "bad-review-target", "codex-exec-failed", "empty-output",
            "baseline-publish-failed", "claude-fallback-failed", "no-reviewer-available",
            "unknown-failure"}

Idle == stage = "idle" /\ text = NoText /\ answer = NoTable /\ out = Empty /\ exit = "none"

Clear == stage' = "idle" /\ text' = NoText /\ answer' = NoTable /\ out' = Empty /\ exit' = "none"

From(a, b) == stage = a /\ stage' = b

\* on_exit
Fail(class) ==
  /\ stage' = "ended" /\ exit' = class
  /\ UNCHANGED <<text, answer, out>>

\* The arguments.  Anything that goes wrong with the files it starts with, or
\* with the version of Codex, ends the script as well.
Begin ==
  /\ stage = "begin"
  /\ \/ Fail("bad-args") \/ Fail("unknown-failure")
     \/ stage' \in {"codex context", "claude context"} /\ UNCHANGED <<text, answer, out, exit>>

\* build_context; what enriches the context cannot fail it.
CodexContext ==
  /\ stage = "codex context"
  /\ \/ Fail("bad-review-target")
     \/ stage' = "prompt" /\ UNCHANGED <<text, answer, out, exit>>

\* build_generator_prompt; the kind of review may be unknown.
GeneratorPrompt ==
  /\ stage = "prompt"
  /\ \/ Fail("bad-args")
     \/ stage' = "generate" /\ UNCHANGED <<text, answer, out, exit>>

\* The generator.  Its output file may be empty.
Generate ==
  /\ stage = "generate"
  /\ \/ Fail("codex-exec-failed") \/ Fail("empty-output")
     \/ text' \in Texts /\ stage' = "publish" /\ UNCHANGED <<answer, out, exit>>

\* publish_baseline
Publish ==
  /\ stage = "publish"
  /\ \/ Fail("baseline-publish-failed")
     \/ /\ stage' = "contract"
        /\ out' = [by |-> "generator", banner |-> "none", blank |-> text.blank,
                   lines |-> Unjudged(text)]
        /\ UNCHANGED <<text, answer, exit>>

CheckContract ==
  /\ From("contract", IF Contract(text) THEN "judge prompt" ELSE "banner")
  /\ UNCHANGED <<text, answer, out, exit>>

\* The judge's prompt; without a file for it the script ends.
JudgePrompt ==
  /\ stage = "judge prompt"
  /\ \/ Fail("unknown-failure")
     \/ stage' \in {"judge", "banner"} /\ UNCHANGED <<text, answer, out, exit>>

\* The judge, which may time out, fail or write nothing.
Judge ==
  /\ stage = "judge"
  /\ stage' \in {"reconcile", "banner"}
  /\ UNCHANGED <<text, answer, out, exit>>

\* Bug: a table that does not decide every finding is let pass.
Reconcile_Unmarked ==
  /\ stage = "reconcile"
  /\ \/ \E a \in Answers :
          /\ stage' = "check"
          /\ IF Valid(a, text.findings) /\ ~OrphanProse(text, a)
               THEN answer' = a /\ out' = [out EXCEPT !.by = "judge", !.lines = Reconciled(text, a)]
               ELSE UNCHANGED <<answer, out>>
     \/ stage' = "banner" /\ UNCHANGED <<answer, out>>
  /\ UNCHANGED <<text, exit>>

\* reconcile, with what the judge answered, and publish_reconciled.  The artifact
\* is replaced in one step; anything that goes wrong leaves it as it was.
Reconcile ==
  /\ stage = "reconcile"
  /\ \/ \E a \in Answers :
          /\ Valid(a, text.findings)
          /\ ~OrphanProse(text, a)
          /\ stage' = "check" /\ answer' = a
          /\ out' = [out EXCEPT !.by = "judge", !.lines = Reconciled(text, a)]
     \/ stage' = "banner" /\ UNCHANGED <<answer, out>>
  /\ UNCHANGED <<text, exit>>

\* The banner command; that it fails is not noticed.
Banner ==
  /\ From("banner", "check")
  /\ \/ out' = [out EXCEPT !.banner = "written"]
     \/ out' = [out EXCEPT !.banner = "failed"]
  /\ UNCHANGED <<text, answer, exit>>

\* run_claude_fallback: what Claude wrote is not looked into, but must not be
\* blank.
ClaudeContext ==
  /\ stage = "claude context"
  /\ \/ Fail("bad-review-target") \/ Fail("no-reviewer-available")
     \/ stage' = "claude" /\ UNCHANGED <<text, answer, out, exit>>

Claude ==
  /\ stage = "claude"
  /\ \/ Fail("claude-fallback-failed") \/ Fail("empty-output")
     \/ \E t \in Texts :
          /\ ~t.blank
          /\ text' = t /\ stage' = "check"
          /\ out' = [by |-> "claude", banner |-> "written", blank |-> FALSE, lines |-> Unjudged(t)]
          /\ UNCHANGED <<answer, exit>>

\* A file that is all white space is no review; a banner is not white space.
Check ==
  /\ stage = "check"
  /\ IF out.blank /\ out.banner # "written"
       THEN Fail("empty-output")
       ELSE stage' = "ended" /\ exit' = "path" /\ UNCHANGED <<text, answer, out>>

BridgeStep ==
  \/ Begin \/ CodexContext \/ GeneratorPrompt \/ Generate \/ Publish \/ CheckContract
  \/ JudgePrompt \/ Judge \/ Reconcile \/ Banner \/ ClaudeContext \/ Claude \/ Check

-----------------------------------------------------------------------------
(* Properties *)

BridgeTypeOK ==
  /\ stage \in {"idle", "begin", "codex context", "prompt", "generate", "publish", "contract",
                "judge prompt", "judge", "reconcile", "banner", "claude context", "claude",
                "check", "ended"}
  /\ text \in Text
  /\ answer \in Answer
  /\ out \in Artifact
  /\ exit \in Classes \cup {"none", "path"}

\* No finding disappears on the way from the generator to the artifact: each is
\* in it, or a complete and valid decision table dropped it, which a blocker
\* survives unless its category is never a blocker, and which a finding outside
\* the diff survives if generator and judge both say that it bears load.
NothingVanishes ==
  exit = "path" =>
    \A i \in DOMAIN text.findings :
      LET f == text.findings[i] IN
      \/ out.lines[i].id = f.id /\ out.lines[i].fate # "dropped"
      \/ LET d == DecisionOn(f, answer) IN
         /\ Valid(answer, text.findings) /\ d.call = "drop"
         /\ f.severity = "blocker" => d.reason = "auto-zero-category"
         /\ ~(d.reason = "out-of-diff-boundary" /\ f.flagged /\ d.causal = "true")

\* A dropped finding does not come back: an artifact from which something was
\* dropped has no heading that belongs to no finding left in it.
NoResurrection ==
  (\E i \in DOMAIN out.lines : out.lines[i].fate = "dropped") =>
    \A i \in DOMAIN out.lines :
      out.lines[i].headings <= IF out.lines[i].fate = "dropped" THEN 0 ELSE 1

\* Findings that no judge confirmed are not returned as if one had: the banner
\* is on them, or could not be written.
UnjudgedIsMarked ==
  exit = "path" /\ (\E i \in DOMAIN out.lines : out.lines[i].fate = "unjudged") =>
    out.banner # "none"
=============================================================================
