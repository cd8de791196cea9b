----------------------------- MODULE ShipProofs ------------------------------
(***************************************************************************)
(* Proofs about Ship and the bridge in it, for any texts, answers, files,  *)
(* histories and limits.                                                   *)
(***************************************************************************)
EXTENDS ReviewRefinement, SequenceTheorems, TLAPS

-----------------------------------------------------------------------------
(* The artifact *)

LEMMA LineTyped ==
  ASSUME NEW f \in Finding, NEW fate \in Fates
  PROVE  /\ LineOf(f, fate) \in Line
         /\ LineOf(f, fate).id = f.id /\ LineOf(f, fate).severity = f.severity
         /\ LineOf(f, fate).fate = fate
BY DEF Finding, Line, LineOf

\* The published text as the generator wrote it.
LEMMA UnjudgedTyped ==
  ASSUME NEW t \in Text
  PROVE  /\ Unjudged(t) \in Seq(Line)
         /\ DOMAIN Unjudged(t) = DOMAIN t.findings
         /\ \A i \in DOMAIN t.findings :
              /\ t.findings[i] \in Finding
              /\ Unjudged(t)[i] = LineOf(t.findings[i], "unjudged")
<1>1. t.findings \in Seq(Finding)
  BY DEF Text
<1>2. \A i \in DOMAIN t.findings : LineOf(t.findings[i], "unjudged") \in Line
  BY <1>1, LineTyped DEF Fates
<1> QED  BY <1>1, <1>2 DEF Unjudged

LEMMA FateTyped ==
  ASSUME NEW f, NEW d
  PROVE  Fate(f, d) \in Fates \ {"unjudged"}
BY DEF Fate, Fates

\* The text that the judge's decisions were worked into.
LEMMA ReconciledTyped ==
  ASSUME NEW t \in Text, NEW a
  PROVE  /\ Reconciled(t, a) \in Seq(Line)
         /\ DOMAIN Reconciled(t, a) = DOMAIN t.findings
         /\ \A i \in DOMAIN t.findings :
              /\ t.findings[i] \in Finding
              /\ Reconciled(t, a)[i] =
                   LineOf(t.findings[i], Fate(t.findings[i], DecisionOn(t.findings[i], a)))
<1>1. t.findings \in Seq(Finding)
  BY DEF Text
<1>2. \A i \in DOMAIN t.findings :
        LineOf(t.findings[i], Fate(t.findings[i], DecisionOn(t.findings[i], a))) \in Line
  BY <1>1, LineTyped, FateTyped
<1> QED  BY <1>1, <1>2 DEF Reconciled

\* In a valid table there is a well-formed decision on each finding.
LEMMA Decides ==
  ASSUME NEW t \in Text, NEW a, Valid(a, t.findings), NEW i \in DOMAIN t.findings
  PROVE  WellFormed(DecisionOn(t.findings[i], a))
<1>1. t.findings[i].id \in Ids(a)
  BY DEF Valid, Ids
<1>2. \E j \in DOMAIN a : a[j].id = t.findings[i].id
  BY <1>1 DEF Ids
<1>3. \A j \in DOMAIN a : WellFormed(a[j])
  BY DEF Valid
<1> QED  BY <1>2, <1>3 DEF DecisionOn

\* It is one of the table's, and on that finding.
LEMMA DecisionTyped ==
  ASSUME NEW a \in Answer, NEW F, Valid(a, F), NEW i \in DOMAIN F
  PROVE  /\ DecisionOn(F[i], a) \in {d \in Decision : WellFormed(d)}
         /\ DecisionOn(F[i], a).id = F[i].id
<1>1. F[i].id \in Ids(a)
  BY DEF Valid, Ids
<1>2. \E j \in DOMAIN a : a[j].id = F[i].id
  BY <1>1 DEF Ids
<1>3. \A j \in DOMAIN a : WellFormed(a[j]) /\ a[j] \in Decision
  BY DEF Valid, Answer
<1> QED  BY <1>2, <1>3 DEF DecisionOn

\* reconcile drops what _decision_removes says, and never a blocker but for its
\* category, nor what generator and judge both say bears load.
LEMMA DroppedMeans ==
  ASSUME NEW f \in Finding, NEW d, WellFormed(d), Fate(f, d) = "dropped"
  PROVE  /\ Removes(f, d) /\ d.call = "drop"
         /\ f.severity = "blocker" => d.reason = "auto-zero-category"
         /\ ~Escapes(f, d)
<1>1. d.call # "keep"
  BY DEF Fate
<1>2. d.call = "drop"
  BY <1>1 DEF WellFormed
<1>3. ~Escapes(f, d)
  BY <1>2 DEF Fate, Escapes
<1>4. f.severity = "blocker" => d.reason = "auto-zero-category"
  BY <1>1, <1>3 DEF Fate
<1> QED  BY <1>2, <1>3, <1>4 DEF Removes

-----------------------------------------------------------------------------
(* The bridge *)

LEMMA BridgeTyped ==
  ASSUME BridgeTypeOK, BridgeStep
  PROVE  BridgeTypeOK'
<1> USE DEF BridgeTypeOK, Fail, Classes
<1>1. CASE Begin
  BY <1>1 DEF Begin
<1>2. CASE CodexContext
  BY <1>2 DEF CodexContext
<1>3. CASE GeneratorPrompt
  BY <1>3 DEF GeneratorPrompt
<1>4. CASE Generate
  BY <1>4, BridgeAssumption DEF Generate
<1>5. CASE Publish
  <2>1. text.blank \in BOOLEAN
    BY DEF Text
  <2>2. Unjudged(text) \in Seq(Line)
    BY UnjudgedTyped
  <2>3. [by |-> "generator", banner |-> "none", blank |-> text.blank, lines |-> Unjudged(text)]
          \in Artifact
    BY <2>1, <2>2 DEF Artifact
  <2> QED  BY <1>5, <2>3 DEF Publish
<1>6. CASE CheckContract
  BY <1>6 DEF CheckContract, From
<1>7. CASE JudgePrompt
  BY <1>7 DEF JudgePrompt
<1>8. CASE Judge
  BY <1>8 DEF Judge
<1>9. CASE Reconcile
  <2>1. CASE UNCHANGED <<answer, out>>
    BY <1>9, <2>1 DEF Reconcile
  <2>2. CASE \E a \in Answers : stage' = "check" /\ answer' = a
               /\ out' = [out EXCEPT !.by = "judge", !.lines = Reconciled(text, a)]
    <3>1. \A a : Reconciled(text, a) \in Seq(Line)
      BY ReconciledTyped
    <3>2. \A s \in Seq(Line) : [out EXCEPT !.by = "judge", !.lines = s] \in Artifact
      BY DEF Artifact
    <3>3. out' \in Artifact /\ answer' \in Answer
      BY <2>2, <3>1, <3>2, BridgeAssumption
    <3> QED  BY <1>9, <2>2, <3>3 DEF Reconcile
  <2> QED  BY <1>9, <2>1, <2>2 DEF Reconcile
<1>10. CASE Banner
  BY <1>10 DEF Banner, From, Artifact
<1>11. CASE ClaudeContext
  BY <1>11 DEF ClaudeContext
<1>12. CASE Claude
  <2>1. CASE UNCHANGED <<text, answer, out>>
    BY <1>12, <2>1 DEF Claude
  <2>2. CASE \E t \in Texts :
               /\ text' = t /\ stage' = "check"
               /\ out' = [by |-> "claude", banner |-> "written", blank |-> FALSE,
                          lines |-> Unjudged(t)]
               /\ UNCHANGED <<answer, exit>>
    <3>1. PICK t \in Texts :
            /\ text' = t /\ stage' = "check"
            /\ out' = [by |-> "claude", banner |-> "written", blank |-> FALSE,
                       lines |-> Unjudged(t)]
            /\ UNCHANGED <<answer, exit>>
      BY <2>2
    <3>2. t \in Text /\ Unjudged(t) \in Seq(Line)
      BY UnjudgedTyped, BridgeAssumption
    <3>3. out' \in Artifact
      BY <3>1, <3>2 DEF Artifact
    <3> QED  BY <3>1, <3>2, <3>3
  <2> QED  BY <1>12, <2>1, <2>2 DEF Claude
<1>13. CASE Check
  BY <1>13 DEF Check
<1> QED  BY <1>1, <1>2, <1>3, <1>4, <1>5, <1>6, <1>7, <1>8, <1>9, <1>10, <1>11, <1>12, <1>13
         DEF BridgeStep

LEMMA EmptyTyped == Empty \in Artifact /\ NoText \in Text /\ NoTable \in Answer
BY DEF Empty, Artifact, NoText, Text, NoTable, Answer

\* The judge's decisions are a valid table, leave no orphan, and are worked in.
Decided ==
  /\ out.by = "judge"
  /\ Valid(answer, text.findings)
  /\ ~OrphanProse(text, answer)
  /\ out.lines = Reconciled(text, answer)

\* What the artifact holds at each stage: nothing, the generator's text, or
\* that text with a banner on it or with the judge's decisions.
Told ==
  /\ stage \in {"idle", "begin", "codex context", "prompt", "generate", "publish",
                "claude context", "claude"} => out = Empty
  /\ stage \in {"contract", "judge prompt", "judge", "reconcile", "banner"} =>
       out.lines = Unjudged(text)
  /\ stage = "check" \/ exit = "path" =>
       (out.lines = Unjudged(text) /\ out.banner # "none") \/ Decided
  /\ out = Empty \/ out.lines = Unjudged(text) \/ Decided
  /\ exit = "path" => stage = "ended"

LEMMA ToldKept ==
  ASSUME BridgeTypeOK, Told, BridgeStep
  PROVE  Told'
<1> USE DEF Told, Fail
<1>1. CASE Begin
  BY <1>1 DEF Begin, Decided
<1>2. CASE CodexContext
  BY <1>2 DEF CodexContext, Decided
<1>3. CASE GeneratorPrompt
  BY <1>3 DEF GeneratorPrompt, Decided
<1>4. CASE Generate
  BY <1>4 DEF Generate, Decided
<1>5. CASE Publish
  <2>1. CASE UNCHANGED <<text, answer, out>> /\ stage' = "ended"
                /\ exit' = "baseline-publish-failed"
    BY <1>5, <2>1 DEF Publish, Decided
  <2>2. CASE /\ stage' = "contract"
             /\ out' = [by |-> "generator", banner |-> "none", blank |-> text.blank,
                        lines |-> Unjudged(text)]
             /\ UNCHANGED <<text, answer, exit>>
    <3>1. out'.lines = Unjudged(text')
      BY <2>2
    <3> QED  BY <1>5, <2>2, <3>1 DEF Publish
  <2> QED  BY <1>5, <2>1, <2>2 DEF Publish
<1>6. CASE CheckContract
  BY <1>6 DEF CheckContract, From, Decided
<1>7. CASE JudgePrompt
  BY <1>7 DEF JudgePrompt, Decided
<1>8. CASE Judge
  BY <1>8 DEF Judge, Decided
<1>9. CASE Reconcile
  <2>1. CASE UNCHANGED <<answer, out>> /\ stage' = "banner"
    BY <1>9, <2>1 DEF Reconcile, Decided
  <2>2. CASE \E a \in Answers :
               /\ Valid(a, text.findings) /\ ~OrphanProse(text, a)
               /\ stage' = "check" /\ answer' = a
               /\ out' = [out EXCEPT !.by = "judge", !.lines = Reconciled(text, a)]
    <3>1. out'.by = "judge" /\ out'.lines = Reconciled(text, answer')
      BY <2>2 DEF BridgeTypeOK, Artifact
    <3>2. Decided'
      BY <1>9, <2>2, <3>1 DEF Reconcile, Decided
    <3> QED  BY <1>9, <2>2, <3>2 DEF Reconcile
  <2> QED  BY <1>9, <2>1, <2>2 DEF Reconcile
<1>10. CASE Banner
  <2>1. out'.banner # "none" /\ out'.lines = out.lines
    BY <1>10 DEF Banner, BridgeTypeOK, Artifact
  <2> QED  BY <1>10, <2>1 DEF Banner, From
<1>11. CASE ClaudeContext
  BY <1>11 DEF ClaudeContext, Decided
<1>12. CASE Claude
  <2>1. CASE /\ UNCHANGED <<text, answer, out>> /\ stage' = "ended"
             /\ exit' \in {"claude-fallback-failed", "empty-output"}
    BY <1>12, <2>1 DEF Claude, Decided
  <2>2. CASE \E t \in Texts :
               /\ text' = t /\ stage' = "check"
               /\ out' = [by |-> "claude", banner |-> "written", blank |-> FALSE,
                          lines |-> Unjudged(t)]
               /\ UNCHANGED <<answer, exit>>
    <3>1. PICK t \in Texts :
            /\ text' = t
            /\ out' = [by |-> "claude", banner |-> "written", blank |-> FALSE,
                       lines |-> Unjudged(t)]
      BY <2>2
    <3>2. out'.lines = Unjudged(text') /\ out'.banner # "none"
      BY <3>1
    <3>3. stage' = "check" /\ exit' = exit /\ stage = "claude"
      BY <1>12, <2>2 DEF Claude
    <3> QED  BY <3>2, <3>3
  <2> QED  BY <1>12, <2>1, <2>2 DEF Claude
<1>13. CASE Check
  BY <1>13 DEF Check, Decided
<1> QED  BY <1>1, <1>2, <1>3, <1>4, <1>5, <1>6, <1>7, <1>8, <1>9, <1>10, <1>11, <1>12, <1>13
         DEF BridgeStep

-----------------------------------------------------------------------------
(* What is true of a told artifact *)

\* No finding disappears, for any texts and answers.
LEMMA ToldVanishes ==
  ASSUME BridgeTypeOK, Told
  PROVE  NothingVanishes
<1> SUFFICES ASSUME exit = "path", NEW i \in DOMAIN text.findings
             PROVE  LET f == text.findings[i] IN
                    \/ out.lines[i].id = f.id /\ out.lines[i].fate # "dropped"
                    \/ LET d == DecisionOn(f, answer) IN
                       /\ Valid(answer, text.findings) /\ d.call = "drop"
                       /\ f.severity = "blocker" => d.reason = "auto-zero-category"
                       /\ ~(d.reason = "out-of-diff-boundary" /\ f.flagged /\ d.causal = "true")
  BY DEF NothingVanishes
<1> DEFINE f == text.findings[i]
           d == DecisionOn(f, answer)
<1>0. text \in Text
  BY DEF BridgeTypeOK
<1>1. CASE out.lines = Unjudged(text)
  <2>1. f \in Finding /\ out.lines[i] = LineOf(f, "unjudged")
    BY <1>0, <1>1, UnjudgedTyped
  <2>2. out.lines[i].id = f.id /\ out.lines[i].fate = "unjudged"
    BY <2>1, LineTyped DEF Fates
  <2> QED  BY <2>2
<1>2. CASE Decided
  <2>1. f \in Finding /\ out.lines[i] = LineOf(f, Fate(f, d))
    BY <1>0, <1>2, ReconciledTyped DEF Decided
  <2>2. Fate(f, d) \in Fates
    BY FateTyped
  <2>3. out.lines[i].id = f.id /\ out.lines[i].fate = Fate(f, d)
    BY <2>1, <2>2, LineTyped
  <2>4. WellFormed(d) /\ Valid(answer, text.findings)
    BY <1>0, <1>2, Decides DEF Decided
  <2>5. CASE Fate(f, d) = "dropped"
    BY <2>1, <2>4, <2>5, DroppedMeans DEF Escapes
  <2> QED  BY <2>3, <2>5
<1> QED  BY <1>1, <1>2 DEF Told

\* Nothing that was dropped leaves a heading behind, for any texts and answers.
LEMMA ToldBuries ==
  ASSUME BridgeTypeOK, Told
  PROVE  NoResurrection
<1> SUFFICES ASSUME NEW j \in DOMAIN out.lines, out.lines[j].fate = "dropped",
                    NEW i \in DOMAIN out.lines
             PROVE  out.lines[i].headings <= IF out.lines[i].fate = "dropped" THEN 0 ELSE 1
  BY DEF NoResurrection
<1> DEFINE F == text.findings
           d(k) == DecisionOn(F[k], answer)
<1>0. text \in Text
  BY DEF BridgeTypeOK
<1>1. out # Empty
  BY DEF Empty
<1>2. out.lines # Unjudged(text)
  BY <1>0, UnjudgedTyped, LineTyped DEF Fates
<1>3. Decided
  BY <1>1, <1>2 DEF Told
<1>4. \A k \in DOMAIN F : F[k] \in Finding /\ out.lines[k] = LineOf(F[k], Fate(F[k], d(k)))
  BY <1>0, <1>3, ReconciledTyped DEF Decided
<1>5. i \in DOMAIN F /\ j \in DOMAIN F
  BY <1>0, <1>3, ReconciledTyped DEF Decided
<1>6. Fate(F[j], d(j)) = "dropped"
  BY <1>4, <1>5, LineTyped, FateTyped
<1>7. WellFormed(d(j))
  BY <1>0, <1>3, <1>5, Decides DEF Decided
<1>8. Removes(F[j], d(j))
  BY <1>4, <1>5, <1>6, <1>7, DroppedMeans
<1>9. (\A k \in DOMAIN F : ~(F[k].headings > 0)) \/ (\A k \in DOMAIN F : F[k].headings = 1)
  BY <1>3, <1>5, <1>8 DEF Decided, OrphanProse
<1>10. F[i].headings \in 0..2
  BY <1>4, <1>5 DEF Finding
<1>11. F[i].headings \in {0, 1}
  BY <1>5, <1>9, <1>10
<1>12. out.lines[i].headings = IF out.lines[i].fate = "dropped" /\ F[i].headings = 1
                                 THEN 0 ELSE F[i].headings
  <2>1. \A f, fate : LineOf(f, fate).headings = IF fate = "dropped" /\ f.headings = 1
                                                   THEN 0 ELSE f.headings
    BY DEF LineOf
  <2>2. F[i] \in Finding /\ out.lines[i] = LineOf(F[i], Fate(F[i], d(i)))
    BY <1>4, <1>5
  <2>3. out.lines[i].fate = Fate(F[i], d(i))
    BY <2>2, LineTyped, FateTyped
  <2> HIDE DEF F, d
  <2> QED  BY <2>1, <2>2, <2>3
<1> QED  BY <1>11, <1>12

\* What no judge decided on has the banner, for any texts and answers.
LEMMA ToldMarks ==
  ASSUME BridgeTypeOK, Told
  PROVE  UnjudgedIsMarked
<1> SUFFICES ASSUME exit = "path", NEW i \in DOMAIN out.lines, out.lines[i].fate = "unjudged"
             PROVE  out.banner # "none"
  BY DEF UnjudgedIsMarked
<1>1. ~Decided
  <2> SUFFICES ASSUME Decided PROVE FALSE
    OBVIOUS
  <2> DEFINE f == text.findings[i]
  <2>1. text \in Text /\ i \in DOMAIN text.findings
    BY ReconciledTyped DEF BridgeTypeOK, Decided
  <2>2. f \in Finding /\ out.lines[i] = LineOf(f, Fate(f, DecisionOn(f, answer)))
    BY <2>1, ReconciledTyped DEF Decided
  <2> QED  BY <2>2, LineTyped, FateTyped
<1> QED  BY <1>1 DEF Told

\* Dropped findings apart, the reader finds every blocker that is not settled.
LEMMA ToldBlocks ==
  ASSUME BridgeTypeOK, Told, exit = "path", Unsettled # {}
  PROVE  \E f \in Found : f.severity = "blocker"
<1>1. PICK i \in DOMAIN text.findings :
        LET f == text.findings[i] IN
        /\ f.severity = "blocker"
        /\ ~(out.by = "judge" /\ DecisionOn(f, answer).reason = "auto-zero-category")
  BY DEF Unsettled, Range
<1> DEFINE f == text.findings[i]
           d == DecisionOn(f, answer)
<1>0. text \in Text
  BY DEF BridgeTypeOK
<1>2. /\ i \in DOMAIN out.lines
      /\ out.lines[i].severity = "blocker" /\ out.lines[i].fate # "dropped"
  <2>1. CASE out.lines = Unjudged(text)
    <3>1. f \in Finding /\ out.lines[i] = LineOf(f, "unjudged") /\ i \in DOMAIN out.lines
      BY <1>0, <2>1, UnjudgedTyped
    <3> QED  BY <1>1, <3>1, LineTyped DEF Fates
  <2>2. CASE Decided
    <3>1. f \in Finding /\ out.lines[i] = LineOf(f, Fate(f, d)) /\ i \in DOMAIN out.lines
      BY <1>0, <2>2, ReconciledTyped DEF Decided
    <3>2. out.lines[i].severity = f.severity /\ out.lines[i].fate = Fate(f, d)
      BY <3>1, LineTyped, FateTyped
    <3>3. WellFormed(d)
      BY <1>0, <2>2, Decides DEF Decided
    <3>4. Fate(f, d) # "dropped"
      BY <1>1, <2>2, <3>1, <3>3, DroppedMeans DEF Decided
    <3> QED  BY <1>1, <3>1, <3>2, <3>4
  <2> QED  BY <2>1, <2>2 DEF Told
<1>3. out.lines[i] \in {m \in Range(out.lines) : m.fate # "dropped"}
  BY <1>2 DEF Range
<1>4. [severity |-> out.lines[i].severity, class |-> ClassOf[out.lines[i].id]] \in Found
  BY <1>3 DEF Found
<1> QED  BY <1>2, <1>4

-----------------------------------------------------------------------------
(* Branches *)

LEMMA BranchTyped ==
  ASSUME NEW b \in Branch
  PROVE  /\ TreeOf(b) \in Tree /\ MergeBase(b) \in Version
         /\ BaseTree[MergeBase(b)] \in Tree
         /\ Len(b.commits) \in Nat /\ DOMAIN b.commits = 1..Len(b.commits)
<1>1. b.commits \in Seq(Commit) /\ b.fork \in Version
  BY DEF Branch
<1>2. Len(b.commits) \in Nat /\ DOMAIN b.commits = 1..Len(b.commits)
  BY <1>1
<1>3. CASE b.commits = <<>>
  BY <1>1, <1>2, <1>3, DeltaAssumption DEF TreeOf, MergeBase
<1>4. CASE b.commits # <<>>
  <2>1. Len(b.commits) \in 1..Len(b.commits)
    BY <1>1, <1>4
  <2>2. Last(b.commits) \in Commit
    BY <1>1, <2>1 DEF Last
  <2> QED  BY <1>2, <1>4, <2>2, DeltaAssumption DEF TreeOf, MergeBase, Commit
<1> QED  BY <1>3, <1>4

\* One more commit on a branch.
LEMMA Committed ==
  ASSUME NEW b \in Branch, NEW c \in Commit, NEW d, d = [b EXCEPT !.commits = Append(@, c)]
  PROVE  /\ d \in Branch
         /\ Len(d.commits) = Len(b.commits) + 1
         /\ d.fork = b.fork
         /\ \A i \in DOMAIN d.commits :
              \/ d.commits[i] = c
              \/ i \in DOMAIN b.commits /\ d.commits[i] = b.commits[i]
<1>1. b.commits \in Seq(Commit) /\ b.fork \in Version
  BY DEF Branch
<1>2. d = [fork |-> b.fork, commits |-> Append(b.commits, c)]
  BY DEF Branch
<1>3. Append(b.commits, c) \in Seq(Commit) /\ Len(Append(b.commits, c)) = Len(b.commits) + 1
  BY <1>1, AppendProperties
<1>4. \A i \in DOMAIN Append(b.commits, c) :
         \/ Append(b.commits, c)[i] = c
         \/ i \in DOMAIN b.commits /\ Append(b.commits, c)[i] = b.commits[i]
  BY <1>1, <1>3, AppendProperties, LenProperties
<1> QED  BY <1>1, <1>2, <1>3, <1>4 DEF Branch

LEMMA FirstTyped ==
  ASSUME NEW b \in Branch, NEW n \in 0..Len(b.commits)
  PROVE  /\ FirstOf(b, n) \in Branch
         /\ n = Len(b.commits) => FirstOf(b, n) = b
<1>1. b.commits \in Seq(Commit) /\ b.fork \in Version
  BY DEF Branch
<1>2. FirstOf(b, n) = [fork |-> b.fork, commits |-> SubSeq(b.commits, 1, n)]
  <2>1. FirstOf(b, n) = [b EXCEPT !.commits = SubSeq(b.commits, 1, n)]
    BY DEF FirstOf
  <2>2. \A s : [b EXCEPT !.commits = s] = [fork |-> b.fork, commits |-> s]
    BY DEF Branch
  <2> QED  BY <2>1, <2>2
<1>3. \A i \in 1..n : b.commits[i] \in Commit
  BY <1>1
<1>4. SubSeq(b.commits, 1, n) \in Seq(Commit)
  BY <1>3, SubSeqProperties
<1>5. n = Len(b.commits) => SubSeq(b.commits, 1, n) = b.commits
  BY <1>1, SubSeqFull
<1>6. b = [fork |-> b.fork, commits |-> b.commits]
  BY DEF Branch
<1> QED  BY <1>1, <1>2, <1>4, <1>5, <1>6 DEF Branch

\* There is a patch for each commit.
LEMMA PatchPerCommit ==
  ASSUME NEW b \in Branch
  PROVE  Len(PatchIds(b)) = Len(b.commits)
<1>1. Len(b.commits) \in Nat /\ DOMAIN b.commits = 1..Len(b.commits)
  BY BranchTyped
<1> DEFINE P == PatchIds(b)
           S == {P[i] : i \in 1..Len(b.commits)}
<1>2. DOMAIN P = 1..Len(b.commits) /\ P = [i \in 1..Len(b.commits) |-> P[i]]
  BY <1>1 DEF PatchIds
<1>3. P \in [1..Len(b.commits) -> S]
  BY <1>2
<1>4. P \in Seq(S)
  BY <1>1, <1>3, SeqDef
<1>5. DOMAIN P = 1..Len(P) /\ Len(P) \in Nat
  BY <1>4, LenProperties
<1> HIDE DEF P
<1>6. Len(P) = Len(b.commits)
  BY <1>1, <1>2, <1>5
<1> QED  BY <1>6 DEF P

\* Whatever review_delta.py answers, the tree to review against is typed, and
\* holds only contents that are good when those last reviewed and the base's are;
\* without a review, that tree is the branch's.
LEMMA DeltaSound ==
  ASSUME NEW l \in Branch, NEW h \in Branch, NEW found \in BOOLEAN
  PROVE  LET d == DeltaBase(l, h, found) IN
         /\ d.tree \in Tree
         /\ \A f \in File : \/ d.tree[f] = BaseTree[MergeBase(h)][f]
                          \/ d.tree[f] = TreeOf(l)[f]
         /\ d.mode = "reviewed" => d.tree = TreeOf(h) /\ Len(h.commits) <= Len(l.commits)
<1> DEFINE d == DeltaBase(l, h, found)
           n == Len(l.commits)
           mapped == FirstOf(h, n)
<1> SUFFICES /\ d.tree \in Tree
             /\ \A f \in File : \/ d.tree[f] = BaseTree[MergeBase(h)][f]
                              \/ d.tree[f] = TreeOf(l)[f]
             /\ d.mode = "reviewed" => d.tree = TreeOf(h) /\ Len(h.commits) <= Len(l.commits)
  OBVIOUS
<1>0. /\ TreeOf(l) \in Tree /\ TreeOf(h) \in Tree /\ BaseTree[MergeBase(h)] \in Tree
      /\ n \in Nat /\ Len(h.commits) \in Nat
  BY BranchTyped
<1>9. \A k \in Nat : k <= k
  OBVIOUS
<1>1. CASE d = Full(h)
  BY <1>0, <1>1 DEF Full
<1>2. CASE found /\ l = h /\ d = [mode |-> "reviewed", tree |-> TreeOf(h)]
  <2>1. l = h
    BY <1>2
  <2>2. TreeOf(l) = TreeOf(h)
    BY <2>1, Zenon
  <2>3. Len(h.commits) = n
    BY <2>1, Zenon
  <2>4. d = [mode |-> "reviewed", tree |-> TreeOf(h)]
    BY <1>2, Zenon
  <2> HIDE DEF d, n
  <2>5. d.tree = TreeOf(l)
    BY <2>2, <2>4
  <2> QED  BY <1>0, <1>9, <2>2, <2>3, <2>5 DEF n
<1>3. CASE d = [mode |-> "ancestor", tree |-> TreeOf(l)]
  BY <1>0, <1>3
<1>4. CASE /\ Mapped(l, h)
           /\ d = [mode |-> IF Len(h.commits) = n THEN "reviewed" ELSE "rebase",
                    tree |-> TreeOf(mapped)]
  <2>1. n <= Len(h.commits)
    BY <1>4, PatchPerCommit DEF Mapped, IsPrefix
  <2>2. n \in 0..Len(h.commits)
    BY <1>0, <2>1
  <2>3. mapped \in Branch /\ (n = Len(h.commits) => mapped = h)
    BY <2>2, FirstTyped
  <2>4. TreeOf(mapped) \in Tree
    BY <2>3, BranchTyped
  <2>5. \A f \in File : \/ TreeOf(mapped)[f] = BaseTree[MergeBase(h)][f]
                      \/ TreeOf(mapped)[f] = TreeOf(l)[f]
    BY <1>4 DEF Mapped, Changed
  <2>6. d.tree = TreeOf(mapped) /\ (d.mode = "reviewed" => Len(h.commits) = n)
    BY <1>4
  <2> HIDE DEF d, mapped, n
  <2> QED  BY <1>0, <2>3, <2>4, <2>5, <2>6 DEF n
<1>5. CASE found /\ l # h /\ IsAncestor(l, h)
  BY <1>3, <1>5 DEF DeltaBase
<1>6. CASE found /\ ~IsAncestor(l, h) /\ l # h
  BY <1>1, <1>4, <1>6 DEF DeltaBase
<1>7. CASE found /\ l = h
  <2>1. IsPrefix(h.commits, h.commits)
    BY <1>0 DEF IsPrefix
  <2> QED  BY <1>2, <1>7, <2>1 DEF DeltaBase, IsAncestor
<1>8. CASE ~found
  BY <1>1, <1>8 DEF DeltaBase
<1> QED  BY <1>5, <1>6, <1>7, <1>8

-----------------------------------------------------------------------------
(* Types, and what the artifact of a review holds *)

\* Nothing has been reviewed before the tier is settled.
Started == phase = "classify" => round = 1

LEMMA FoundTyped ==
  ASSUME BridgeTypeOK
  PROVE  /\ Found \subseteq [severity : Severities, class : DefectClass]
         /\ Unsettled \subseteq Finding
<1>1. \A m \in Range(out.lines) : m \in Line
  <2>1. out.lines \in Seq(Line)
    BY DEF BridgeTypeOK, Artifact
  <2>2. \A i \in DOMAIN out.lines : out.lines[i] \in Line
    BY <2>1
  <2> QED  BY <2>2 DEF Range
<1>2. \A m \in Line : m.severity \in Severities /\ ClassOf[m.id] \in DefectClass
  BY ShipAssumption DEF Line
<1>3. \A f \in Range(text.findings) : f \in Finding
  <2>1. text.findings \in Seq(Finding)
    BY DEF BridgeTypeOK, Text
  <2>2. \A i \in DOMAIN text.findings : text.findings[i] \in Finding
    BY <2>1
  <2> QED  BY <2>2 DEF Range
<1> QED  BY <1>1, <1>2, <1>3 DEF Found, Unsettled

LEMMA ResolveTyped ==
  ASSUME NEW w \in Wishes, NEW live \in BOOLEAN, NEW stakes \in BOOLEAN
  PROVE  LET r == Resolve(Floor(live, stakes), w.proposed, w.override, w.previous) IN
         /\ r.tier \in Tiers \cup {None}
         /\ live => r.tier \in {3, None}
<1>1. {w.proposed, w.override, w.previous} \subseteq Tiers \cup {None}
  BY ShipAssumption
<1>2. Floor(live, stakes) \in {0, 1, 3} /\ (live => Floor(live, stakes) = 3)
  BY DEF Floor
<1>3. \A floor \in {0, 1, 3}, p, o, q \in Tiers \cup {None} :
        /\ Resolve(floor, p, o, q).tier \in Tiers \cup {None}
        /\ floor = 3 => Resolve(floor, p, o, q).tier \in {3, None}
  BY DEF Resolve, Tiers, None
<1> QED  BY <1>1, <1>2, <1>3

LEMMA TypeKept ==
  ASSUME TypeOK, Started, [Next]_vars
  PROVE  TypeOK' /\ Started'
<1> USE DEF TypeOK, Started
<1>0. UNCHANGED bridge => BridgeTypeOK'
  BY DEF bridge, BridgeTypeOK
<1>01. Clear => BridgeTypeOK'
  BY EmptyTyped DEF Clear, BridgeTypeOK
<1>02. Start => BridgeTypeOK'
  BY DEF Start, BridgeTypeOK
<1> DEFINE Rest == /\ phase \in {"classify", "round", "gate", "repair", "open", "halt"}
                   /\ tier \in Tiers \cup {None}
                   /\ {rehearsed, risky} \subseteq BOOLEAN
                   /\ tip \in Version
                   /\ {head, last} \subseteq Branch
                   /\ against \in Tree
                   /\ shown \subseteq File \X Content
                   /\ blockers \subseteq Finding
                   /\ round \in 0..Cap
                   /\ gates \in 0..MaxGates
                   /\ prev \subseteq [severity : Severities, class : DefectClass]
<1>03. TypeOK' <=> BridgeTypeOK' /\ Rest'
  OBVIOUS
<1>1. CASE Classify
  <2>1. PICK w \in Wishes :
          /\ tier' = Resolve(Floor(w.live \/ Touches(Live), Touches(Stakes)),
                             w.proposed, w.override, w.previous).tier
          /\ rehearsed' \in BOOLEAN
    BY <1>1, ShipAssumption DEF Classify
  <2>2. Touches(Live) \in BOOLEAN /\ Touches(Stakes) \in BOOLEAN
    BY DEF Touches
  <2>3. (w.live \/ Touches(Live)) \in BOOLEAN
    OBVIOUS
  <2>4. tier' \in Tiers \cup {None}
    BY <2>1, <2>2, <2>3, ResolveTyped
  <2>5. /\ phase = "classify" /\ phase' \in {"halt", "round"} /\ risky' = Touches(Live)
        /\ UNCHANGED <<bridge, work, record, loop>>
    BY <1>1 DEF Classify
  <2>6. round' \in 0..Cap'
    BY <2>4, <2>5 DEF Cap, loop, Tiers, None
  <2>7. BridgeTypeOK'
    BY <1>0, <2>5
  <2> QED  BY <2>1, <2>2, <2>4, <2>5, <2>6, <2>7 DEF work, record, loop
<1>2. CASE CommitFix
  <2>1. PICK t \in Tree0 : head' = [head EXCEPT !.commits =
            Append(@, [tree |-> t, base |-> MergeBase(head), merge |-> FALSE])]
    BY <1>2 DEF CommitFix
  <2>2. [tree |-> t, base |-> MergeBase(head), merge |-> FALSE] \in Commit
    BY BranchTyped, ShipAssumption DEF Commit
  <2>3. head' \in Branch
    BY <2>1, <2>2, Committed
  <2> QED  BY <1>0, <1>2, <2>3 DEF CommitFix, choice, record, loop, Cap
<1>3. CASE Rewrite
  <2>0. PICK n \in 1..MaxCommits : \E trees \in [1..n -> Tree0] :
          head' = [fork |-> tip,
                   commits |-> [i \in 1..n |-> [tree |-> trees[i], base |-> tip, merge |-> FALSE]]]
    BY <1>3 DEF Rewrite
  <2>1. PICK trees \in [1..n -> Tree0] :
          head' = [fork |-> tip,
                   commits |-> [i \in 1..n |-> [tree |-> trees[i], base |-> tip, merge |-> FALSE]]]
    BY <2>0
  <2>2. \A i \in 1..n : [tree |-> trees[i], base |-> tip, merge |-> FALSE] \in Commit
    BY <2>1, ShipAssumption DEF Commit
  <2>3. [i \in 1..n |-> [tree |-> trees[i], base |-> tip, merge |-> FALSE]] \in [1..n -> Commit]
    BY <2>2
  <2>4. n \in Nat
    BY ShipAssumption
  <2>5. [i \in 1..n |-> [tree |-> trees[i], base |-> tip, merge |-> FALSE]] \in Seq(Commit)
    BY <2>3, <2>4, SeqDef
  <2>6. head' \in Branch
    BY <2>1, <2>5 DEF Branch
  <2> QED  BY <1>0, <1>3, <2>6 DEF Rewrite, choice, record, loop, Cap
<1>4. CASE Merge
  <2>1. PICK t \in Tree0 :
          head' = [head EXCEPT !.commits = Append(@, [tree |-> t, base |-> tip, merge |-> TRUE])]
    BY <1>4 DEF Merge
  <2>2. [tree |-> t, base |-> tip, merge |-> TRUE] \in Commit
    BY ShipAssumption DEF Commit
  <2>3. head' \in Branch
    BY <2>1, <2>2, Committed
  <2> QED  BY <1>0, <1>4, <2>3 DEF Merge, choice, record, loop, Cap
<1>5. CASE BaseAdvances
  BY <1>0, <1>5 DEF BaseAdvances, choice, record, loop, Cap
<1>6. CASE StartRound
  <2>1. BaseTree[MergeBase(head)] \in Tree
    BY BranchTyped
  <2>2. BridgeTypeOK' /\ against' \in Tree
    BY <1>0, <1>02, <1>6, <2>1 DEF StartRound
  <2>3. /\ phase' \in {phase, "halt"} /\ phase = "round"
        /\ UNCHANGED <<choice, work, last, shown, blockers, loop>>
    BY <1>6 DEF StartRound
  <2> QED  BY <2>2, <2>3 DEF choice, work, loop, Cap
<1>7. CASE InBridge
  <2>1. BridgeTypeOK'
    BY <1>7, BridgeTyped DEF InBridge
  <2> QED  BY <1>7, <2>1 DEF InBridge, choice, work, record, loop, Cap
<1>8. CASE FailedReview
  BY <1>01, <1>8 DEF FailedReview, choice, work, record, loop, Cap
<1>9. ASSUME TakeReview
      PROVE  /\ BridgeTypeOK' /\ blockers' \subseteq Finding /\ last' \in Branch
             /\ shown' \subseteq File \X Content /\ against' \in Tree
             /\ UNCHANGED <<choice, work>>
  <2>1. BridgeTypeOK' /\ blockers' \subseteq Finding /\ last' \in Branch
    BY <1>01, <1>9, FoundTyped DEF TakeReview
  <2>2. BaseTree[1] \in Tree
    BY DeltaAssumption
  <2>3. \A f \in File : TreeOf(head)[f] \in Content
    BY BranchTyped DEF Tree
  <2> QED  BY <1>9, <2>1, <2>2, <2>3 DEF TakeReview, Changed
<1>10. CASE EndRound
  <2>1. Cap \in {3, 6} /\ Cap' = Cap
    BY <1>9, <1>10 DEF EndRound, Cap, choice
  <2>2. \/ phase' \in {"halt", "gate"} /\ round' = 0 /\ prev' = {}
        \/ /\ phase' = "round" /\ round' = round + 1 /\ prev' = Found
           /\ ~CheckRound(Found, round, Cap).converged
    BY <1>10 DEF EndRound
  <2>3. CheckRound(Found, round, Cap).converged \/ ~(round >= Cap)
    BY DEF CheckRound
  <2>4. round' \in 0..Cap
    BY <2>1, <2>2, <2>3
  <2>5. prev' \subseteq [severity : Severities, class : DefectClass]
    BY <2>2, FoundTyped
  <2>6. phase' \in {"round", "halt", "gate"}
    BY <2>2
  <2> QED  BY <1>9, <1>10, <2>1, <2>4, <2>5, <2>6 DEF EndRound, choice, work
<1>11. CASE StartGate
  <2>1. PICK found \in BOOLEAN :
          LET d == DeltaBase(last, head, found) IN
          IF d.mode = "reviewed"
            THEN phase' = "open" /\ UNCHANGED <<bridge, against, gates>>
            ELSE IF gates = MaxGates
            THEN phase' = "halt" /\ UNCHANGED <<bridge, against, gates>>
            ELSE Start /\ against' = d.tree /\ gates' = gates + 1 /\ UNCHANGED phase
    BY <1>11 DEF StartGate
  <2>2. DeltaBase(last, head, found).tree \in Tree
    BY DeltaSound
  <2>3. BridgeTypeOK' /\ against' \in Tree /\ gates' \in 0..MaxGates
    BY <1>0, <1>02, <2>1, <2>2, ShipAssumption
  <2>4. phase' \in {"open", "halt", "gate"}
    BY <1>11, <2>1 DEF StartGate
  <2> QED  BY <1>11, <2>3, <2>4 DEF StartGate, choice, work, Cap
<1>12. CASE EndGate
  <2>1. phase' \in {"open", "halt", "repair"}
    BY <1>12 DEF EndGate
  <2> QED  BY <1>9, <1>12, <2>1 DEF EndGate, choice, work, loop, Cap
<1>13. CASE UNCHANGED vars
  BY <1>0, <1>13 DEF vars, choice, work, record, loop, Cap
<1> QED  BY <1>1, <1>2, <1>3, <1>4, <1>5, <1>6, <1>7, <1>8, <1>10, <1>11, <1>12, <1>13 DEF Next

\* The steps of Ship around the bridge start it where nothing is told, forget
\* what was told, or leave it.
LEMMA ToldStep ==
  ASSUME TypeOK, Told, [Next]_vars
  PROVE  Told'
<1>1. CASE UNCHANGED bridge
  BY <1>1 DEF bridge, Told, Decided
<1>2. CASE Clear
  BY <1>2 DEF Clear, Told, Decided
<1>3. CASE Start /\ ~Reviewing
  <2>1. stage = "idle" /\ stage' = "begin" /\ UNCHANGED <<text, answer, out, exit>>
    BY <1>3 DEF Start, Reviewing
  <2> QED  BY <2>1 DEF Told, Decided
<1>4. CASE BridgeStep
  BY <1>4, ToldKept DEF TypeOK
<1>5. UNCHANGED bridge \/ Clear \/ (Start /\ ~Reviewing) \/ BridgeStep
  BY DEF Next, Classify, CommitFix, Rewrite, Merge, BaseAdvances, StartRound, InBridge,
         FailedReview, EndRound, EndGate, TakeReview, StartGate, vars
<1> QED  BY <1>1, <1>2, <1>3, <1>4, <1>5

LEMMA InitTyped ==
  ASSUME Init
  PROVE  TypeOK /\ Started /\ Told
<1>1. PICK t \in Tree0 : head = [fork |-> 1, commits |-> <<[tree |-> t, base |-> 1, merge |-> FALSE]>>]
  BY DEF Init
<1>2. [tree |-> t, base |-> 1, merge |-> FALSE] \in Commit
  BY ShipAssumption, DeltaAssumption DEF Commit
<1>3. head \in Branch
  BY <1>1, <1>2, DeltaAssumption DEF Branch
<1>4. BridgeTypeOK
  BY EmptyTyped DEF Init, Idle, BridgeTypeOK
<1>5. BaseTree[1] \in Tree /\ 1 \in Version
  BY DeltaAssumption
<1>6. Told
  BY DEF Told, Init, Idle
<1>7. last \in Branch /\ against \in Tree /\ tip \in Version /\ phase = "classify"
  BY <1>3, <1>5 DEF Init
<1>8. round \in 0..Cap /\ gates \in 0..MaxGates /\ tier \in Tiers \cup {None} /\ round = 1
  BY ShipAssumption DEF Init, Cap, Tiers, None
<1>9. {rehearsed, risky} \subseteq BOOLEAN /\ shown = {} /\ blockers = {} /\ prev = {}
  BY DEF Init
<1> QED  BY <1>3, <1>4, <1>6, <1>7, <1>8, <1>9 DEF TypeOK, Started

\* The variables of Ship keep their types: the round never exceeds the cap.
THEOREM Typed == Spec => []TypeOK
<1>1. Init => TypeOK /\ Started
  BY InitTyped
<1>2. TypeOK /\ Started /\ [Next]_vars => TypeOK' /\ Started'
  BY TypeKept
<1> QED  BY <1>1, <1>2, PTL DEF Spec

\* At each stage the artifact holds what Told says.
THEOREM Telling == Spec => []Told
<1>1. Init => Told
  BY InitTyped
<1>2. TypeOK /\ Told /\ [Next]_vars => Told'
  BY ToldStep
<1> QED  BY <1>1, <1>2, Typed, PTL DEF Spec

\* No finding of the generator disappears on the way to the artifact, for any
\* texts and answers, but by a valid decision to drop it.
THEOREM NoneLost == Spec => []NothingVanishes
<1>1. TypeOK /\ Told => NothingVanishes
  BY ToldVanishes DEF TypeOK
<1> QED  BY <1>1, Typed, Telling, PTL

\* No heading of a dropped finding is left in the artifact, nor one that
\* belongs to none.
THEOREM Buried == Spec => []NoResurrection
<1>1. TypeOK /\ Told => NoResurrection
  BY ToldBuries DEF TypeOK
<1> QED  BY <1>1, Typed, Telling, PTL

\* What no judge decided on has the banner, or it could not be written.
THEOREM Marked == Spec => []UnjudgedIsMarked
<1>1. TypeOK /\ Told => UnjudgedIsMarked
  BY ToldMarks DEF TypeOK
<1> QED  BY <1>1, Typed, Telling, PTL

-----------------------------------------------------------------------------
(* The bridge implements Review *)

\* What a stage needs to know of the stages before it: whose text it is, whether
\* it can be judged, and that the artifact is blank if the text is.
Made ==
  /\ stage \in {"publish", "contract", "judge prompt", "judge", "reconcile", "banner", "check"} =>
       text \in Texts
  /\ stage \in {"contract", "judge prompt", "judge", "reconcile", "banner"} =>
       out.by = "generator" /\ out.banner = "none" /\ out.blank = text.blank
  /\ stage \in {"judge prompt", "judge", "reconcile"} => Contract(text)
  /\ stage = "check" =>
       /\ text.blank => out.blank
       /\ out.by = "judge" => out.banner = "none" /\ Contract(text)
       /\ out.by # "judge" => out.banner # "none"

LEMMA MadeKept ==
  ASSUME BridgeTypeOK, Made, BridgeStep
  PROVE  Made'
<1> USE DEF Made, Fail
<1>0. out \in Artifact
  BY DEF BridgeTypeOK
<1>1. CASE Begin \/ CodexContext \/ GeneratorPrompt \/ ClaudeContext
  BY <1>1 DEF Begin, CodexContext, GeneratorPrompt, ClaudeContext
<1>2. CASE Generate
  BY <1>2 DEF Generate
<1>3. CASE Publish
  <2>1. CASE stage' = "ended"
    BY <2>1
  <2>2. CASE /\ stage' = "contract"
             /\ out' = [by |-> "generator", banner |-> "none", blank |-> text.blank,
                        lines |-> Unjudged(text)]
             /\ UNCHANGED <<text, answer, exit>>
    <3>1. out'.by = "generator" /\ out'.banner = "none" /\ out'.blank = text.blank
      BY <2>2
    <3> QED  BY <1>3, <2>2, <3>1 DEF Publish
  <2> QED  BY <1>3, <2>1, <2>2 DEF Publish
<1>4. CASE CheckContract
  BY <1>4 DEF CheckContract, From
<1>5. CASE JudgePrompt \/ Judge
  BY <1>5 DEF JudgePrompt, Judge
<1>6. CASE Reconcile
  <2>1. CASE UNCHANGED <<answer, out>> /\ stage' = "banner"
    BY <1>6, <2>1 DEF Reconcile
  <2>2. CASE \E a \in Answers :
               /\ stage' = "check"
               /\ out' = [out EXCEPT !.by = "judge", !.lines = Reconciled(text, a)]
    <3>1. out'.by = "judge" /\ out'.banner = out.banner /\ out'.blank = out.blank
      BY <1>0, <2>2 DEF Artifact
    <3>2. stage = "reconcile" /\ text' = text /\ stage' = "check"
      BY <1>6, <2>2 DEF Reconcile
    <3> QED  BY <3>1, <3>2
  <2> QED  BY <1>6, <2>1, <2>2 DEF Reconcile
<1>7. CASE Banner
  <2>1. stage = "banner" /\ stage' = "check" /\ text' = text
    BY <1>7 DEF Banner, From
  <2>2. out'.banner # "none" /\ out'.by = out.by /\ out'.blank = out.blank
    BY <1>0, <1>7 DEF Banner, Artifact
  <2> QED  BY <2>1, <2>2
<1>8. CASE Claude
  <2>1. CASE stage' = "ended"
    BY <2>1
  <2>2. CASE \E t \in Texts :
               /\ ~t.blank
               /\ text' = t /\ stage' = "check"
               /\ out' = [by |-> "claude", banner |-> "written", blank |-> FALSE,
                          lines |-> Unjudged(t)]
    <3>1. PICK t \in Texts :
            /\ ~t.blank
            /\ text' = t /\ stage' = "check"
            /\ out' = [by |-> "claude", banner |-> "written", blank |-> FALSE,
                       lines |-> Unjudged(t)]
      BY <2>2
    <3>2. /\ text' \in Texts /\ ~text'.blank /\ stage' = "check"
          /\ out'.by = "claude" /\ out'.banner = "written"
      BY <3>1
    <3> QED  BY <3>2
  <2> QED  BY <1>8, <2>1, <2>2 DEF Claude
<1>9. CASE Check
  BY <1>9 DEF Check
<1> QED  BY <1>1, <1>2, <1>3, <1>4, <1>5, <1>6, <1>7, <1>8, <1>9 DEF BridgeStep

LEMMA MadeStep ==
  ASSUME TypeOK, Made, [Next]_vars
  PROVE  Made'
<1>1. CASE UNCHANGED bridge
  BY <1>1 DEF bridge, Made
<1>2. CASE Clear
  BY <1>2 DEF Clear, Made
<1>3. CASE Start
  BY <1>3 DEF Start, Made
<1>4. CASE BridgeStep
  BY <1>4, MadeKept DEF TypeOK
<1>5. UNCHANGED bridge \/ Clear \/ Start \/ BridgeStep
  BY DEF Next, Classify, CommitFix, Rewrite, Merge, BaseAdvances, StartRound, InBridge,
         FailedReview, EndRound, EndGate, TakeReview, StartGate, vars
<1> QED  BY <1>1, <1>2, <1>3, <1>4, <1>5

\* On a well-formed decision, reconcile does what Review says.
LEMMA FatesAgree ==
  ASSUME NEW f, NEW d, WellFormed(d)
  PROVE  Fate(f, d) = Promised!Fate(f, d)
BY DEF Fate, Promised!Fate, Promised!Stands, Escapes, WellFormed

\* A line shows what Review says, but for a dropped block with two headings.
LEMMA LineShows ==
  ASSUME NEW f, NEW fate, fate = "dropped" => f.headings \in {0, 1}
  PROVE  LineOf(f, fate) = Promised!Shown(f, fate)
BY DEF LineOf, Promised!Shown

\* The generator's text, published as it is.
LEMMA UnjudgedShows ==
  ASSUME NEW t \in Text
  PROVE  Unjudged(t) = [i \in DOMAIN t.findings |-> Promised!Shown(t.findings[i], "unjudged")]
<1>1. \A i \in DOMAIN t.findings :
        LineOf(t.findings[i], "unjudged") = Promised!Shown(t.findings[i], "unjudged")
  BY LineShows
<1> QED  BY <1>1 DEF Unjudged

\* What the judge's decisions were worked into: each finding has a decision of its
\* own, and where one is dropped no heading is left over.
LEMMA ReconciledShows ==
  ASSUME NEW t \in Text, NEW a, Valid(a, t.findings), ~OrphanProse(t, a)
  PROVE  LET F == t.findings
             d == [i \in DOMAIN F |-> DecisionOn(F[i], a)]
             lines == [i \in DOMAIN F |-> Promised!Shown(F[i], Promised!Fate(F[i], d[i]))] IN
         /\ Reconciled(t, a) = lines
         /\ (\E i \in DOMAIN F : lines[i].fate = "dropped") =>
              \A i \in DOMAIN F : lines[i].headings <= 1
<1> DEFINE F == t.findings
           d == [i \in DOMAIN F |-> DecisionOn(F[i], a)]
           fate(i) == Fate(F[i], d[i])
           lines == [i \in DOMAIN F |-> Promised!Shown(F[i], Promised!Fate(F[i], d[i]))]
<1>1. \A i \in DOMAIN F : F[i] \in Finding
  BY DEF Text
<1>2. \A i \in DOMAIN F : WellFormed(d[i])
  BY Decides
<1>3. \A i \in DOMAIN F : fate(i) = Promised!Fate(F[i], d[i])
  BY <1>2, FatesAgree
<1>4. ASSUME NEW k \in DOMAIN F, fate(k) = "dropped"
      PROVE  \A i \in DOMAIN F : F[i].headings \in {0, 1}
  <2>1. Removes(F[k], DecisionOn(F[k], a))
    <3>1. d[k] = DecisionOn(F[k], a)
      OBVIOUS
    <3> HIDE DEF d, F
    <3> QED  BY <1>1, <1>2, <1>4, <3>1, DroppedMeans
  <2>2. \/ \A i \in DOMAIN F : ~(F[i].headings > 0)
        \/ \A i \in DOMAIN F : F[i].headings = 1
    BY <2>1 DEF OrphanProse
  <2>3. \A i \in DOMAIN F : F[i].headings \in 0..2
    BY <1>1 DEF Finding
  <2> QED  BY <2>2, <2>3
<1>5. \A i \in DOMAIN F : LineOf(F[i], fate(i)) = Promised!Shown(F[i], Promised!Fate(F[i], d[i]))
  <2> SUFFICES ASSUME NEW i \in DOMAIN F
               PROVE  LineOf(F[i], fate(i)) = Promised!Shown(F[i], Promised!Fate(F[i], d[i]))
    OBVIOUS
  <2>1. fate(i) = "dropped" => F[i].headings \in {0, 1}
    BY <1>4
  <2>2. fate(i) = Promised!Fate(F[i], d[i])
    BY <1>3
  <2> HIDE DEF F, d, fate
  <2> QED  BY <2>1, <2>2, LineShows
<1>6. Reconciled(t, a) = lines
  <2>1. Reconciled(t, a) = [i \in DOMAIN F |-> LineOf(F[i], fate(i))]
    BY DEF Reconciled
  <2> HIDE DEF F, d, fate
  <2> QED  BY <1>5, <2>1
<1>7. ASSUME NEW k \in DOMAIN F, lines[k].fate = "dropped", NEW i \in DOMAIN F
      PROVE  lines[i].headings <= 1
  <2>1. fate(k) = "dropped"
    BY <1>3, <1>7 DEF Promised!Shown
  <2>2. F[i].headings \in {0, 1}
    BY <1>4, <2>1
  <2>3. lines[i].headings \in {0, F[i].headings}
    BY DEF Promised!Shown
  <2> QED  BY <2>2, <2>3
<1> QED  BY <1>6, <1>7

\* The bridge ends with a path: the review is given.
LEMMA CheckGives ==
  ASSUME BridgeTypeOK, Told, Made, Check, exit' = "path"
  PROVE  Promised!Give
<1>0. /\ stage = "check" /\ stage' = "ended" /\ exit' = "path"
      /\ ~(out.blank /\ out.banner # "written")
      /\ UNCHANGED <<text, answer, out>>
  BY DEF Check, Fail
<1>1. /\ text \in Text /\ text \in Texts
      /\ text.blank => out.blank
      /\ text.blank \in BOOLEAN /\ out.banner \in {"none", "written", "failed"}
  BY <1>0 DEF Made, BridgeTypeOK, Text, Artifact
<1>2. /\ Status = "asked" /\ Status' = "given" /\ GivenText' = text
      /\ GivenLines' = out.lines /\ GivenBanner' = out.banner
  BY <1>0 DEF Status, GivenText, GivenLines, GivenBanner
<1>3. CASE out.by # "judge"
  <2>1. out.banner # "none" /\ out.lines = Unjudged(text)
    BY <1>0, <1>3 DEF Made, Told, Decided
  <2>2. GivenDecisions' = <<>>
    BY <1>0, <1>3 DEF GivenDecisions
  <2>3. out.lines = [i \in DOMAIN text.findings |-> Promised!Shown(text.findings[i], "unjudged")]
    BY <1>1, <2>1, UnjudgedShows
  <2>4. Promised!AsWritten
    BY <1>0, <1>1, <1>2, <2>1, <2>2, <2>3 DEF Promised!AsWritten
  <2> QED  BY <1>1, <1>2, <2>4 DEF Promised!Give
<1>4. CASE out.by = "judge"
  <2> DEFINE F == text.findings
             d == [i \in DOMAIN F |-> DecisionOn(F[i], answer)]
  <2>1. out.banner = "none" /\ Contract(text) /\ ~text.blank
    BY <1>0, <1>1, <1>4 DEF Made
  <2>2. Valid(answer, F) /\ ~OrphanProse(text, answer) /\ out.lines = Reconciled(text, answer)
    BY <1>0, <2>1 DEF Told, Decided
  <2>3. GivenDecisions' = d
    BY <1>0, <1>4 DEF GivenDecisions
  <2>4. /\ \A i \in DOMAIN F : F[i].id # NoId
        /\ \A i, k \in DOMAIN F : F[i].id = F[k].id => i = k
    BY <2>1 DEF Contract
  <2>5. \A i \in DOMAIN F : d[i] \in {e \in Decision : WellFormed(e)} /\ d[i].id = F[i].id
    BY <2>2, DecisionTyped DEF BridgeTypeOK
  <2>6. /\ out.lines = [i \in DOMAIN F |-> Promised!Shown(F[i], Promised!Fate(F[i], d[i]))]
        /\ (\E i \in DOMAIN F : out.lines[i].fate = "dropped") =>
             \A i \in DOMAIN F : out.lines[i].headings <= 1
    <3> DEFINE lines == [i \in DOMAIN F |-> Promised!Shown(F[i], Promised!Fate(F[i], d[i]))]
    <3>1. /\ Reconciled(text, answer) = lines
          /\ (\E i \in DOMAIN F : lines[i].fate = "dropped") =>
               \A i \in DOMAIN F : lines[i].headings <= 1
      BY <1>1, <2>2, ReconciledShows, Zenon
    <3> HIDE DEF lines
    <3>2. out.lines = lines
      BY <2>2, <3>1
    <3> QED  BY <3>1, <3>2 DEF lines
  <2>7. DOMAIN d = DOMAIN F
    OBVIOUS
  <2>8. Promised!Decided
    <3> HIDE DEF d
    <3> QED  BY <1>2, <2>1, <2>3, <2>4, <2>5, <2>6, <2>7 DEF Promised!Decided
  <2> QED  BY <1>1, <1>2, <2>8 DEF Promised!Give
<1> QED  BY <1>3, <1>4

Busy == stage \notin {"idle", "ended"}

\* A stage that goes on gives nothing, and one that fails fails the review.
LEMMA Unseen ==
  ASSUME Told, Busy, stage' # "idle", exit' # "path", exit' = exit \/ stage' = "ended",
         stage' = "ended" => exit' \in Classes
  PROVE  Promised!Fail \/ UNCHANGED Promised!vars
<1>1. exit # "path"
  BY DEF Told, Busy
<1>2. UNCHANGED <<GivenText, GivenDecisions, GivenLines, GivenBanner>>
  BY <1>1 DEF GivenText, GivenDecisions, GivenLines, GivenBanner
<1>3. Status = "asked"
  BY DEF Status, Busy
<1>4. CASE stage' = "ended"
  BY <1>2, <1>3, <1>4 DEF Status, Promised!Fail
<1>5. CASE stage' # "ended"
  BY <1>2, <1>3, <1>5 DEF Status, Promised!vars
<1> QED  BY <1>4, <1>5

LEMMA BridgeStepMaps ==
  ASSUME BridgeTypeOK, Told, Made, BridgeStep
  PROVE  Promised!Fail \/ Promised!Give \/ UNCHANGED Promised!vars
<1>1. CASE Check /\ exit' = "path"
  BY <1>1, CheckGives
<1>2. CASE ~(Check /\ exit' = "path")
  <2>1. Busy /\ stage' # "idle" /\ (stage' # "ended" => exit' = exit)
        /\ (stage' = "ended" => exit' \in Classes)
    BY <1>2 DEF BridgeStep, Begin, CodexContext, GeneratorPrompt, Generate, Publish, CheckContract,
                JudgePrompt, Judge, Reconcile, Banner, ClaudeContext, Claude, Check, From, Fail,
                Classes, Busy
  <2>2. exit' # "path"
    BY <2>1 DEF Told, Busy, Classes
  <2> QED  BY <2>1, <2>2, Unseen
<1> QED  BY <1>1, <1>2

LEMMA ReviewStep ==
  ASSUME TypeOK, Told, Made, [Next]_vars
  PROVE  [Promised!Next]_(Promised!vars)
<1>1. CASE UNCHANGED bridge
  BY <1>1 DEF bridge, Status, GivenText, GivenDecisions, GivenLines, GivenBanner, Promised!vars
<1>2. CASE stage = "ended" /\ Clear
  <2>1. Status \in {"given", "failed"} /\ Status' = "none"
    BY <1>2 DEF Clear, Status
  <2>2. Promised!Nothing'
    BY <1>2 DEF Clear, Promised!Nothing, GivenText, GivenDecisions, GivenLines, GivenBanner
  <2> QED  BY <2>1, <2>2 DEF Promised!Take, Promised!Next
<1>3. CASE Start /\ ~Reviewing
  <2>1. stage = "idle" /\ stage' = "begin" /\ UNCHANGED <<text, answer, out, exit>>
    BY <1>3 DEF Start, Reviewing
  <2>2. Status = "none" /\ Status' = "asked"
    BY <2>1 DEF Status
  <2>3. UNCHANGED <<GivenText, GivenDecisions, GivenLines, GivenBanner>>
    BY <2>1 DEF GivenText, GivenDecisions, GivenLines, GivenBanner
  <2> QED  BY <2>2, <2>3 DEF Promised!Ask, Promised!Next
<1>4. CASE BridgeStep
  BY <1>4, BridgeStepMaps DEF TypeOK, Promised!Next
<1>5. UNCHANGED bridge \/ (stage = "ended" /\ Clear) \/ (Start /\ ~Reviewing) \/ BridgeStep
  BY DEF Next, Classify, CommitFix, Rewrite, Merge, BaseAdvances, StartRound, InBridge,
         FailedReview, EndRound, EndGate, TakeReview, StartGate, vars
<1> QED  BY <1>1, <1>2, <1>3, <1>4, <1>5

\* Whatever fails, times out or answers badly in the bridge, its caller sees a review
\* that failed and gave nothing, or one whole artifact: marked as not judged, or with a
\* decision on each finding that was worked in as Review says (codex-bridge.sh, reconcile).
THEOREM OneReview == Spec => ImplementsReview
<1>1. Init => Made /\ Promised!Init
  BY DEF Init, Idle, Made, Promised!Init, Promised!Nothing, Status, GivenText, GivenDecisions,
         GivenLines, GivenBanner
<1>2. TypeOK /\ Made /\ [Next]_vars => Made'
  BY MadeStep
<1>3. TypeOK /\ Told /\ Made /\ [Next]_vars => [Promised!Next]_(Promised!vars)
  BY ReviewStep
<1> QED  BY <1>1, <1>2, <1>3, Typed, Telling, PTL DEF Spec, ImplementsReview

-----------------------------------------------------------------------------
(* The tier *)

\* The tier's answer counts from the first round on.
Rehearsal == phase \in {"classify", "halt"} \/ (risky => rehearsed)

\* No pull request opens for a branch that touched live state without a
\* rehearsal, whatever was proposed, overridden or chosen before.
THEOREM Rehearsed == Spec => []LiveIsRehearsed
<1>1. Init => Rehearsal
  BY DEF Init, Rehearsal
<1>2. TypeOK /\ Rehearsal /\ [Next]_vars => Rehearsal'
  <2> SUFFICES ASSUME TypeOK, Rehearsal, [Next]_vars PROVE Rehearsal'
    OBVIOUS
  <2>1. CASE Classify
    <3>1. PICK w \in Wishes :
            LET floor == Floor(w.live \/ Touches(Live), Touches(Stakes))
                r == Resolve(floor, w.proposed, w.override, w.previous) IN
            /\ risky' = Touches(Live)
            /\ rehearsed' \in IF r.tier = 3 THEN BOOLEAN ELSE {FALSE}
            /\ phase' = IF r.tier = None \/ (r.tier = 3 /\ ~rehearsed') THEN "halt" ELSE "round"
      BY <2>1 DEF Classify
    <3> DEFINE r == Resolve(Floor(w.live \/ Touches(Live), Touches(Stakes)),
                            w.proposed, w.override, w.previous)
    <3>2. (w.live \/ Touches(Live)) \in BOOLEAN /\ Touches(Stakes) \in BOOLEAN
      BY DEF Touches
    <3>3. Touches(Live) => r.tier \in {3, None}
      BY <3>2, ResolveTyped
    <3> HIDE DEF r
    <3>4. /\ risky' = Touches(Live)
          /\ rehearsed' \in IF r.tier = 3 THEN BOOLEAN ELSE {FALSE}
          /\ phase' = IF r.tier = None \/ (r.tier = 3 /\ ~rehearsed') THEN "halt" ELSE "round"
      BY <3>1 DEF r
    <3> QED  BY <3>3, <3>4 DEF Rehearsal
  <2>2. CASE UNCHANGED choice /\ phase \notin {"classify", "halt"}
    BY <2>2 DEF Rehearsal, choice
  <2>3. CASE UNCHANGED choice /\ phase' \in {phase, "halt"}
    BY <2>3 DEF Rehearsal, choice
  <2> QED  BY <2>1, <2>2, <2>3
           DEF Next, CommitFix, Rewrite, Merge, BaseAdvances, StartRound, InBridge,
               FailedReview, EndRound, EndGate, TakeReview, StartGate, vars
<1>3. Rehearsal => LiveIsRehearsed
  BY DEF Rehearsal, LiveIsRehearsed
<1> QED  BY <1>1, <1>2, <1>3, Typed, PTL DEF Spec

-----------------------------------------------------------------------------
(* Blockers *)

\* A blocker found by the last review is behind the branch's head: a commit that
\* no review has seen is on top of it, so that the next check does not find the
\* branch reviewed.
Settled ==
  /\ phase = "open" => blockers = {}
  /\ phase = "gate" /\ blockers # {} => gates > 0 /\ Len(head.commits) > Len(last.commits)
  /\ phase = "gate" /\ Reviewing => gates > 0
  /\ phase = "repair" => gates > 0 /\ last = head

LEMMA SettledKept ==
  ASSUME TypeOK, Told, Settled, [Next]_vars
  PROVE  Settled'
<1>0. /\ gates \in Nat /\ head \in Branch /\ last \in Branch
      /\ Len(head.commits) \in Nat /\ Len(last.commits) \in Nat
  BY BranchTyped, ShipAssumption DEF TypeOK
<1>01. ASSUME TakeReview, phase' \in {"gate", "open"} => \A f \in Found : f.severity # "blocker",
              exit = "path"
       PROVE  phase' \in {"gate", "open"} => blockers' = {}
  BY <1>01, ToldBlocks DEF TypeOK, TakeReview
<1>1. CASE Classify
  BY <1>1 DEF Classify, Settled
<1>2. CASE CommitFix
  <2>1. PICK t \in Tree0 : head' = [head EXCEPT !.commits =
            Append(@, [tree |-> t, base |-> MergeBase(head), merge |-> FALSE])]
    BY <1>2 DEF CommitFix
  <2>2. [tree |-> t, base |-> MergeBase(head), merge |-> FALSE] \in Commit
    BY <1>0, BranchTyped, ShipAssumption DEF Commit
  <2>3. Len(head'.commits) = Len(head.commits) + 1
    BY <1>0, <2>1, <2>2, Committed
  <2>4. /\ phase \in {"round", "gate", "repair"} /\ ~Reviewing
        /\ phase' = IF phase = "repair" THEN "gate" ELSE phase
        /\ UNCHANGED <<stage, last, blockers, gates>>
    BY <1>2 DEF CommitFix, bridge, record, loop
  <2>5. CASE phase = "repair"
    <3>1. last = head /\ gates > 0
      BY <2>5 DEF Settled
    <3> QED  BY <1>0, <2>3, <2>4, <2>5, <3>1 DEF Settled
  <2>6. CASE phase = "gate"
    BY <1>0, <2>3, <2>4, <2>6 DEF Settled, Reviewing
  <2>7. CASE phase = "round"
    BY <2>4, <2>7 DEF Settled
  <2> QED  BY <2>4, <2>5, <2>6, <2>7
<1>3. CASE Rewrite
  <2>1. /\ phase = "gate" /\ phase' = phase /\ UNCHANGED <<stage, last, blockers, gates>>
        /\ gates > 0 => Len(head'.commits) > Len(last.commits)
    BY <1>3 DEF Rewrite, bridge, record, loop
  <2> QED  BY <2>1 DEF Settled, Reviewing
<1>4. CASE Merge
  <2>1. PICK t \in Tree0 :
          head' = [head EXCEPT !.commits = Append(@, [tree |-> t, base |-> tip, merge |-> TRUE])]
    BY <1>4 DEF Merge
  <2>2. [tree |-> t, base |-> tip, merge |-> TRUE] \in Commit
    BY ShipAssumption DEF Commit, TypeOK
  <2>3. Len(head'.commits) = Len(head.commits) + 1
    BY <1>0, <2>1, <2>2, Committed
  <2>4. phase = "gate" /\ phase' = phase /\ UNCHANGED <<stage, last, blockers, gates>>
    BY <1>4 DEF Merge, bridge, record, loop
  <2> QED  BY <1>0, <2>3, <2>4 DEF Settled, Reviewing
<1>5. CASE BaseAdvances
  BY <1>5 DEF BaseAdvances, Settled, Reviewing, bridge, record, loop
<1>6. CASE StartRound
  BY <1>6 DEF StartRound, Settled
<1>7. CASE InBridge
  <2>1. Reviewing
    BY <1>7 DEF InBridge, BridgeStep, Reviewing, From, Begin, CodexContext, GeneratorPrompt, Generate,
                Publish, CheckContract, JudgePrompt, Judge, Reconcile, Banner, ClaudeContext,
                Claude, Check
  <2>2. UNCHANGED <<phase, head, last, blockers, gates>>
    BY <1>7 DEF InBridge, work, record, loop
  <2> QED  BY <2>1, <2>2 DEF Settled
<1>8. CASE FailedReview
  BY <1>8 DEF FailedReview, Settled
<1>9. CASE EndRound
  <2>1. /\ TakeReview /\ exit = "path" /\ stage' = "idle"
        /\ phase' \in {"halt", "gate", "round"}
        /\ phase' = "gate" => ~CheckRound(Found, round, Cap).ship_blocking
    BY <1>9 DEF EndRound, TakeReview, Clear
  <2>2. phase' = "gate" => \A f \in Found : f.severity # "blocker"
    BY <2>1 DEF CheckRound, IsSafetyCritical
  <2>3. phase' = "gate" => blockers' = {}
    BY <1>01, <2>1, <2>2
  <2> QED  BY <2>1, <2>3 DEF Settled, Reviewing
<1>10. CASE StartGate
  <2>1. PICK found \in BOOLEAN :
          LET d == DeltaBase(last, head, found) IN
          IF d.mode = "reviewed"
            THEN phase' = "open" /\ UNCHANGED <<bridge, against, gates>>
            ELSE IF gates = MaxGates
            THEN phase' = "halt" /\ UNCHANGED <<bridge, against, gates>>
            ELSE Start /\ against' = d.tree /\ gates' = gates + 1 /\ UNCHANGED phase
    BY <1>10 DEF StartGate
  <2>2. /\ phase = "gate" /\ UNCHANGED <<head, last, blockers>>
    BY <1>10 DEF StartGate, work
  <2>3. DeltaBase(last, head, found).mode = "reviewed" => Len(head.commits) <= Len(last.commits)
    BY <1>0, DeltaSound
  <2>4. CASE DeltaBase(last, head, found).mode = "reviewed"
    <3>1. blockers = {}
      BY <1>0, <2>2, <2>3, <2>4 DEF Settled
    <3> QED  BY <2>1, <2>2, <2>4, <3>1 DEF Settled
  <2>5. CASE DeltaBase(last, head, found).mode # "reviewed"
    <3>1. phase' = "halt" \/ (phase' = "gate" /\ gates' = gates + 1)
      BY <2>1, <2>2, <2>5
    <3> QED  BY <1>0, <2>2, <3>1 DEF Settled
  <2> QED  BY <2>4, <2>5
<1>11. CASE EndGate
  <2>1. /\ TakeReview /\ exit = "path" /\ phase = "gate" /\ Reviewing /\ last' = head
        /\ UNCHANGED <<head, gates>>
        /\ phase' \in {"halt", "repair", "open"}
        /\ phase' = "open" => \A f \in Found : f.severity = "minor"
    BY <1>11 DEF EndGate, TakeReview, Reviewing, work, loop
  <2>2. phase' = "open" => blockers' = {}
    BY <1>01, <2>1
  <2> QED  BY <2>1, <2>2 DEF Settled
<1>12. CASE UNCHANGED vars
  BY <1>12 DEF vars, bridge, work, record, loop, Settled, Reviewing
<1> QED  BY <1>1, <1>2, <1>3, <1>4, <1>5, <1>6, <1>7, <1>8, <1>9, <1>10, <1>11, <1>12 DEF Next

\* When the pull request opens, no blocker that the last review's generator saw is
\* left, for any texts, answers, histories and limits.
THEOREM Unblocked == Spec => []NoKnownBlocker
<1>1. Init => Settled
  BY DEF Init, Settled
<1>2. TypeOK /\ Told /\ Settled /\ [Next]_vars => Settled'
  BY SettledKept
<1>3. Settled => NoKnownBlocker
  BY DEF Settled, NoKnownBlocker
<1> QED  BY <1>1, <1>2, <1>3, Typed, Telling, PTL DEF Spec

-----------------------------------------------------------------------------
(* Nothing unreviewed *)

\* The branch contains no version of the base branch that is yet to come.
Based == head.fork <= tip /\ \A i \in DOMAIN head.commits : head.commits[i].base <= tip

LEMMA BasedMeans ==
  ASSUME TypeOK, Based
  PROVE  MergeBase(head) <= tip
<1>1. head.commits \in Seq(Commit)
  BY DEF TypeOK, Branch
<1>2. head.commits # <<>> => Len(head.commits) \in DOMAIN head.commits
  BY <1>1
<1> QED  BY <1>2 DEF Based, MergeBase, Last

LEMMA BasedKept ==
  ASSUME TypeOK, Based, [Next]_vars
  PROVE  Based'
<1>0. tip \in Nat /\ head \in Branch
  BY DeltaAssumption DEF TypeOK
<1>1. CASE CommitFix
  <2>1. PICK t \in Tree0 : head' = [head EXCEPT !.commits =
            Append(@, [tree |-> t, base |-> MergeBase(head), merge |-> FALSE])]
    BY <1>1 DEF CommitFix
  <2> DEFINE c == [tree |-> t, base |-> MergeBase(head), merge |-> FALSE]
  <2>2. c \in Commit
    BY <1>0, BranchTyped, ShipAssumption DEF Commit
  <2>3. c.base <= tip
    BY BasedMeans
  <2>4. tip' = tip
    BY <1>1 DEF CommitFix
  <2> HIDE DEF c
  <2>5. /\ head'.fork = head.fork
        /\ \A i \in DOMAIN head'.commits :
             \/ head'.commits[i] = c
             \/ i \in DOMAIN head.commits /\ head'.commits[i] = head.commits[i]
    BY <1>0, <2>1, <2>2, Committed DEF c
  <2> QED  BY <2>3, <2>4, <2>5 DEF Based
<1>2. CASE Rewrite
  <2>0. PICK n \in 1..MaxCommits : \E trees \in [1..n -> Tree0] :
          head' = [fork |-> tip,
                   commits |-> [i \in 1..n |-> [tree |-> trees[i], base |-> tip, merge |-> FALSE]]]
    BY <1>2 DEF Rewrite
  <2>1. head'.fork = tip /\ \A i \in DOMAIN head'.commits : head'.commits[i].base = tip
    BY <2>0
  <2>2. tip' = tip
    BY <1>2 DEF Rewrite
  <2> QED  BY <1>0, <2>1, <2>2 DEF Based
<1>3. CASE Merge
  <2>1. PICK t \in Tree0 :
          head' = [head EXCEPT !.commits = Append(@, [tree |-> t, base |-> tip, merge |-> TRUE])]
    BY <1>3 DEF Merge
  <2> DEFINE c == [tree |-> t, base |-> tip, merge |-> TRUE]
  <2>2. c \in Commit
    BY ShipAssumption DEF Commit, TypeOK
  <2>3. c.base <= tip
    BY <1>0
  <2>4. tip' = tip
    BY <1>3 DEF Merge
  <2> HIDE DEF c
  <2>5. /\ head'.fork = head.fork
        /\ \A i \in DOMAIN head'.commits :
             \/ head'.commits[i] = c
             \/ i \in DOMAIN head.commits /\ head'.commits[i] = head.commits[i]
    BY <1>0, <2>1, <2>2, Committed DEF c
  <2> QED  BY <2>3, <2>4, <2>5 DEF Based
<1>4. CASE BaseAdvances
  <2>1. tip' = tip + 1 /\ head' = head
    BY <1>4 DEF BaseAdvances
  <2>2. head.fork \in Nat /\ \A i \in DOMAIN head.commits : head.commits[i].base \in Nat
    <3>1. head.commits \in Seq(Commit) /\ head.fork \in Version
      BY <1>0 DEF Branch
    <3>2. \A i \in DOMAIN head.commits : head.commits[i] \in Commit
      BY <3>1
    <3> QED  BY <3>1, <3>2, DeltaAssumption DEF Commit
  <2> QED  BY <1>0, <2>1, <2>2 DEF Based
<1>5. CASE UNCHANGED <<tip, head>>
  BY <1>5 DEF Based
<1> QED  BY <1>1, <1>2, <1>3, <1>4, <1>5
         DEF Next, Classify, StartRound, InBridge, FailedReview, EndRound, EndGate, TakeReview,
             StartGate, vars, work

\* Some review was given the file with this content, or the base branch had it.
Known(f, c) == <<f, c>> \in shown \/ OfBase(f, c)

\* What is known of the branch as last reviewed, of the tree that a review in
\* progress compares with, and of what is opened.
Covered ==
  /\ phase = "classify" => ~Reviewing
  /\ phase \in {"gate", "repair"} => \A f \in File : Known(f, TreeOf(last)[f])
  /\ phase \in {"round", "gate"} /\ Reviewing => \A f \in File : Known(f, against[f])
  /\ phase = "open" => \A f \in File : Known(f, TreeOf(head)[f])

\* Known stays known while the base branch moves on and reviews are added.
LEMMA StaysKnown ==
  ASSUME TypeOK, shown \subseteq shown', tip' \in {tip, tip + 1}
  PROVE  \A f, c : Known(f, c) => Known(f, c)'
<1>1. \A v \in Version : v \in Nat /\ tip \in Nat
  BY DeltaAssumption DEF TypeOK
<1>2. \A v \in Version : v <= tip => v <= tip'
  BY <1>1
<1> QED  BY <1>2 DEF Known, OfBase

\* The base of the branch is known.
LEMMA BaseKnown ==
  ASSUME TypeOK, Based
  PROVE  \A f \in File : Known(f, BaseTree[MergeBase(head)][f])
<1>1. MergeBase(head) \in Version
  BY BranchTyped DEF TypeOK
<1> QED  BY <1>1, BasedMeans DEF Known, OfBase

\* What a review adds to a known tree makes the branch known.
LEMMA ReviewCovers ==
  ASSUME TypeOK, TakeReview, \A f \in File : Known(f, against[f])
  PROVE  \A f \in File : Known(f, TreeOf(head)[f])'
<1>1. shown' = shown \cup {<<f, TreeOf(head)[f]>> : f \in Changed(against, TreeOf(head))}
  BY DEF TakeReview
<1>2. tip' = tip /\ head' = head
  BY DEF TakeReview, work
<1>3. \A f, c : Known(f, c) => Known(f, c)'
  BY <1>1, <1>2, StaysKnown
<1> SUFFICES ASSUME NEW f \in File PROVE Known(f, TreeOf(head)[f])'
  OBVIOUS
<1>4. CASE against[f] = TreeOf(head)[f]
  <2>1. Known(f, TreeOf(head)[f])
    BY <1>4
  <2>2. \A c : c = TreeOf(head)[f] => Known(f, c)'
    BY <1>3, <2>1
  <2> QED  BY <1>2, <2>2 DEF Known, OfBase
<1>5. CASE against[f] # TreeOf(head)[f]
  BY <1>1, <1>2, <1>5 DEF Changed, Known
<1> QED  BY <1>4, <1>5

LEMMA CoveredKept ==
  ASSUME TypeOK, Based, Covered, [Next]_vars
  PROVE  Covered'
<1>0. head \in Branch /\ last \in Branch
  BY DEF TypeOK
<1>1. ASSUME UNCHANGED <<tip, shown>>
      PROVE  \A f, c : Known(f, c) => Known(f, c)'
  BY <1>1, StaysKnown
<1>2. CASE Classify
  BY <1>2 DEF Classify, Covered, Reviewing, bridge
<1>3. CASE CommitFix \/ Rewrite \/ Merge
  <2>1. /\ phase \in {"round", "gate", "repair"} /\ phase' \in {phase, "gate"}
        /\ (phase = "round" => phase' = "round") /\ ~Reviewing'
        /\ UNCHANGED <<last, tip, shown>>
    BY <1>3 DEF CommitFix, Rewrite, Merge, Reviewing, bridge, record
  <2>2. phase' \in {"gate", "repair"} => \A f \in File : Known(f, TreeOf(last)[f])
    BY <2>1 DEF Covered
  <2>3. phase' \in {"gate", "repair"} => \A f \in File : Known(f, TreeOf(last)[f])'
    BY <2>1, <2>2 DEF Known, OfBase
  <2> QED  BY <2>1, <2>3 DEF Covered
<1>4. CASE BaseAdvances
  <2>1. /\ phase = "gate" /\ phase' = phase /\ ~Reviewing' /\ tip' = tip + 1
        /\ UNCHANGED <<last, shown>>
    BY <1>4 DEF BaseAdvances, Reviewing, bridge, record
  <2>2. \A f \in File : Known(f, TreeOf(last)[f])
    BY <2>1 DEF Covered
  <2>3. \A f, c : Known(f, c) => Known(f, c)'
    BY <2>1, StaysKnown
  <2>4. \A f \in File : Known(f, TreeOf(last)[f])'
    BY <2>1, <2>2, <2>3 DEF Known, OfBase
  <2> QED  BY <2>1, <2>4 DEF Covered
<1>5. CASE StartRound
  <2>1. /\ phase = "round" /\ ~Reviewing /\ UNCHANGED <<tip, head, shown>>
        /\ \/ phase' = "halt"
           \/ phase' = "round" /\ against' = BaseTree[MergeBase(head)]
    BY <1>5 DEF StartRound, work
  <2>2. \A f \in File : Known(f, BaseTree[MergeBase(head)][f])
    BY BaseKnown
  <2>3. phase' = "round" => \A f \in File : Known(f, against[f])'
    BY <2>1, <2>2 DEF Known, OfBase
  <2> QED  BY <2>1, <2>3 DEF Covered
<1>6. CASE InBridge
  <2>1. Reviewing
    BY <1>6 DEF InBridge, BridgeStep, Reviewing, From, Begin, CodexContext, GeneratorPrompt, Generate,
                Publish, CheckContract, JudgePrompt, Judge, Reconcile, Banner, ClaudeContext,
                Claude, Check
  <2>2. UNCHANGED <<phase, tip, head, last, against, shown>>
    BY <1>6 DEF InBridge, work, record, loop
  <2> QED  BY <2>1, <2>2 DEF Covered, Known, OfBase
<1>7. CASE FailedReview
  BY <1>7 DEF FailedReview, Covered
<1>8. CASE EndRound \/ EndGate
  <2>1. /\ TakeReview /\ phase \in {"round", "gate"} /\ Reviewing /\ ~Reviewing'
        /\ last' = head /\ head' = head
    BY <1>8 DEF EndRound, EndGate, TakeReview, Clear, Reviewing, work
  <2>2. \A f \in File : Known(f, against[f])
    BY <2>1 DEF Covered
  <2>3. \A f \in File : Known(f, TreeOf(head)[f])'
    BY <2>1, <2>2, ReviewCovers
  <2>4. \A f \in File : Known(f, TreeOf(last)[f])'
    BY <2>1, <2>3
  <2> QED  BY <2>1, <2>3, <2>4 DEF Covered
<1>9. CASE StartGate
  <2>1. PICK found \in BOOLEAN :
          LET d == DeltaBase(last, head, found) IN
          IF d.mode = "reviewed"
            THEN phase' = "open" /\ UNCHANGED <<bridge, against, gates>>
            ELSE IF gates = MaxGates
            THEN phase' = "halt" /\ UNCHANGED <<bridge, against, gates>>
            ELSE Start /\ against' = d.tree /\ gates' = gates + 1 /\ UNCHANGED phase
    BY <1>9 DEF StartGate
  <2> DEFINE d == DeltaBase(last, head, found)
  <2>2. phase = "gate" /\ UNCHANGED <<tip, head, last, shown>>
    BY <1>9 DEF StartGate, work
  <2>3. \A f \in File : Known(f, TreeOf(last)[f])
    BY <2>2 DEF Covered
  <2>4. /\ \A f \in File : d.tree[f] = BaseTree[MergeBase(head)][f] \/ d.tree[f] = TreeOf(last)[f]
        /\ d.mode = "reviewed" => d.tree = TreeOf(head)
    BY <1>0, DeltaSound
  <2> HIDE DEF d
  <2>5. \A f \in File : Known(f, d.tree[f])
    BY <2>3, <2>4, BaseKnown
  <2>6. CASE phase' = "open" /\ d.mode = "reviewed"
    <3>1. \A f \in File : Known(f, TreeOf(head)[f])
      BY <2>4, <2>5, <2>6
    <3>2. \A f \in File : Known(f, TreeOf(head)[f])'
      BY <2>2, <3>1 DEF Known, OfBase
    <3> QED  BY <2>6, <3>2 DEF Covered
  <2>7. CASE phase' = "gate" /\ against' = d.tree
    <3>1. \A f \in File : Known(f, against[f])'
      BY <2>2, <2>5, <2>7 DEF Known, OfBase
    <3>2. \A f \in File : Known(f, TreeOf(last)[f])'
      BY <2>2, <2>3 DEF Known, OfBase
    <3> QED  BY <2>7, <3>1, <3>2 DEF Covered
  <2>8. CASE phase' = "halt"
    BY <2>8 DEF Covered
  <2> QED  BY <2>1, <2>2, <2>6, <2>7, <2>8 DEF d
<1>10. CASE UNCHANGED vars
  BY <1>10 DEF vars, bridge, work, record, Covered, Known, OfBase, Reviewing
<1> QED  BY <1>2, <1>3, <1>4, <1>5, <1>6, <1>7, <1>8, <1>9, <1>10 DEF Next

\* Every file that an opened pull request changes has the content that some review
\* was given or that the base branch once had, for any files, histories and number
\* of commits, merges, rebases and checks.
THEOREM Reviewed == Spec => []AllReviewed
<1>1. Init => Based /\ Covered
  <2> SUFFICES ASSUME Init PROVE Based /\ Covered
    OBVIOUS
  <2>1. \E t \in Tree0 : head = [fork |-> 1, commits |-> <<[tree |-> t, base |-> 1, merge |-> FALSE]>>]
    BY DEF Init
  <2>2. tip = 1 /\ phase = "classify" /\ ~Reviewing
    BY DEF Init, Idle, Reviewing
  <2> QED  BY <2>1, <2>2 DEF Based, Covered
<1>2. TypeOK /\ Based /\ [Next]_vars => Based'
  BY BasedKept
<1>3. TypeOK /\ Based /\ Covered /\ [Next]_vars => Covered'
  BY CoveredKept
<1>4. Covered => AllReviewed
  BY DEF Covered, AllReviewed, Known, Changed
<1> QED  BY <1>1, <1>2, <1>3, <1>4, Typed, PTL DEF Spec
=============================================================================
