-------------------------------- MODULE Ship ---------------------------------
(***************************************************************************)
(* How a branch gets to its pull request (skills/ship, sections 0.5 to 3): *)
(* its tier is settled, review rounds run through the bridge until they    *)
(* converge or reach the tier's cap, what was committed or rewritten since *)
(* the last review is found and reviewed, and only then the pull request   *)
(* opens.  The agent may commit fixes between rounds and, before the final *)
(* check, also rebase and merge; the base branch moves on meanwhile.       *)
(***************************************************************************)
EXTENDS ReviewBridge, ReviewDelta, Convergence, Tier

CONSTANTS
  ClassOf,     \* [FindingId \cup {NoId} -> DefectClass]
  Live, Stakes, \* files on the live-state and the high-stakes list
  Wishes,      \* what may be asked of tier.py
  Tree0,       \* trees that commits may have
  MaxCommits, MaxGates

ASSUME ShipAssumption ==
  /\ ClassOf \in [FindingId \cup {NoId} -> DefectClass]
  /\ Live \cup Stakes \subseteq File
  /\ Wishes \subseteq [proposed : Tiers \cup {None}, override : Tiers \cup {None},
                        previous : Tiers \cup {None}, live : BOOLEAN]
  /\ Tree0 \subseteq Tree
  /\ MaxCommits \in Nat /\ MaxGates \in Nat

VARIABLES
  phase,
  tier,
  rehearsed,   \* rehearsal evidence was asked for and there is some
  tip,         \* the base branch's version
  head,        \* the branch
  last,        \* the branch as it was last reviewed
  against,     \* the tree that the review in progress compares head with
  shown,       \* <<file, content>> that some completed review was given
  blockers,    \* of the last review, as its generator saw them
  round, gates,
  prev,        \* the findings of the round before
  risky        \* live-state files were touched when the tier was settled

work == <<tip, head>>
choice == <<tier, rehearsed, risky>>
loop == <<round, gates, prev>>
record == <<last, against, shown, blockers>>
vars == <<phase, bridge, choice, work, record, loop>>

Cap == IF tier >= 2 THEN 6 ELSE 3

Init ==
  /\ phase = "classify"
  /\ Idle
  /\ tier = None /\ risky = FALSE
  /\ rehearsed = FALSE
  /\ tip = 1
  /\ \E t \in Tree0 \ {BaseTree[1]} :
       head = [fork |-> 1, commits |-> <<[tree |-> t, base |-> 1, merge |-> FALSE]>>]
  /\ last = head /\ against = BaseTree[1] /\ shown = {} /\ blockers = {}
  /\ round = 1 /\ gates = 0 /\ prev = {}

-----------------------------------------------------------------------------
(* The tier *)

Touches(S) == Changed(BaseTree[MergeBase(head)], TreeOf(head)) \cap S # {}

\* tier.py resolve, and the skill's answer: continue at the floor when refused,
\* stop without a decision, and require a rehearsal at T3.
Classify ==
  \E w \in Wishes :
    LET floor == Floor(w.live \/ Touches(Live), Touches(Stakes))
        r == Resolve(floor, w.proposed, w.override, w.previous) IN
    /\ phase = "classify"
    /\ tier' = r.tier
    /\ risky' = Touches(Live)
    /\ rehearsed' \in IF r.tier = 3 THEN BOOLEAN ELSE {FALSE}
    /\ phase' = IF r.tier = None \/ (r.tier = 3 /\ ~rehearsed') THEN "halt" ELSE "round"
    /\ UNCHANGED <<bridge, work, record, loop>>

-----------------------------------------------------------------------------
(* The agent's work between reviews, and the base branch's *)

\* The bridge has been called and its answer has not been taken.
Reviewing == stage # "idle"

CommitFix ==
  /\ phase \in {"round", "gate", "repair"} /\ ~Reviewing
  /\ Len(head.commits) < MaxCommits
  /\ \E t \in Tree0 :
       head' = [head EXCEPT !.commits =
                  Append(@, [tree |-> t, base |-> MergeBase(head), merge |-> FALSE])]
  /\ phase' = IF phase = "repair" THEN "gate" ELSE phase
  /\ UNCHANGED <<bridge, choice, tip, record, loop>>

\* A rebase, an amended, dropped or reordered commit: any other history.
\* The repair of what the final check found stays a commit of its own.
Rewrite ==
  /\ phase = "gate" /\ ~Reviewing
  /\ \E n \in 1..MaxCommits : \E trees \in [1..n -> Tree0] :
       head' = [fork |-> tip,
                commits |-> [i \in 1..n |-> [tree |-> trees[i], base |-> tip, merge |-> FALSE]]]
  /\ gates > 0 => Len(head'.commits) > Len(last.commits)
  /\ UNCHANGED <<phase, bridge, choice, tip, record, loop>>

\* Made by git or worked out by hand: the merge may have any content.
Merge ==
  /\ phase = "gate" /\ ~Reviewing
  /\ MergeBase(head) # tip
  /\ Len(head.commits) < MaxCommits
  /\ \E t \in Tree0 :
       head' = [head EXCEPT !.commits = Append(@, [tree |-> t, base |-> tip, merge |-> TRUE])]
  /\ UNCHANGED <<phase, bridge, choice, tip, record, loop>>

BaseAdvances ==
  /\ phase = "gate" /\ ~Reviewing
  /\ tip + 1 \in Version
  /\ tip' = tip + 1
  /\ UNCHANGED <<phase, bridge, choice, head, record, loop>>

-----------------------------------------------------------------------------
(* Review rounds *)

Start == stage' = "begin" /\ UNCHANGED <<text, answer, out, exit>>

\* A round reviews the whole branch, which must differ from its base.
StartRound ==
  /\ phase = "round" /\ ~Reviewing
  /\ IF Touches(File)
       THEN Start /\ against' = BaseTree[MergeBase(head)] /\ UNCHANGED phase
       ELSE phase' = "halt" /\ UNCHANGED <<bridge, against>>
  /\ UNCHANGED <<choice, work, last, shown, blockers, loop>>

InBridge ==
  /\ BridgeStep
  /\ UNCHANGED <<phase, choice, work, record, loop>>

\* A failed review is never a passed one.
FailedReview ==
  /\ phase \in {"round", "gate"}
  /\ stage = "ended" /\ exit \in Classes
  /\ phase' = "halt" /\ Clear
  /\ UNCHANGED <<choice, work, record, loop>>

\* What a reader of the artifact finds.
Found == {[severity |-> l.severity, class |-> ClassOf[l.id]] :
            l \in {m \in Range(out.lines) : m.fate # "dropped"}}

\* Blockers that the generator reported and that were not settled.
Unsettled ==
  {f \in Range(text.findings) :
     f.severity = "blocker"
       /\ ~(out.by = "judge" /\ DecisionOn(f, answer).reason = "auto-zero-category")}

\* The review that has ended was given every file that head changed.
TakeReview ==
  /\ stage = "ended" /\ exit = "path"
  /\ Clear
  /\ blockers' = Unsettled
  /\ last' = head
  /\ shown' = shown \cup {<<f, TreeOf(head)[f]>> : f \in Changed(against, TreeOf(head))}
  /\ against' = BaseTree[1]
  /\ UNCHANGED <<choice, work>>

EndRound ==
  LET r == CheckRound(Found, round, Cap)
      converged == r.converged \/ (round > 1 /\ CheckConvergence(prev, Found)) IN
  /\ phase = "round"
  /\ TakeReview
  /\ IF converged
       THEN /\ phase' = IF r.ship_blocking THEN "halt" ELSE "gate"
            /\ round' = 0 /\ prev' = {}
       ELSE phase' = "round" /\ round' = round + 1 /\ prev' = Found
  /\ UNCHANGED gates

-----------------------------------------------------------------------------
(* The check of the final head *)

\* review_delta.py, and the bridge unless there is nothing to review.  When git
\* fails, the whole branch is reviewed.
StartGate ==
  /\ phase = "gate" /\ ~Reviewing
  /\ \E found \in BOOLEAN :
       LET d == DeltaBase(last, head, found) IN
       IF d.mode = "reviewed"
         THEN phase' = "open" /\ UNCHANGED <<bridge, against, gates>>
         ELSE IF gates = MaxGates
         THEN phase' = "halt" /\ UNCHANGED <<bridge, against, gates>>
         ELSE Start /\ against' = d.tree /\ gates' = gates + 1 /\ UNCHANGED phase
  /\ UNCHANGED <<choice, work, last, shown, blockers, round, prev>>

\* Only a blocker or a major halts: it is fixed, and the check repeated.
EndGate ==
  /\ phase = "gate"
  /\ TakeReview
  /\ phase' \in IF \E f \in Found : f.severity # "minor" THEN {"halt", "repair"} ELSE {"open"}
  /\ UNCHANGED loop

Next ==
  \/ Classify \/ CommitFix \/ Rewrite \/ Merge \/ BaseAdvances
  \/ StartRound \/ InBridge \/ FailedReview \/ EndRound \/ StartGate \/ EndGate

Spec == Init /\ [][Next]_vars

-----------------------------------------------------------------------------
(* Properties *)

TypeOK ==
  /\ BridgeTypeOK
  /\ phase \in {"classify", "round", "gate", "repair", "open", "halt"}
  /\ tier \in Tiers \cup {None}
  /\ {rehearsed, risky} \subseteq BOOLEAN
  /\ tip \in Version
  /\ {head, last} \subseteq Branch
  /\ against \in Tree
  /\ shown \subseteq File \X Content
  /\ blockers \subseteq Finding
  /\ round \in 0..Cap
  /\ gates \in 0..MaxGates
  /\ prev \subseteq [severity : Severities, class : DefectClass]

\* Some version of the base branch up to now had this content.
OfBase(f, content) == \E v \in Version : v <= tip /\ BaseTree[v][f] = content

\* "Unmapped is unreviewed": every file that the pull request changes has the
\* content that some completed review was given, whatever was rebased, amended,
\* reordered or merged after the rounds; or one that the base branch once had,
\* as a merge may undo what the base branch changed and no review is shown it.
AllReviewed ==
  phase = "open" =>
    \A f \in Changed(BaseTree[MergeBase(head)], TreeOf(head)) :
      <<f, TreeOf(head)[f]>> \in shown \/ OfBase(f, TreeOf(head)[f])

\* "Safety-critical findings block the PR": when it opens, no blocker of the last
\* review's generator is left, unless the judge put it into a category that is
\* never one; not by the judge's doubts, a degraded judge pass or the round cap.
NoKnownBlocker == phase = "open" => blockers = {}

\* No pull request opens for a branch that touched live state when its tier was
\* settled, whoever asked for a lower tier, without a rehearsal.
LiveIsRehearsed == phase = "open" /\ risky => rehearsed
=============================================================================
