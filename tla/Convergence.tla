----------------------------- MODULE Convergence -----------------------------
(***************************************************************************)
(* What ends a review (scripts/convergence.py for one round,               *)
(* scripts/convergence_detector.py for the last two).  A round's findings  *)
(* are a set of records with a severity and a defect class.                *)
(***************************************************************************)
EXTENDS Integers, FiniteSets, FiniteSetsExt

CONSTANTS
  DefectClass,
  Safety,     \* classes that contain a word of SAFETY_CRITICAL_CLASSES
  SafetyNew   \* classes that contain a word the detector looks for

\* Each word of the first list contains one of the second.
ASSUME SafetyAssumption == Safety \subseteq SafetyNew /\ SafetyNew \subseteq DefectClass

MinRounds == 2

SeverityRank(f) ==
  CASE f.severity = "minor" -> 1 [] f.severity = "major" -> 2 [] f.severity = "blocker" -> 3

IsSafetyCritical(f) == f.severity = "blocker" \/ f.class \in Safety

\* Bug: the cap ends the review whatever is left.
CheckRound_CapForgives(F, round, cap) ==
  [converged |-> round >= cap \/ (F = {} /\ round >= MinRounds),
   ship_blocking |-> round < cap /\ \E f \in F : IsSafetyCritical(f)]

\* check_round.  A first round without findings ends nothing.
CheckRound(F, round, cap) ==
  [converged |-> round >= cap \/ (F = {} /\ round >= MinRounds),
   ship_blocking |-> \E f \in F : IsSafetyCritical(f)]

MaxRank(F) == Max({0} \cup {SeverityRank(f) : f \in F})

ClassesOf(F) == {f.class : f \in F}

\* check_convergence, of the last two rounds: nothing is left; or what is left
\* is less severe, without a new class that concerns safety; or nothing is new.
CheckConvergence(prev, curr) ==
  LET new == ClassesOf(curr) \ ClassesOf(prev) IN
  \/ curr = {}
  \/ MaxRank(curr) < MaxRank(prev) /\ new \cap SafetyNew = {}
  \/ new = {} /\ Cardinality(ClassesOf(curr)) <= Cardinality(ClassesOf(prev))
=============================================================================
