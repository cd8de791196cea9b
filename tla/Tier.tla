-------------------------------- MODULE Tier ---------------------------------
(***************************************************************************)
(* The risk tier of a change (scripts/tier.py): the floor that the paths   *)
(* it touches set, and what is asked for on top of it.  Tiers are numbers. *)
(***************************************************************************)
EXTENDS Integers

Tiers == 0..3
None == -1     \* not asked for

\* floors.  live: paths on the live-state list are touched, or somebody says so;
\* stakes: paths on the high-stakes list are.
Floor(live, stakes) == IF live THEN 3 ELSE IF stakes THEN 1 ELSE 0

\* Bug: an earlier choice is only a proposal.
Resolve_IgnoresFloor(floor, proposed, override, previous) ==
  CASE override # None -> [tier |-> override, refused |-> FALSE]
    [] override = None /\ proposed = None -> [tier |-> None, refused |-> TRUE]
    [] OTHER -> [tier |-> IF previous > proposed THEN previous ELSE proposed, refused |-> FALSE]

\* resolve.  An override is honoured or refused, and the tier is then the floor;
\* a proposal is raised to the earlier choice and to the floor.
\* Without either there is no decision.
Resolve(floor, proposed, override, previous) ==
  LET Highest(a, b) == IF a >= b THEN a ELSE b IN
  CASE override # None ->
         IF override < floor THEN [tier |-> floor, refused |-> TRUE]
                             ELSE [tier |-> override, refused |-> FALSE]
    [] override = None /\ proposed = None -> [tier |-> None, refused |-> TRUE]
    [] OTHER -> [tier |-> Highest(floor, Highest(previous, proposed)), refused |-> FALSE]
=============================================================================
