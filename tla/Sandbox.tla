------------------------------- MODULE Sandbox -------------------------------
(***************************************************************************)
(* The choice of the sandbox for a gate's test commands                    *)
(* (scripts/sandbox.py): what the environment asks for, what the machine   *)
(* has, and what a probe of it shows decide between a sandbox, none, and a *)
(* refusal.  Mount lists and environment filters are left out.             *)
(***************************************************************************)

\* GOODFELLOW_SANDBOX, and any value it must not have.
Setting == {"auto", "bwrap", "off", "invalid"}

\* What find_bwrap comes to: a binary, nothing installed, or a GOODFELLOW_BWRAP
\* that names no file.
Binary == {"found", "none", "mistyped"}

\* What a probe inside the sandbox, or the host afterwards, can object to.
Problem == {"crashed", "sees processes", "sees credentials", "cannot write its copy",
            "wrote to the host"}

Machine == [setting : Setting, binary : Binary, problems : SUBSET Problem]

Refused == "refused"
Modes == {"bwrap", "off", "unsandboxed", Refused}

\* Bug: a binary that does not isolate is treated like a missing one.
Create_Degrades(m, allowMissing) ==
  IF m.setting = "off" THEN "off"
  ELSE IF m.setting = "invalid" \/ m.binary = "mistyped" THEN Refused
  ELSE IF m.binary = "found" /\ m.problems = {} THEN "bwrap"
  ELSE IF allowMissing /\ m.setting = "auto" THEN "unsandboxed" ELSE Refused

\* create.  Only what is not installed may be done without, and only when
\* nobody required it; what is installed must isolate.
Create(m, allowMissing) ==
  IF m.setting = "off" THEN "off"
  ELSE IF m.setting = "invalid" \/ m.binary = "mistyped" THEN Refused
  ELSE IF m.binary = "none"
  THEN IF allowMissing /\ m.setting = "auto" THEN "unsandboxed" ELSE Refused
  ELSE IF m.problems = {} THEN "bwrap" ELSE Refused
=============================================================================
