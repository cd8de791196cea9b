---------------------------- MODULE MutationMain -----------------------------
(***************************************************************************)
(* The mutation check from its start to the first copy                     *)
(* (scripts/mutation_check.py, main and the first half of check): where it *)
(* runs, which files it mutates, whether the user has agreed to what       *)
(* mutants of these files may do, and the texts the mutants are made of.   *)
(* Behind that MutationCheck goes on.                                      *)
(*                                                                         *)
(* The files are read twice, for the calls they make and for the mutants.  *)
(***************************************************************************)
EXTENDS MutationCheck, Sandbox

CONSTANTS
  Machines,   \* settings and machines the check is started on
  Texts       \* what a file may be: [File -> Text] is what the checkout may be

\* What a file does to the world, as far as the scan tells: "process" for signals
\* and spawned processes, "files" for what is deleted, written or opaque.
Effect == {"process", "files"}
Text == [effects : SUBSET Effect, parses : BOOLEAN]

ASSUME MainAssumption ==
  /\ Machines \subseteq Machine
  /\ Texts \subseteq Text

VARIABLES
  gate,     \* where the check is
  flags,    \* --isolated, --fakes
  machine,
  ns,       \* marked: an outer check says that it made a PID namespace; one: pid 1
  text,     \* [File -> Text]: the targets in the checkout
  seen,     \* as they were when they were scanned
  taken,    \* as they were when the mutants were made of them
  mode,     \* the sandbox
  touched   \* ghost: the checkout has changed since the start

own == <<gate, flags, machine, ns, text, seen, taken, mode, touched>>
given == <<flags, machine, text, touched>>

NoText == [effects |-> {}, parses |-> TRUE]
NoTexts == [f \in File |-> NoText]
NoFlags == [isolated |-> FALSE, fakes |-> FALSE]
NoMachine == [setting |-> "auto", binary |-> "none", problems |-> {}]
NoNamespace == [marked |-> FALSE, one |-> FALSE]

Flags == [isolated : BOOLEAN, fakes : BOOLEAN]

MainInit ==
  /\ Init
  /\ gate = "main"
  /\ flags \in Flags
  /\ machine \in Machines
  /\ ns \in [marked : BOOLEAN, one : BOOLEAN]
  /\ text \in [File -> Texts]
  /\ seen = NoTexts /\ taken = NoTexts /\ mode = Refused
  /\ touched = FALSE

\* Exit code 2.
Block == gate' = "blocked" /\ UNCHANGED <<ns, seen, taken, mode>>

\* Bug: only a missing binary is taken for no sandbox.
Unsandboxed_MissingOnly(m) == m.binary = "none"

Unsandboxed(m) == m.setting = "off" \/ m.binary = "none"

\* _reexec_in_pid_namespace, which unshare may not be able to make.
Reexec == ns' = [marked |-> TRUE, one |-> TRUE] /\ UNCHANGED <<gate, seen, taken, mode>>

\* main: without the sandbox --isolated asks for a PID namespace, in which the
\* check starts anew as pid 1.
Main ==
  /\ gate = "main"
  /\ LET reexec == flags.isolated /\ Unsandboxed(machine)
     IN IF machine.setting = "invalid" \/ (machine.setting # "off" /\ machine.binary = "mistyped")
        THEN Block
        ELSE IF reexec /\ ~ns.marked THEN Block \/ Reexec
        ELSE IF reexec /\ ~ns.one THEN Block
        ELSE gate' = "list" /\ UNCHANGED <<ns, seen, taken, mode>>
  /\ UNCHANGED <<given, vars>>

\* branch_changes and the path list.  git may fail, a list that is named may be
\* missing; without any list the check passes, or blocks if one is required;
\* and nothing may be in scope.
List ==
  /\ gate = "list"
  /\ \/ Block
     \/ gate' \in {"scan", "passed"} /\ UNCHANGED <<ns, seen, taken, mode>>
  /\ UNCHANGED <<given, vars>>

\* side_effect_sites of every target, which may be gone.  One target changes at
\* most, before or after it is read: so they are read in one step.
Scan ==
  /\ gate = "scan"
  /\ \/ Block
     \/ /\ \A f \in File : text[f].parses
        /\ gate' = "sandbox" /\ seen' = text /\ UNCHANGED <<ns, taken, mode>>
  /\ UNCHANGED <<given, vars>>

\* sandbox.create; a probe takes its time.
MakeSandbox ==
  /\ gate = "sandbox"
  /\ LET m == Create(machine, flags.fakes)
     IN IF m = Refused THEN Block
        ELSE gate' = "consent" /\ mode' = m /\ UNCHANGED <<ns, seen, taken>>
  /\ UNCHANGED <<given, vars>>

Sites(effect) == \E f \in File : effect \in seen[f].effects

Consent ==
  /\ gate = "consent"
  /\ IF \/ Sites("process") /\ ~flags.isolated /\ ~flags.fakes
        \/ Sites("files") /\ ~flags.fakes
     THEN Block
     ELSE gate' = "read" /\ UNCHANGED <<ns, seen, taken, mode>>
  /\ UNCHANGED <<given, vars>>

\* The sources are read, mutants made and sampled; there may be none.  git may
\* fail, a target may be gone.
Read ==
  /\ gate = "read"
  /\ \/ Block
     \/ /\ \A f \in File : text[f].parses
        /\ gate' \in {"admitted", "passed"} /\ taken' = text /\ UNCHANGED <<ns, seen, mode>>
  /\ UNCHANGED <<given, vars>>

\* The copies are made.  Nothing later looks at what was decided here.
Go ==
  /\ gate = "admitted" /\ gate' = "on"
  /\ flags' = NoFlags /\ machine' = NoMachine /\ ns' = NoNamespace
  /\ text' = NoTexts /\ seen' = NoTexts /\ taken' = NoTexts
  /\ mode' = Refused /\ touched' = FALSE
  /\ UNCHANGED vars

\* A person, an editor or git changes a target.
Change ==
  /\ gate \in {"scan", "sandbox", "consent", "read"} /\ ~touched
  /\ \E f \in File : \E t \in Texts \ {text[f]} : text' = [text EXCEPT ![f] = t]
  /\ touched' = TRUE
  /\ UNCHANGED <<gate, flags, machine, ns, seen, taken, mode, vars>>

Stopped == gate \in {"blocked", "passed"} /\ UNCHANGED <<own, vars>>

MainNext ==
  \/ Main \/ List \/ Scan \/ MakeSandbox \/ Consent \/ Read \/ Go \/ Change \/ Stopped
  \/ gate = "on" /\ Next /\ UNCHANGED own

MainSpec == MainInit /\ [][MainNext]_<<own, vars>>

-----------------------------------------------------------------------------
MainTypeOK ==
  /\ gate \in {"main", "list", "scan", "sandbox", "consent", "read", "admitted", "on",
               "blocked", "passed"}
  /\ flags \in Flags /\ machine \in Machine
  /\ ns \in [marked : BOOLEAN, one : BOOLEAN]
  /\ text \in [File -> Text] /\ seen \in [File -> Text] /\ taken \in [File -> Text]
  /\ mode \in Modes
  /\ touched \in BOOLEAN

\* "never mutation-test code that signals, deletes or writes real resources outside
\* a fake or an isolated namespace", and never without the sandbox but knowingly:
\* of the texts that are mutated, if nobody changes them between the scan and the
\* second reading, those that write files are with fakes, those that act on
\* processes with fakes or in a PID namespace that --isolated has asked for.
KnowinglyMutated ==
  gate = "admitted" =>
    /\ mode = "bwrap" \/ flags.fakes \/ machine.setting = "off"
    /\ ~touched => \A f \in File :
         /\ "files" \in taken[f].effects => flags.fakes
         /\ "process" \in taken[f].effects =>
              flags.fakes \/ (flags.isolated /\ (mode = "bwrap" \/ (ns.marked /\ ns.one)))
=============================================================================
