------------------------------ MODULE RedCheck -------------------------------
(***************************************************************************)
(* The red check (scripts/red_check.py): the branch's test files run in a  *)
(* copy of the checkout (head), the base's own version of them runs in a   *)
(* worktree of the merge base, and then the branch's version of them runs  *)
(* there (base).  A test that is new must pass on head and fail on the     *)
(* base from an assertion.                                                 *)
(*                                                                         *)
(* The test runner is outside: it may report everything, a part or nothing *)
(* of what it was asked to run, whatever its exit code says, or hang.      *)
(***************************************************************************)
EXTENDS Sandbox, Functions, FiniteSets

CONSTANTS
  Test, File,
  FileOf,      \* [Test -> File]
  Old,         \* tests that the base's own version of the files has
  May,         \* outcomes of a test, or of a file that cannot be imported:
               \* [Test \cup File -> [head, base : SUBSET Outcome]]
  Machines,    \* machines and settings the check is run on
  Untidy       \* tests leave things behind even where no reset is set

\* A test id, or the id under which a file reports that it cannot be imported.
Id == Test \cup File

\* A JUnit outcome.  typ is the class of the failure's type attribute, msg what
\* its message begins with or contains.  missing: the message says somewhere
\* that a symbol is absent (is_missing_symbol), whatever else it says.
Outcome == [tag : {"pass", "skipped", "failure", "error"},
            typ : {"none", "allowed", "exception", "other"},
            msg : {"empty", "assert", "pattern", "allowed", "exception", "expect", "other"},
            missing : BOOLEAN]

Verdicts == {"OK", "WRONG_REASON", "NEW_SYMBOL", "NOT_RED", "NOT_GREEN", "SKIPPED", "UNCLEAR"}
Options == {"all", "strict", "require"}
NoReport == [i \in {} |-> 0]

ASSUME RedAssumption ==
  /\ Test \cap File = {}
  /\ FileOf \in [Test -> File]
  /\ Old \subseteq Test
  /\ May \in [Id -> [head : SUBSET Outcome, base : SUBSET Outcome]]
  /\ \A f \in File : \A o \in May[f].head \cup May[f].base : o.tag = "error"
  /\ Machines \subseteq Machine
  /\ Untidy \in BOOLEAN

VARIABLES
  pc,
  changed,    \* the test files the branch changed, or that --tests names
  machine,
  mode,       \* the sandbox, or "custom" with a runner command of one's own
  reset,      \* a reset command is set
  options,    \* --all-tests, --strict, --require-tests (read last)
  left,       \* what earlier runs left: in the "base" copy or "outside"
  head,       \* the report of the head run
  code,       \* and its exit code, "zero" or another
  own,        \* ids that the base's own files reported
  base,       \* the report of the replay on the base
  real,       \* what the tests reported do when they start clean, per side
  verdict,    \* [judged ids -> Verdicts]
  exit,
  tmp,        \* the temporary directory exists
  wt,         \* the worktree in it exists
  registered, \* git knows the worktree
  stuck       \* something could not be removed

inputs == <<changed, machine, reset>>
reports == <<head, code, own, base, real>>
result == <<options, verdict, exit>>
disk == <<tmp, wt, registered, stuck>>
vars == <<pc, inputs, mode, left, reports, result, disk>>

Init ==
  /\ pc = "start"
  /\ changed \in SUBSET File
  /\ machine \in Machines
  /\ mode = "none"
  /\ reset \in BOOLEAN
  /\ options = {}
  /\ left \in SUBSET (IF reset \/ Untidy THEN {"outside"} ELSE {})
  /\ head = NoReport /\ code = "none" /\ own = {} /\ base = NoReport
  /\ real = [head |-> NoReport, base |-> NoReport]
  /\ verdict = NoReport
  /\ exit = "none"
  /\ tmp = FALSE /\ wt = FALSE /\ registered = FALSE /\ stuck = FALSE

-----------------------------------------------------------------------------
(* Outcomes and verdicts *)

\* classify_outcome
Classify(o) ==
  IF o.tag \in {"pass", "skipped"} THEN o.tag
  ELSE IF o.tag = "error" THEN "exception"
  ELSE IF o.typ = "allowed" \/ o.msg \in {"assert", "pattern", "allowed"} THEN "assertion"
  ELSE IF o.msg = "exception" \/ o.typ = "exception" THEN "exception"
  ELSE IF o.msg = "expect" THEN "assertion" ELSE "unknown"

\* verdict_for, of the kinds on head and base and whether the message on the
\* base says that a symbol is missing.
VerdictFor(h, b, missing) ==
  IF h = "skipped" THEN "SKIPPED"
  ELSE IF h # "pass" THEN "NOT_GREEN"
  ELSE CASE b = "pass" -> "NOT_RED"
         [] b = "assertion" -> "OK"
         [] b = "skipped" -> "SKIPPED"
         [] b = "unknown" -> "UNCLEAR"
         [] OTHER -> IF missing THEN "NEW_SYMBOL" ELSE "WRONG_REASON"

\* Some reported error says that a symbol is missing.
MissingReported == \E i \in DOMAIN base : base[i].tag = "error" /\ base[i].missing

\* What check makes of an id that head reported.  A test that the base did not
\* report is judged by the errors the base reported, all in one note.
Judged(i, note) ==
  IF i \in DOMAIN base
    THEN VerdictFor(Classify(head[i]), Classify(base[i]), base[i].missing)
    ELSE VerdictFor(Classify(head[i]), "exception", note)

Bad(strict) == {"WRONG_REASON", "NOT_RED", "NOT_GREEN", "SKIPPED", "UNCLEAR"}
                 \cup (IF strict THEN {"NEW_SYMBOL"} ELSE {})

-----------------------------------------------------------------------------
(* A run of the test command *)

Tests(f) == {t \in Test : FileOf[t] = f}

\* All a runner may report on one side: for each file that it cannot be
\* imported, or outcomes of any of its tests.
Reports(side) ==
  LET Shape(f) == {{f}} \cup SUBSET Tests(f)
      Ids == {UNION {S[f] : f \in changed} :
                S \in {R \in [changed -> SUBSET Id] : \A f \in changed : R[f] \in Shape(f)}}
  IN UNION {{r \in [S -> UNION {May[i][side] : i \in S}] : \A i \in S : r[i] \in May[i][side]} :
              S \in Ids}

Failing(r) == \E i \in DOMAIN r : r[i].tag \in {"failure", "error"}

\* Where a run in a copy finds what others left.  The head copy is used once.
Places(copy) == IF copy = "base" THEN {"base", "outside"} ELSE {"outside"}

\* Bug: the reset runs once.
Dirt_ResetOnce(copy) == IF reset /\ copy = "head" THEN {} ELSE left \cap Places(copy)

\* What a run finds left over: the reset, if there is one, runs before each.
Dirt(copy) == IF reset THEN {} ELSE left \cap Places(copy)

\* What a run may leave, sandboxed or not: all runs may write the temporary
\* directory that holds both copies, which counts as outside here.
MayLeave(copy) == IF reset \/ Untidy THEN Places(copy) ELSE {}

Litter(copy) ==
  \E S \in {{}, MayLeave(copy)} : left' = (left \ Places(copy)) \cup Dirt(copy) \cup S

\* What the tests of a report do when they start clean: what they did, unless
\* they found something left over.
Cleanly(r, side) ==
  IF Dirt(side) = {} THEN {r} ELSE {q \in Reports(side) : DOMAIN q = DOMAIN r}

-----------------------------------------------------------------------------
(* main and check *)

GoTo(from, to) == pc = from /\ pc' = to

\* The check refuses, and the finally block runs on the way out.
Block == pc' = "remove" /\ exit' = "block"

\* A bad flag or setting, git, or the sandbox: nothing has been run yet.
Refuse ==
  /\ GoTo("start", "done")
  /\ exit' = "block"
  /\ UNCHANGED <<inputs, mode, left, reports, options, verdict, disk>>

\* A runner command of one's own is run without a sandbox.
Prepare ==
  /\ GoTo("start", "copy")
  /\ mode' \in {"custom", Create(machine, TRUE)} \ {Refused}
  /\ UNCHANGED <<inputs, left, reports, result, disk>>

NoFiles ==
  /\ GoTo("copy", "judge")
  /\ changed = {}
  /\ UNCHANGED <<inputs, mode, left, reports, result, disk>>

CopyHead ==
  /\ pc = "copy"
  /\ changed # {}
  /\ tmp' = TRUE
  /\ (pc' = "head" /\ UNCHANGED exit) \/ Block
  /\ UNCHANGED <<inputs, mode, left, reports, options, verdict, wt, registered, stuck>>

\* Bug: an exit code that contradicts the report is ignored.
RunHead_IgnoresCode ==
  /\ pc = "head"
  /\ Litter("head")
  /\ \/ \E r \in Reports("head") :
          /\ head' = r /\ code' \in {"zero", "other"}
          /\ \E q \in Cleanly(r, "head") : real' = [real EXCEPT !.head = q]
          /\ IF r = NoReport THEN Block ELSE pc' = "worktree" /\ UNCHANGED exit
     \/ Block /\ UNCHANGED <<head, code, real>>
  /\ UNCHANGED <<inputs, mode, own, base, options, verdict, disk>>

\* A report in which nothing failed blocks if the exit code says otherwise.  It
\* is taken as it is if the exit code is 0, complete or not: a selection in the
\* command or the settings of the runner leaves tests out, and a pipe hides the
\* code.  An empty report or none, a hanging run, ids that occur twice, a failed
\* reset or sandbox block as well.
RunHead ==
  /\ pc = "head"
  /\ Litter("head")
  /\ \/ \E r \in Reports("head") :
          /\ head' = r /\ code' \in {"zero", "other"}
          /\ \E q \in Cleanly(r, "head") : real' = [real EXCEPT !.head = q]
          /\ IF r = NoReport \/ (code' # "zero" /\ ~Failing(r))
               THEN Block ELSE pc' = "worktree" /\ UNCHANGED exit
     \/ Block /\ UNCHANGED <<head, code, real>>
  /\ UNCHANGED <<inputs, mode, own, base, options, verdict, disk>>

AddWorktree ==
  /\ pc = "worktree"
  /\ \/ pc' = "own" /\ wt' = TRUE /\ registered' = TRUE /\ UNCHANGED exit
     \/ Block /\ UNCHANGED <<wt, registered>>
  /\ UNCHANGED <<inputs, mode, left, reports, options, verdict, tmp, stuck>>

\* The ids of the base's own files, which are those that an old test is in, and
\* what a run of them may report: tests, or that a file cannot be imported.
OwnIds == {t \in Old : FileOf[t] \in changed} \cup {f \in changed : Tests(f) \cap Old # {}}
OwnReports == {S \in SUBSET OwnIds : \A f \in S \cap File : Tests(f) \cap S = {}}

\* No report means that no id is known to the base.
RunOwn ==
  /\ pc = "own"
  /\ \/ OwnIds = {} /\ pc' = "base" /\ UNCHANGED <<own, left, exit>>
     \/ /\ OwnIds # {} /\ Litter("base")
        /\ \/ own' \in OwnReports /\ pc' = "base" /\ UNCHANGED exit
           \/ Block /\ UNCHANGED own
  /\ UNCHANGED <<inputs, mode, head, code, base, real, options, verdict, disk>>

\* The branch's files are copied over the base's and run there.  No report is
\* the same as an empty one.
RunBase ==
  /\ pc = "base"
  /\ Litter("base")
  /\ \/ \E r \in Reports("base") :
          /\ base' = r
          /\ \E q \in Cleanly(r, "base") : real' = [real EXCEPT !.base = q]
          /\ pc' = "remove" /\ UNCHANGED exit
     \/ Block /\ UNCHANGED <<base, real>>
  /\ UNCHANGED <<inputs, mode, head, code, own, options, verdict, disk>>

\* The finally block.  git worktree remove fails when there is none, or when
\* something keeps it from deleting the files.
RemoveWorktree ==
  /\ GoTo("remove", "rmtree")
  /\ \/ wt' = FALSE /\ registered' = FALSE /\ UNCHANGED stuck
     \/ wt /\ stuck' = TRUE /\ UNCHANGED <<wt, registered>>
  /\ UNCHANGED <<inputs, mode, left, reports, result, tmp>>

Rmtree ==
  /\ GoTo("rmtree", "prune")
  /\ \/ tmp' = FALSE /\ wt' = FALSE /\ UNCHANGED stuck
     \/ stuck' = TRUE /\ wt' \in {wt, FALSE} /\ UNCHANGED tmp
  /\ UNCHANGED <<inputs, mode, left, reports, result, registered>>

\* Bug: worktree remove is relied upon.
Prune_Skipped ==
  /\ GoTo("prune", IF exit = "block" THEN "done" ELSE "judge")
  /\ UNCHANGED <<inputs, mode, left, reports, result, disk>>

\* git worktree prune forgets a worktree whose directory is gone.
Prune ==
  /\ GoTo("prune", IF exit = "block" THEN "done" ELSE "judge")
  /\ registered' = (registered /\ wt)
  /\ UNCHANGED <<inputs, mode, left, reports, result, tmp, wt, stuck>>

\* The note may lose the word for a missing symbol when it is cut to length.
Finish(o) ==
  LET judged == {i \in DOMAIN head : "all" \in o \/ i \notin own} IN
  /\ GoTo("judge", "done")
  /\ options' = o
  /\ \E note \in {FALSE, MissingReported} :
       verdict' = [i \in judged |-> Judged(i, note)]
  /\ exit' = IF (\E i \in judged : verdict'[i] \in Bad("strict" \in o)) \/ (judged = {} /\ "require" \in o)
               THEN "bad" ELSE "good"
  /\ UNCHANGED <<inputs, mode, left, reports, disk>>

Next ==
  \/ Refuse \/ Prepare \/ NoFiles \/ CopyHead \/ RunHead \/ AddWorktree \/ RunOwn \/ RunBase
  \/ RemoveWorktree \/ Rmtree \/ Prune \/ (\E o \in SUBSET Options : Finish(o))

\* A termination signal kills the commands and the check, which then stops
\* wherever it is and removes nothing; nothing makes a step happen here either.
Spec == Init /\ [][Next]_vars

-----------------------------------------------------------------------------
(* Properties *)

Partial(D, C) == UNION {[S -> C] : S \in SUBSET D}

TypeOK ==
  /\ pc \in {"start", "copy", "head", "worktree", "own", "base", "remove", "rmtree", "prune",
              "judge", "done"}
  /\ changed \subseteq File
  /\ machine \in Machines
  /\ mode \in (Modes \ {Refused}) \cup {"none", "custom"}
  /\ reset \in BOOLEAN
  /\ options \subseteq Options
  /\ left \subseteq {"base", "outside"}
  /\ \A r \in {head, base, real.head, real.base} :
       DOMAIN r \subseteq Id /\ \A i \in DOMAIN r : r[i] \in Outcome
  /\ code \in {"none", "zero", "other"}
  /\ own \subseteq Id
  /\ DOMAIN verdict \subseteq Id /\ \A i \in DOMAIN verdict : verdict[i] \in Verdicts
  /\ exit \in {"none", "good", "bad", "block"}
  /\ {tmp, wt, registered, stuck} \subseteq BOOLEAN

\* The outcome r[i] is reported and of that kind.
Did(r, i, kind) == i \in DOMAIN r /\ Classify(r[i]) = kind

\* "every NEW test must fail on the base for the RIGHT reason, then pass": OK is
\* given only to a test that, started clean, passes on head and fails on the
\* base from an assertion, whatever the runs before it left behind.
OkIsEarned ==
  ~Untidy => \A i \in DOMAIN verdict : verdict[i] = "OK" =>
    Did(real.head, i, "pass") /\ Did(real.base, i, "assertion")

\* The replay on the base says that t lacks a symbol: by t's own message if it
\* reported t, else by some error.
SymbolMissing(t) ==
  IF t \in DOMAIN base THEN base[t].missing ELSE MissingReported

\* Exit code 0 of the check lets no new test slip through that its runner does
\* not hide.  Each was judged, and is OK or, without --strict, lacks a symbol.
\* One that head did not report was left out by a runner that claims success,
\* or the run stopped at something that the base's own files report too, whose
\* failure on head the check does not count.
NothingSlips ==
  exit = "good" =>
    \A t \in {u \in Test \ Old : FileOf[u] \in changed} :
      \/ /\ t \in DOMAIN verdict
         /\ \/ verdict[t] = "OK"
            \/ verdict[t] = "NEW_SYMBOL" /\ "strict" \notin options /\ SymbolMissing(t)
      \/ /\ t \notin DOMAIN head
         /\ code = "zero" \/ \E i \in own \cap DOMAIN head : Failing(Restrict(head, {i}))

\* A check that ends, refusing or not, leaves its directory or a worktree only
\* if something could not be removed, and git never keeps a worktree whose
\* directory is gone.
CleansUp ==
  pc = "done" => ((tmp \/ registered) => stuck) /\ (registered => wt)

\* No test runs unisolated unless somebody said so, by the environment or by a
\* runner of their own, or there is nothing to isolate it with.
IsolatedOrKnowingly ==
  head # NoReport =>
    \/ mode = "bwrap" /\ machine.binary = "found" /\ machine.problems = {}
    \/ mode = "custom" \/ machine.setting = "off"
    \/ machine.binary = "none" /\ machine.setting = "auto"
=============================================================================
