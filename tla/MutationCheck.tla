---------------------------- MODULE MutationCheck ----------------------------
(***************************************************************************)
(* The mutation check (scripts/mutation_check.py): the unmutated suite is  *)
(* timed, worker threads run one mutant after the other in private copies  *)
(* of the checkout until the time budget is spent, timeouts are judged     *)
(* against the slowest passing run seen, and the results become an exit    *)
(* code.                                                                   *)
(*                                                                         *)
(* Time is counted in the seconds that the limits are given in.  A run of  *)
(* the tests that passes takes MinRun to MaxRun of them, which is all that *)
(* is assumed of the load of the machine.                                  *)
(***************************************************************************)
EXTENDS Integers, FiniteSets

CONSTANTS
  Worker,     \* threads, and names for their copies of the checkout
  First,      \* workers[0]: the copy of the baseline and of the control run
  NoCopy,
  Mutants,    \* how many mutants there are
  File,       \* the files of the checkout
  FileOf,     \* [Mutant -> File]
  MinRun, MaxRun,
  MinTimeout, \* MIN_MUTANT_TIMEOUT
  Requests,   \* values of --timeout, 0 for none
  Budget,     \* --budget
  MaxEdits    \* bound: changes made to the checkout during the check

Mutant == 1 .. Mutants

\* What is in a file: the version of the checkout it was copied from, or
Absent  == -1
Touched == -2   \* something a test or the reset wrote, with a time of its own
Mutated == -3
Version == 0 .. MaxEdits
Content == Version \cup {Absent, Touched, Mutated}

\* What the tests would say of a mutant, given all the time they need.
Fate == {"caught", "missed", "hangs"}

Status == {"none", "survived", "killed", "error", "timeout", "timeout_unverified",
           "skipped_budget", "os_error", "index_error"}

Result == [status : Status, limit : Nat, secs : Nat]
NoResult == [status |-> "none", limit |-> 0, secs |-> 0]

\* A run ends by itself when it is due, unless it hangs.
TestRun == [ends : {"survived", "killed", "error", "hang"}, due : Nat, limit : Nat,
            elapsed : Nat]
NoRun == [ends |-> "hang", due |-> 0, limit |-> 0, elapsed |-> 0]

NoExit == -1

ASSUME MutationAssumption ==
  /\ First \in Worker /\ NoCopy \notin Worker /\ IsFiniteSet(Worker)
  /\ Mutants \in Nat \ {0}
  /\ FileOf \in [Mutant -> File]
  /\ MinRun \in Nat \ {0} /\ MaxRun \in Nat /\ MinRun <= MaxRun
  /\ MinTimeout \in Nat \ {0} /\ Requests \subseteq Nat /\ Budget \in Nat
  /\ MaxEdits \in Nat

VARIABLES
  fate,      \* [Mutant -> Fate]
  phase,     \* where check() is
  checkout,  \* [File -> Content]: the user's working tree
  edits,
  sources,   \* the files as check() has read them
  tree,      \* [Worker -> [File -> Content]]: the copies
  pristine,  \* the manifest of the first copy
  loaded,    \* the slowest passing run seen
  limit,     \* per_mutant
  left,      \* time to the deadline
  next,      \* the next mutant of the executor's queue
  free,      \* copies nobody uses
  job,       \* [Worker -> Mutant \cup {0}]
  copy,      \* the copy a job has taken
  step,      \* where a job is
  run,       \* the test run of a job
  results,
  exit

inputs == <<fate, checkout, edits, sources>>
jobs == <<next, free, job, copy, step, run, results>>
vars == <<inputs, phase, tree, pristine, loaded, limit, left, jobs, exit>>

Larger(a, b) == IF a >= b THEN a ELSE b
Smaller(a, b) == IF a <= b THEN a ELSE b

Durations == MinRun .. MaxRun

-----------------------------------------------------------------------------
(* The copies *)

\* _reset_sandbox: whatever is not as the manifest has it is copied from the
\* checkout again.
Restored(t) ==
  [f \in File |-> IF t[f] = pristine[f] \/ pristine[f] = Absent THEN pristine[f]
                  ELSE checkout[f]]

\* The copying fails where the checkout has lost the file.
CannotRestore(t) ==
  \E f \in File : t[f] # pristine[f] /\ pristine[f] # Absent /\ checkout[f] = Absent

Scribbled(t, S) == [f \in File |-> IF f \in S THEN Touched ELSE t[f]]

Init ==
  /\ fate \in [Mutant -> Fate]
  /\ phase = "copy"
  /\ checkout = [f \in File |-> 0] /\ edits = 0
  /\ sources = checkout
  /\ tree = [w \in Worker |-> [f \in File |-> Absent]]
  /\ pristine = [f \in File |-> Absent]
  /\ loaded = 0 /\ limit = 0 /\ left = 0
  /\ next = 1 /\ free = {}
  /\ job = [w \in Worker |-> 0]
  /\ copy = [w \in Worker |-> NoCopy]
  /\ step = [w \in Worker |-> "idle"]
  /\ run = [w \in Worker |-> NoRun]
  /\ results = [m \in Mutant |-> NoResult]
  /\ exit = NoExit

\* The user, or their editor or git, changes a file of the checkout.
Edit(f) ==
  /\ exit = NoExit /\ edits < MaxEdits
  /\ edits' = edits + 1
  /\ \E c \in {edits + 1, Absent} : checkout' = [checkout EXCEPT ![f] = c]
  /\ UNCHANGED <<fate, phase, sources, tree, pristine, loaded, limit, left, jobs, exit>>

\* _copy_tree, one copy at a time; _manifest of the first when all are made.
Copy(w) ==
  /\ phase = "copy" /\ w \notin free
  /\ tree' = [tree EXCEPT ![w] = checkout]
  /\ free' = free \cup {w}
  /\ IF free' = Worker
       THEN phase' = "baseline" /\ pristine' = tree'[First]
       ELSE UNCHANGED <<phase, pristine>>
  /\ UNCHANGED <<inputs, loaded, limit, left, next, job, copy, step, run, results, exit>>

\* check() raises: the process ends with the code.
Stop(code) == exit' = code /\ phase' = "done"

\* Every test run may scribble over its copy, which is then restored.
Baseline ==
  /\ phase = "baseline"
  /\ \E S \in SUBSET File :
       LET t == Scribbled(tree[First], S)
       IN IF CannotRestore(t)
            THEN Stop(2) /\ UNCHANGED <<tree, loaded>>
            ELSE /\ tree' = [tree EXCEPT ![First] = Restored(t)]
                 /\ \/ /\ loaded' \in Durations
                       /\ phase' = IF Cardinality(Worker) > 1 THEN "calibrate" ELSE "limit"
                       /\ UNCHANGED exit
                    \/ Stop(2) /\ UNCHANGED loaded
  /\ UNCHANGED <<inputs, pristine, limit, left, jobs>>

\* The unmutated suite in every copy at once.
Calibrate ==
  /\ phase = "calibrate"
  /\ \E S \in [Worker -> SUBSET File] :
       IF \E w \in Worker : CannotRestore(Scribbled(tree[w], S[w]))
         THEN Stop(2) /\ UNCHANGED <<tree, loaded>>
         ELSE /\ tree' = [w \in Worker |-> Restored(Scribbled(tree[w], S[w]))]
              /\ \/ /\ \E d \in Durations : loaded' = Larger(loaded, d)
                    /\ phase' = "limit"
                    /\ UNCHANGED exit
                 \/ Stop(2) /\ UNCHANGED loaded
  /\ UNCHANGED <<inputs, pristine, limit, left, jobs>>

\* mutant_timeout, and the deadline.
SetLimit ==
  /\ phase = "limit" /\ phase' = "run"
  /\ \E q \in Requests :
       limit' = IF q # 0 THEN q ELSE Larger(MinTimeout, 3 * loaded)
  /\ left' = Budget
  /\ UNCHANGED <<inputs, tree, pristine, loaded, jobs, exit>>

-----------------------------------------------------------------------------
(* The jobs *)

Failures == {m \in Mutant : results[m].status \in {"os_error", "index_error"}}

\* A thread takes the next mutant; past the deadline it is not run.
Begin(t) ==
  /\ phase = "run" /\ step[t] = "idle" /\ next <= Mutants
  /\ next' = next + 1
  /\ IF left = 0
       THEN /\ results' = [results EXCEPT ![next].status = "skipped_budget"]
            /\ UNCHANGED <<job, step>>
       ELSE /\ job' = [job EXCEPT ![t] = next]
            /\ step' = [step EXCEPT ![t] = "take"]
            /\ UNCHANGED results
  /\ UNCHANGED <<inputs, phase, tree, pristine, loaded, limit, left, free, copy, run, exit>>

\* The job raises: its copy is not given back.
Fail(t, status) ==
  /\ results' = [results EXCEPT ![job[t]].status = status]
  /\ job' = [job EXCEPT ![t] = 0]
  /\ copy' = [copy EXCEPT ![t] = NoCopy]
  /\ step' = [step EXCEPT ![t] = "idle"]
  /\ run' = [run EXCEPT ![t] = NoRun]

\* What a mutant's run starts from, next to the mutant itself.
Others(t) == [tree[copy[t]] EXCEPT ![FileOf[job[t]]] = sources[FileOf[job[t]]]]

\* How a run may end, and when: the tests judge the mutant if the rest of the
\* copy is what the baseline was run on; the runner may always fail.
Outcomes(m, clean) ==
  [ends : {"survived"}, due : IF clean /\ fate[m] # "missed" THEN {} ELSE Durations]
  \cup [ends : {"killed"}, due : IF clean /\ fate[m] # "caught" THEN {} ELSE 1 .. MaxRun]
  \cup [ends : {"hang"}, due : IF clean /\ fate[m] # "hangs" THEN {} ELSE {0}]
  \cup [ends : {"error"}, due : {1}]

\* A copy is taken from the free ones, which may have run out.
Take(t) ==
  /\ step[t] = "take"
  /\ \/ /\ free = {}
        /\ Fail(t, "index_error")
        /\ UNCHANGED <<tree, free>>
     \/ \E c \in free :
          /\ free' = free \ {c}
          /\ IF tree[c][FileOf[job[t]]] = Absent
               THEN Fail(t, "os_error") /\ UNCHANGED tree
               ELSE /\ copy' = [copy EXCEPT ![t] = c]
                    /\ tree' = [tree EXCEPT ![c][FileOf[job[t]]] = Mutated]
                    /\ step' = [step EXCEPT ![t] = "start"]
                    /\ UNCHANGED <<job, run, results>>
  /\ UNCHANGED <<inputs, phase, pristine, loaded, limit, left, next, exit>>

\* Bug: the limit ignores the deadline.
CutLimit_Uncut == limit

CutLimit == Larger(1, Smaller(limit, left))

Start(t) ==
  /\ step[t] = "start"
  /\ step' = [step EXCEPT ![t] = "run"]
  /\ \E o \in Outcomes(job[t], Others(t) = pristine) :
       run' = [run EXCEPT ![t] =
         [ends |-> o.ends, due |-> o.due, limit |-> CutLimit, elapsed |-> 0]]
  /\ UNCHANGED <<inputs, phase, tree, pristine, loaded, limit, left, next, free, job, copy,
                 results, exit>>

Ends(r) == r.ends # "hang" /\ r.elapsed = r.due
TimesOut(r) == r.elapsed = r.limit

\* Bug: the copy is given back before it is reset.
Finish_GivesBack(t) ==
  /\ step[t] = "run"
  /\ step' = [step EXCEPT ![t] = "reset"]
  /\ \E s \in Status :
       /\ \/ s = run[t].ends /\ Ends(run[t])
          \/ s = "timeout" /\ TimesOut(run[t])
       /\ results' = [results EXCEPT ![job[t]] =
            [status |-> s, limit |-> run[t].limit, secs |-> run[t].elapsed]]
  /\ \E S \in SUBSET File : tree' = [tree EXCEPT ![copy[t]] = Scribbled(@, S)]
  /\ run' = [run EXCEPT ![t] = NoRun]
  /\ free' = free \cup {copy[t]}
  /\ UNCHANGED <<inputs, phase, pristine, loaded, limit, left, next, job, copy, exit>>

\* The run is over, one way or the other, and may leave the copy scribbled over.
Finish(t) ==
  /\ step[t] = "run"
  /\ step' = [step EXCEPT ![t] = "reset"]
  /\ \E s \in Status :
       /\ \/ s = run[t].ends /\ Ends(run[t])
          \/ s = "timeout" /\ TimesOut(run[t])
       /\ results' = [results EXCEPT ![job[t]] =
            [status |-> s, limit |-> run[t].limit, secs |-> run[t].elapsed]]
  /\ \E S \in SUBSET File : tree' = [tree EXCEPT ![copy[t]] = Scribbled(@, S)]
  /\ run' = [run EXCEPT ![t] = NoRun]
  /\ UNCHANGED <<inputs, phase, pristine, loaded, limit, left, next, free, job, copy, exit>>

\* Bug: the copy of a mutant that timed out is not given back.
Reset_Leaks(t) ==
  /\ step[t] = "reset"
  /\ LET back == [tree[copy[t]] EXCEPT ![FileOf[job[t]]] = Touched]
     IN /\ ~CannotRestore(back)
        /\ tree' = [tree EXCEPT ![copy[t]] = Restored(back)]
        /\ free' = IF results[job[t]].status = "timeout" THEN free ELSE free \cup {copy[t]}
        /\ job' = [job EXCEPT ![t] = 0]
        /\ copy' = [copy EXCEPT ![t] = NoCopy]
        /\ step' = [step EXCEPT ![t] = "idle"]
        /\ UNCHANGED <<run, results>>
  /\ UNCHANGED <<inputs, phase, pristine, loaded, limit, left, next, exit>>

\* The source is written back, the copy reset and given back.
Reset(t) ==
  /\ step[t] = "reset"
  /\ LET back == [tree[copy[t]] EXCEPT ![FileOf[job[t]]] = Touched]
     IN IF CannotRestore(back)
          THEN Fail(t, "os_error") /\ UNCHANGED <<tree, free>>
          ELSE /\ tree' = [tree EXCEPT ![copy[t]] = Restored(back)]
               /\ free' = free \cup {copy[t]}
               /\ job' = [job EXCEPT ![t] = 0]
               /\ copy' = [copy EXCEPT ![t] = NoCopy]
               /\ step' = [step EXCEPT ![t] = "idle"]
               /\ UNCHANGED <<run, results>>
  /\ UNCHANGED <<inputs, phase, pristine, loaded, limit, left, next, exit>>

\* A second passes, once every run that is over has been noticed.
Tick ==
  /\ phase = "run"
  /\ left > 0 \/ \E t \in Worker : step[t] = "run"
  /\ \A t \in Worker : step[t] = "run" => ~Ends(run[t]) /\ ~TimesOut(run[t])
  /\ left' = Larger(0, left - 1)
  /\ run' = [t \in Worker |-> IF step[t] = "run" THEN [run[t] EXCEPT !.elapsed = @ + 1]
                              ELSE run[t]]
  /\ UNCHANGED <<inputs, phase, tree, pristine, loaded, limit, next, free, job, copy, step,
                 results, exit>>

-----------------------------------------------------------------------------
(* The verdict *)

\* Bug: timeouts are judged by the limit they should have had.
Judged_FullLimit(r, base) ==
  [m \in Mutant |-> IF r[m].status = "timeout" /\ 3 * base > limit
                    THEN [r[m] EXCEPT !.status = "timeout_unverified"] ELSE r[m]]

\* A timeout stays a kill if its limit was three times the baseline.
Judged(r, base) ==
  [m \in Mutant |-> IF r[m].status = "timeout" /\ 3 * base > r[m].limit
                    THEN [r[m] EXCEPT !.status = "timeout_unverified"] ELSE r[m]]

AllUnverified(r) ==
  [m \in Mutant |-> IF r[m].status = "timeout"
                    THEN [r[m] EXCEPT !.status = "timeout_unverified"] ELSE r[m]]

Has(r, status) == \E m \in Mutant : r[m].status = status

\* Bug: mutants that were not run do not count.
ExitCode_Unrun(r) ==
  IF Has(r, "survived") THEN 1
  ELSE IF Has(r, "error") \/ Has(r, "timeout_unverified") THEN 3 ELSE 0

\* main, after check() has returned.
ExitCode(r) ==
  IF Has(r, "survived") THEN 1
  ELSE IF Has(r, "error") \/ Has(r, "timeout_unverified") \/ Has(r, "skipped_budget")
       THEN 3 ELSE 0

\* The times of the passing runs.
Passing == {loaded} \cup {results[m].secs : m \in {n \in Mutant : results[n].status = "survived"}}

\* All jobs are over: the first that raised decides, if one did; an OSError is
\* caught in main, an IndexError is not.
Collect ==
  /\ phase = "run"
  /\ \A t \in Worker : step[t] = "idle"
  /\ next > Mutants \/ Failures # {}
  /\ IF Failures # {}
       THEN /\ LET first == CHOOSE m \in Failures : \A n \in Failures : m <= n
               IN Stop(IF results[first].status = "os_error" THEN 2 ELSE 1)
            /\ UNCHANGED <<loaded, results>>
       ELSE /\ \E base \in Passing :
                 /\ \A s \in Passing : s <= base
                 /\ loaded' = base
                 /\ results' = Judged(results, base)
            /\ IF Has(results', "timeout")
                 THEN phase' = "control" /\ UNCHANGED exit
                 ELSE Stop(ExitCode(results'))
  /\ UNCHANGED <<inputs, tree, pristine, limit, left, next, free, job, copy, step, run>>

\* confirm_timeouts: the unmutated suite once more; if it does not pass no
\* timeout counts.
Control ==
  /\ phase = "control"
  /\ IF CannotRestore(tree[First])
       THEN Stop(2) /\ UNCHANGED <<tree, loaded, results>>
       ELSE /\ tree' = [tree EXCEPT ![First] = Restored(@)]
            /\ \/ \E d \in Durations :
                    /\ loaded' = Larger(loaded, d)
                    /\ results' = Judged(results, loaded')
               \/ UNCHANGED loaded /\ results' = AllUnverified(results)
            /\ Stop(ExitCode(results'))
  /\ UNCHANGED <<inputs, pristine, limit, left, next, free, job, copy, step, run>>

JobStep(t) == Begin(t) \/ Take(t) \/ Start(t) \/ Finish(t) \/ Reset(t)

Check ==
  \/ \E w \in Worker : Copy(w)
  \/ Baseline \/ Calibrate \/ SetLimit \/ Collect \/ Control

Done == phase = "done" /\ UNCHANGED vars

Next == Check \/ (\E t \in Worker : JobStep(t)) \/ Tick \/ (\E f \in File : Edit(f)) \/ Done

Spec == Init /\ [][Next]_vars

-----------------------------------------------------------------------------
(* Properties *)

Types ==
  /\ fate \in [Mutant -> Fate]
  /\ phase \in {"copy", "baseline", "calibrate", "limit", "run", "control", "done"}
  /\ checkout \in [File -> Version \cup {Absent}] /\ edits \in Version
  /\ sources \in [File -> Version]
  /\ tree \in [Worker -> [File -> Content]]
  /\ pristine \in [File -> Version \cup {Absent}]
  /\ loaded \in Nat /\ limit \in Nat /\ left \in Nat
  /\ next \in 1 .. Mutants + 1
  /\ free \subseteq Worker
  /\ job \in [Worker -> Mutant \cup {0}]
  /\ copy \in [Worker -> Worker \cup {NoCopy}]
  /\ step \in [Worker -> {"idle", "take", "start", "run", "reset"}]
  /\ run \in [Worker -> TestRun]
  /\ results \in [Mutant -> Result]
  /\ exit \in {NoExit, 0, 1, 2, 3}

\* No copy gets lost unless a job has raised.
CopiesKept ==
  phase = "run" /\ Failures = {} => Worker \subseteq free \cup {copy[t] : t \in Worker}

\* Types; a job has a mutant; and every copy is free or taken by a job unless a
\* job has raised, so that no thread finds the pool empty (check.job).
TypeOK ==
  /\ Types
  /\ \A t \in Worker : step[t] = "idle" <=> job[t] = 0
  /\ CopiesKept

\* Nobody touches the checkout during the check, and the load never makes a
\* passing run three times as slow as another one.
Undisturbed == edits = 0 /\ MaxRun < 3 * MinRun

\* "a mutant that times out has provably hung instead of just running on a busy
\* machine" (mutant_timeout): on a machine whose load is steady no mutant that
\* the tests do not notice is ever counted as killed, however its limit was cut.
NoFalseKill ==
  Undisturbed /\ phase = "done" =>
    \A m \in Mutant : results[m].status \in {"killed", "timeout"} => fate[m] # "missed"

\* "0 every mutant killed": the check passes only if every mutant was run and
\* judged, so the tests notice them all.
PassIsEarned == Undisturbed /\ exit = 0 => \A m \in Mutant : fate[m] # "missed"

\* Whatever goes wrong, a copy is with one job at most, and not among the free
\* ones meanwhile.
OwnCopy ==
  \A t \in Worker : step[t] \in {"start", "run", "reset"} =>
    /\ copy[t] \in Worker \ free
    /\ \A u \in Worker \ {t} : copy[u] # copy[t]

\* "never run past the budget" (job): whatever the limit was, no run goes on for
\* more than a second when the budget is spent.
WithinBudget ==
  \A t \in Worker : step[t] = "run" => run[t].limit - run[t].elapsed <= Larger(1, left)
=============================================================================
