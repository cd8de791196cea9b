# A verification project for goodfellow

These are TLA+ modules for the parts of goodfellow that keep state, run
concurrently or must survive a crash; TLC configurations that check them on
small instances; and theorems about them that TLAPS checks for every instance.
All paths below are relative to the repository (`src/` stands for its root).

1. The system
2. Modules and code
3. The runs: what each checks, its bounds, and what it shows
4. Fairness
5. Proofs
6. Where the code and its documentation disagree
7. What is not modelled
8. Plan

To repeat the checks: `tlc -config X.cfg M` for each row of section 3 (the module
is given there), and `tlapm M.tla` for the eight modules whose name ends in
`Proofs`.

## 1. The system

goodfellow is a plugin for a coding agent: skills (prose that drives a language
model) and Python tools that the skills, git hooks and CI call. There is no
server. Everything is a short-lived command, and what connects commands is files
under `.goodfellow/`, exit codes, and, inside one command, threads and child
processes. So the hard behaviours are those of many short processes over shared
files: they interleave, die at any instruction, are retried, and outlive or are
outlived by what they start.

| Component | State it keeps | Operations | Interacts with |
|---|---|---|---|
| Rich memory backend, `scripts/memory_index.py` | `memory/<name>.md` facts, rendered `MEMORY.md`, `.journal.jsonl`, sentinels `.dirty` and `.migrating`, flock `.lock`; reads `knowledge.md` | write, promote, delete, rollback, rollback by number, recover, regenerate, migrate, read | itself in other processes; people editing facts; session start |
| Loop store, `scripts/loop_store.py` | `loops.json`, flock | add, close, update-triage, list | triage, lens tuning |
| Triage, `skills/triage`, `scripts/triage_helper.py` | `triage-log.jsonl` (append only) | survey, decide, apply, log | loop store |
| Lens tuning, `scripts/lens_tuning.py` | none | join of loops and log, report | both files |
| Process groups, `scripts/proc_group.py` | table of live groups, a lock | run, kill_all, sweep_cwd, signal handlers | the kernel; mutation and red check |
| Mutation check, `scripts/mutation_check.py` | copies of the checkout, pool of them, results | scan of what the code does, consent, baseline, calibrate, mutant jobs, reset, judge timeouts, control run, exit code | process groups, sandbox, the user's checkout |
| Red check, `scripts/red_check.py` | two copies of the checkout | replay a test with and without the change, classify | process groups, sandbox |
| Sandbox, `scripts/sandbox.py` | none (a command prefix) | choose mode, wrap, detect failure | both checks |
| Review bridge, `scripts/codex-bridge.sh`, `review_judge.py`, `judge_decision_validator.py` | files of one review | generate, publish, judge, ground or drop, mark as unjudged | models, through the shell; ship and review skills |
| Review pre-pass and context | worktree, byte budgets | analyse, assemble | the bridge |
| Convergence, delta, risk tier | none | pure decisions on rounds, commits, paths | ship and review skills |
| Ship, `skills/ship` | the branch, the last reviewed commit, round and gate counters | classify, review rounds, final-head check, open the pull request | all of the above, git |
| Guard engine and stop list, `scripts/guard_engine.py`, `scripts/stop_list.py`, `hooks/hooks.json` | none; reads `guards.json`, the environment, git's settings | judge a tool call before it runs (let it go on, ask, deny), print the guard set, compare it with a snapshot | the agent, the user's confirmation, git |
| Principles, egress scrub, release tooling, session start, shell helpers | none | parsing and printing | - |

What makes each correct, and is hard to get right:

- *Memory.* A reader without the lock never trusts a stale index. A mutation is
  atomic although it is six file operations. Recovery always succeeds unless a
  person interfered. A number is never reused. Undo undoes one thing. A migration
  loses and repeats nothing. No call waits for a lock it holds itself.
- *Loops and triage.* Two sessions' writes add up. What is logged is applied. The
  cap on "still unclear" binds although the count is read minutes before it is
  written. A loop is credited with its own latest decision, although integer
  ids come back after a reset and old records carry no uuid.
- *Process groups.* Nothing a command starts inside its group outlives the call.
  A kill never hits another process. A termination signal kills what is
  registered and ends the tool.
- *Mutation check.* Slow is never counted as killed. A pass means every mutant
  was run and noticed. Concurrent mutants never share a copy. The budget binds. Code that
  acts on the machine is mutated only with the user's consent.
- *Red check.* OK means that the test fails on the base for the right reason and passes
  on head, whatever the runs before left behind; exit code 0 lets no new test slip
  through that the runner does not hide; every way out cleans up; tests run unisolated only knowingly.
- *Review and ship.* No finding disappears between the generator and the artifact, none
  that was dropped comes back, unjudged findings are not returned as judged ones. A pull
  request opens only with content that a review was shown, and with no known blocker left.
- *Guard.* What a rule forbids does not run, also where the stop list would only ask. What a push
  will write is predicted from settings that override one another; what is let pass unasked
  does nothing on the stop list. A snapshot that compares equal means unchanged decisions.

`PROJECT.json` lists every component with its status and every hazard with its
line and the properties that cover it, or why none does.

## 2. Modules and code

### MemoryStore (`scripts/memory_index.py`)

A step is one atomic file operation (`os.replace`, `unlink`), so a `Crash` may fall
between any two of them. The variables are the files and the locals of the
calls:

| Variable | In the code |
|---|---|
| `facts` | the fact files; a content stands for its hash, sha256 being injective |
| `index` | `MEMORY.md`, as the facts it was rendered from |
| `newer` | fact files with an mtime later than the index |
| `dirty`, `migrating` | the sentinels |
| `journal` | records with sequence number, both images, and the `committed` flag |
| `lock`, `pc`, `op`, `work` | the flock and the call in progress |

The actions follow the call: `Begin`, `Acquire`, recovery of dangling intents,
the choice of the mutation (its arguments are chosen where they are first used),
the sentinel, the journaled intent, the fact, render, publish, `.dirty` removed,
commit. Migration converts one entry per step, in any order, under `.migrating`.
`ReadFast` is the lock-free read, and a read that sees a sentinel or a
newer fact repairs the index under the lock. Edits by hand are `Edit`.

What a rollback intent is to restore it says itself; one by an early version says nothing, and recovery
takes the pre-image of the record it undoes (`Restored`).

Abstractions, each chosen so that the model has at least the behaviours of the code:
the byte budget of the journal drops any number of old records beyond
`MinKept`; an exception that leaves a call is a `Crash` (the lock is released and
nothing more is done); a crash of the machine is the same, because files are
fsynced before the rename. `knowledge.md` does not change. `MaxSeq` and
`MaxEdits` are bounds.

`FactHistory` is what the backend promises: named facts that change
atomically, and a window of mutations each of which can be undone while no
later one of its fact is in force. `MemoryRefinement` states that MemoryStore
implements it. The window is computed from the journal and the facts: an intent counts
from the moment its fact file shows it.

`MemoryLegacy` starts the store from what the single-phase version of the journal
left behind: any number of its records, each of which starts from an image of the one before on the
same fact, and the fact at an image of the last. Recovery judges only the last of each fact, so
these may dangle, several of them side by side; the window of `MemoryRefinement` counts the others as landed, as the code does.
`EarlierSpec` starts from undos too: of the single-phase version, which journaled an undo when it was made, and of the first
two-phase version, whose intent does not say what to restore; and from journals whose head retention has cut.

### LoopTriage (`scripts/loop_store.py`, `scripts/triage_helper.py`, `scripts/lens_tuning.py`, `skills/triage`)

Adds and decisions are a read (`Acquire`) and a write under the flock; a triage
session surveys without the lock, decides, applies, then logs, and may die
anywhere, also in the middle of a line. uuids are minted lazily by whichever write
comes first. The ghost `who` is a loop's identity, which the code lacks
before it mints a uuid; the properties need it to say "own". `LoopLedger` is what the store promises
its sessions: one list, of which a command changes one loop at once, and uuids that are never given twice; `LoopRefinement` states that
LoopTriage implements it where there is a flock. Reviewers' verdicts
are one free choice. Resets of `loops.json` fall between sessions.

### ProcGroup (`scripts/proc_group.py`)

Threads run `Popen`, register, wait, kill, reap, sweep, unregister, one step each.
Handlers of termination signals run nested on the main thread, which is stopped
meanwhile. The process table is the environment: commands fork, leave
their group, leave the sandbox, exit; strangers take free pids. The kernel is
the usual one: a group id is not handed out while the group has members, a zombie
keeps its pid, SIGKILL hits a whole group at once.

### MutationCheck (`scripts/mutation_check.py`)

`check()` from the copies to the exit code. Worker threads take a mutant from the
queue and a copy from the pool, write the mutant, run the tests, write
the source back, reset the copy and give it back; each of these may fail. `Tick`
is a second of the clock: a passing run takes `MinRun` to `MaxRun` seconds, limits
and the budget are in the same unit. Tests may scribble over their copy. A person,
an editor or git may change the checkout (`Edit`), which the resets
copy from. What the tests would say of a mutant given enough time is `fate`,
which only the properties and the test runs look at.

`MutationMain` extends it with what comes before, in `main` and the first half of `check()`: the
PID namespace for `--isolated` without a sandbox (in which the check starts anew), the list of
targets, the scan of each for calls that act on processes or files, the choice of the sandbox,
the consent, and the second reading that the mutants are made of. A text is what the scan finds in
it and whether it parses. `Change` is somebody else's edit of a target between the two readings.
Behind `Go` the steps are those of `MutationCheck`, and the variables of the entry go back to
fixed values, as nothing looks at them any more.

### RedCheck and Sandbox (`scripts/red_check.py`, `scripts/sandbox.py`)

`main` and `check`: the refusals before anything is made, the copy of the checkout, the run
on it, the worktree of the merge base, the run of the base's own files (for errors that
were there before), the run of the new files on the base, and the way out through the
`finally` block, each step of which may fail. A run reports a subset of the tests with an
outcome each and exits with any code; it may leave tests out, stop early, report nothing, or hang. A report in which nothing
failed is refused if the code is not 0, and taken as it is otherwise. A test's outcome on clean ground
is chosen once (`real`); `left` says where tests have left something behind, in the copy
of the base or outside, and a test that finds something there may fail. A reset command cleans it
before each run. `Create` (`Sandbox`) decides from the environment, the installed binary and
the probe between a sandbox, none, and a refusal.

### Review and Ship (`scripts/codex-bridge.sh` and the scripts it and `skills/ship` call)

`ReviewJudge` has the operators of ground-or-drop: the generator's contract, the table's
validity, the fate of each finding, and the layout test that keeps a dropped finding's heading
from surviving. A finding is a block with its id, severity, flag and the number of
headings in the gap before it. `ReviewBridge` is one run of the script: a stage per
command, each with its failures; `exit` is the path that the caller gets, or the class of a
failure. `Review` is what the bridge promises its caller, in four steps: a review is asked for, fails and gives nothing,
or gives a whole text at once, and is taken. The text is what the reviewer wrote, marked as not judged, or
each finding has a decision of its own that says what became of it; `ReviewRefinement` states that the bridge
in `Ship` implements it. `Convergence` and `Tier` are operators. `ReviewDelta` models what the code asks of
git: a commit is a tree with the version of the base branch that it contains; a file is a
few places with a hunk each, and a patch-id sees the hunks and not their places, which is the
confusion that the byte comparison is there for.

`Ship` composes them. Its phases are the skill's sections: the tier, rounds over the whole
branch until `Convergence` ends them, the check of the final head over what `ReviewDelta`
finds unreviewed, repairs, the pull request or a halt. Between reviews the agent commits,
rewrites the branch on the base's newest version, or merges it with any content, as git or a hand would; none of this happens while the
bridge runs, because the agent waits for it. `shown` is a ghost: the content of each
file that some completed review compared with something else. A review that fails halts.

### GuardEngine, StopList and GitPush (`scripts/guard_engine.py`, `scripts/stop_list.py`, `hooks/hooks.json`)

`GitPush` is git: which refs of which remote a push may write, by its options, its refspecs or the
configured ones, `push.default`, the upstream, tags and `followTags`; a destination may be short, in full, or
begin at `heads/` or `tags/`. It is modelled from what
`stop_list.py` takes from git and is external. `StopList` is what the hook predicts of that: operator by
operator the parsing of a push, the choice of the remote, the refspecs in force, their targets, and
the four stops. Each query of git may fail, and is then taken for a setting that is not there (`GitOut`); which ones
do in a call is chosen when it is judged (`lost`, from `Outages`). `GuardEngine` is one tool call: `Request` (the hook runs for the tools
that `hooks.json` names), `Load` of `guards.json`, `CheckRules` with the worker that may run out of time or
die, `Judge`, the user's `Confirm`, and the command, segment by segment, one of which may switch the
branch. Meanwhile somebody else checks out another branch, between calls somebody edits the file, and a
new session has another environment. Beside it, `Selfcheck` takes a snapshot of the guard set and `GuardSetIntact`
is the comparison. Texts and patterns are abstract: a rule has the texts it hits and those on which
its regex does not end. A command is given as its segments, with the depth of `sh -c` each is in.

### MC modules

`MCMemoryStore`, `MCMemoryLegacy`, `MCLoopTriage`, `MCProcGroup`, `MCMutationCheck`,
`MCRedCheck`, `MCShip`, `MCGuard` declare model values and the functions over them that
a `.cfg` cannot write, and symmetry sets.

Operators named `X_Something` with a comment that begins "Bug:" are the mutants
of `PROJECT.json`: `X` as a plausible mistake would have it. No specification uses
them. Each property has one that breaks it.

## 3. The runs

| Run (module) | Question | Bounds and why they are enough |
|---|---|---|
| MemoryCrash (MCMemoryStore) | Two processes, every command but migrate, crashes, one hand edit. `FastPathFresh`: an index taken without the lock equals the facts. `OneIntentInFlight`, `AcknowledgedIsPublished`, `WriteAhead`: no fact changes but under an open intent with both its images. | Two facts and two mutations let one be dangling while the other is asked for. The journal keeps 2 records, so retention runs. One edit reaches the unresolvable case, and all calls that fail closed on it. |
| MemoryUndo (MCMemoryLegacy) | One process with crashes, `.dirty` that cannot be written, and a start from an empty store or what earlier versions left. `NeverWedged`, `JournalExplainsFacts`, `SeqNeverReused`, and `ImplementsHistory`. | Four records in a journal of three: undo of undo, an undo whose target has left the journal, and a number used again if numbers came from the length of the journal. Starts: one old record, or an undo of either earlier version with or without the mutation it undoes. |
| MemoryMigrate (MCMemoryStore) | Two entries that want one name, migrated by the command and inside a write, with crashes and restarts. `MigrationComplete`, `FallbackHidesNothing`, and under fairness `CallsEnd`. | Three names: both entries and a collision with a written fact. |
| MemoryWedge (MCMemoryStore) | Violation: `NeverWedged` with the migrate command among the commands. See 6. | |
| LoopTriage (MCLoopTriage) | One triage session and one that adds, crashes, a torn line, a reset, a start from a store without uuids. `LoggedIsApplied`, `UnclearCounted`, `JoinOwnLatest`, and `ImplementsLedger`: whatever is read when, the store is one list changed by one command at a time. | Two loops before and after a reset share an integer id; four records reach the cap of three and one more. |
| ProcGroup (MCProcGroup) | Main thread and a worker run one command each with sweeps; one signal at any point. `NothingOutlives`, `Tracked`, `RegisteredKilled`. | Four pids: two leaders, a fork and a daemon or a stranger. `MaxKills = 2` is exceeded by three processes. |
| ProcLive (MCProcGroup) | The main thread only waits, as the mutation check's does, and pids are handed out again at once. `SignalEnds`: a termination signal ends the tool. `TimeoutHitsOwn`: the kill after a timeout hits no other process. | Two workers hold the lock at every point. Two pids: every id is somebody else's soon. No sweep. |
| ProcHang (MCProcGroup) | Violation: `SignalEnds` when the main thread itself runs a command. See 6. | |
| MutationCheck (MCMutationCheck) | From the command line on (`MainSpec`). `KnowinglyMutated`: what is mutated was agreed to. `NoFalseKill`, `PassIsEarned`, `OwnCopy`, `WithinBudget`; `TypeOK` contains that no copy is lost unless a job failed. | Every flag, every setting of the sandbox with the binary there or not, one that leaks and one mistyped, two files that do nothing, act on processes, act on files or do not parse. Runs of 1 or 2 seconds, a floor of 3, a requested limit of 2, a budget of 4: limits are generous, too short, or cut. Two files and one change of the checkout reach failing resets and an empty pool. |
| RedCheck (MCRedCheck) | Every option, reset, exit code and failure on machines with a sandbox, without one, and with one that does not isolate. `OkIsEarned`, `NothingSlips`, `CleansUp`, `IsolatedOrKnowingly`. | Two new tests in two files and an old one in the second: one new test takes each kind of outcome on the base, the other can be skipped on head, and the old one's failure can end a run early. A second test per kind would add nothing, as tests meet only through what they leave behind and through the early stop. |
| Ship (MCShip) | `NothingVanishes`, `NoResurrection`, `ImplementsReview` of the bridge: what its caller sees is `Review`, whichever stage fails; `AllReviewed`, `NoKnownBlocker`, `LiveIsRehearsed` of the whole. | Two files of two places, two versions of the base and branches of two commits: a rebase whose patches land elsewhere, a reviewed commit rewritten under an unreviewed one. Six texts and eight answers, with each way a text or a table can be malformed that leads somewhere else. Two final-head checks, as the skill allows. |
| Guard (MCGuard) | `ForbiddenNeverRuns`, `UnaskedIsHarmless`, `DriftIsSeen`, with edits of the file, checkouts by others and new sessions at any point. | Each setting of a repository alone and those that meet (a tag to follow and `followTags`, a detached head and a tag on it, configured refspecs and each way to choose another remote) against each kind of push; two branches, two tags and two remotes tell own, other, default and protected apart. Rules by substring and by regex, a switch, a tool outside the matcher, depths at and beyond the limit. Queries of git fail one kind at a time, those about the remote together, or all. Snapshots are followed in the plain repository only, as the guard set does not depend on the repository. |

No run checks a `TypeOK` but MemoryCrash and MutationCheck, whose type invariants contain
more than types (mutual exclusion; no lost copy). Those of LoopTriage, ProcGroup, GuardEngine,
MutationMain and Ship are theorems (section 5), the others document the variables.

Deadlock is checked in the memory, loop, mutation and guard runs. It is off in the
ProcGroup, RedCheck and Ship runs: a check that is done and a branch that is shipped or halted
stop, and so do a tool that has died, or has no commands left to start, and a machine without free pids.

Some properties hold only under a condition which the runs and
proofs make explicit:

- *No edit of a fact while a process holds the lock* (`EditsUnderLock = FALSE` in all
  runs). An editor does not take the flock, and an edit between the
  comparison and the replacement of a file is overwritten. No property
  survives that; it is a limit of compare-and-swap on files.
- *No fact removed by hand* (`Edit` changes or adds one) for `FastPathFresh`. A file that is gone leaves nothing newer than
  the index (`scripts/memory_index.py:1213-1222`), so the index goes on showing it until the next mutation.
- *An undo whose mutation is still on record, or has been made*, in the starts of MemoryUndo: of an intent by the first two-phase version
  without either, recovery says that it cannot be resolved, and the program waits for a person, as its comment says
  (`scripts/memory_index.py:918-921`). The theorems speak of `Spec` and `LegacySpec`; undos by earlier versions are checked by TLC only.
- *`.dirty` can be written* for `FastPathFresh`. The code swallows that error, and a
  delete that dies just behind its unlink then leaves a stale index that looks
  fresh. MemoryUndo lets the write fail and checks what the journal alone restores.
- *Old records that hang together* for `JournalExplainsFacts`: of two records of one fact in a journal of the
  single-phase version, the earlier of which never landed, the code cannot tell what was there before, and the undo of the
  later one makes the earlier the newest. MemoryUndo starts from one record (`MaxLegacy = 1`), the theorem
  from any number that form a chain. No other property needs this.
- *One triager* for `UnclearCounted`: the count is read at the survey, and two
  sessions that survey the same loop count one decision twice and log both.
- *Undisturbed* for `NoFalseKill` and `PassIsEarned`: no edit of the checkout, and
  no passing run three times as slow as another. Without the latter no
  limit tells slow from hung; the factor is the code's own.
- *No pid handed out twice* (`Recycle = FALSE`) for `NothingOutlives`, `Tracked` and `RegisteredKilled`: once a
  leader is reaped and its group empty, its id may be anybody's, and the registry is keyed by it. `RegisteredKilled`
  also needs that *one* termination signal comes (`MaxSignals <= 1`): a second handler finds the registry
  empty and ends the tool before the first has killed its groups. `TimeoutHitsOwn` needs neither.
- *Tidy* (`Untidy = FALSE`) for `OkIsEarned`: without a reset command, tests leave nothing
  behind outside their copy. Nothing in the check protects against tests that do.
- *A runner that does not claim success for a part* (`code = "zero"`) for `NothingSlips`: the check has only the exit code to
  tell a partial report from a complete one (section 6).
- *Not what the base branch once had* (`OfBase`) for `AllReviewed`: a merge may keep, and a commit after it
  restore, what the base branch has changed, and no review is shown it (section 6). Of any other content
  it speaks for merges by hand as well.
- *Targets untouched* between the scan and the second reading, for the part of `KnowinglyMutated`
  that is about what a text does.
- *The repository of the judgement* (`fresh`) for `UnaskedIsHarmless`: a branch switched after the hook
  looked, by another terminal or an earlier segment of the same command, changes what a push writes. The property speaks of
  commands that shlex can split and of segments in at most four nested shells, and names in
  `Overlooked` what the hook does not look at.
- *What failing queries hide* (`Unanswered`), for the same. If git does not say which remote or refs a push without them means, which
  branch the remote's HEAD is, or which tags there are and follow, the hook misses a stop. What holds whatever fails: a forced push
  is asked about, and so is one that names a protected branch, and one that says itself (`--tags`, `refs/tags/`) that it sends tags.
- *A worker that works* for `ForbiddenNeverRuns`: one that cannot be started or dies lets the call go on.
- *The same publish commands, switches of rules and, without a plugin directory, registration*
  for `DriftIsSeen`: the guard set does not contain them. Nor does it contain the matcher of `hooks.json`, which is the same throughout
  the model: `_hook_registered` looks for `guard_engine` in the commands only (`scripts/guard_engine.py:722-726`).

## 4. Fairness

`MemoryMigrate` uses weak fairness of each process's own step, and strong
fairness of `Acquire`: a running process is scheduled, and the kernel hands a
flock to each waiter in the end although others take it in between. Nothing is
assumed of `Begin`, `Crash` or `HandEdit`.

`ProcLive` and `ProcHang` use weak fairness of each thread's and handler's step,
which includes taking the lock; with at most two commands, each of which takes the
lock twice, it cannot be kept from a thread for ever. Nothing is assumed of
commands: that they exit is not needed, as the timeout step is always there.

No other run needs fairness: their properties are safety. Ship and RedCheck assume none, and
do not claim that a review ends.

## 5. Proofs

A theorem holds for every value of the constants that satisfies the module's named
assumption: any number of processes, facts, texts, loops, workers, mutants, any bounds.
The runs of section 3 check the same formulas on small instances.

**MemoryStoreProofs.**
`Typing`: by `TypeInv`, which adds to the types that the journal is sorted
by number, that recovery's list has no duplicates and that the locals of the lock
holder have what its next step needs.
`Numbering` (`SeqNeverReused`): every action leaves the journal alone, marks a record as
committed, or appends one whose number follows the last (`JournalStep`), and what retention
cuts off is at the front, so the greatest number never falls.
`IndexFresh`, `FallbackSafe`: under `DiskObeys` (the first two
conditions of section 3). `Acknowledged` needs the first only: where `.dirty` could not be written, a call that gets as far as its
commit has published all the same. `FastPathFresh` is not inductive: that a
stale index is flagged depends on what the holder of the lock is about to do.
`FreshInv` adds, for the holder at each point, whether `.dirty` is set, whether
what it renders is what the facts are, and whether the index is already current. The step
that matters is that `.dirty` is removed only between publication and commit, while the lock
excludes every other writer.
`CallsAdvance` is the part of `CallsEnd` that is not about fairness. `StepsLeft` bounds what the holder of the lock has still to do:
three steps for each intent that recovery has on its list, one for each entry that is not imported, and the
stages ahead. Each step of the holder makes it smaller, and what the others do without the lock changes neither
it nor the files it depends on, so neither the loop of recovery nor that of a migration goes on for ever. It wants finitely many entries, and nobody who edits
under the lock: deleting imported facts by hand gives a migration new work.

**MemoryJournalProofs.**
`OneIntent` (`OneIntentInFlight`) holds without any condition. `OneInv` says at each point of a call what it knows of the
journal: whoever is about to choose or to journal has found nothing dangling, and whoever is about to change a fact holds the one intent
that dangles (`HolderOne`), so a new intent is always the only one and the newest record.
`AheadOfFacts` (`WriteAhead`, nobody edits under the lock): lemma `Shapes` sorts the steps by what they do to journal and facts. A
step lands the dangling intent, commits it, writes a marker after a write that never landed, journals an intent whose pre-image is the fact,
imports under a free name, is a hand edit, or does none of these.
`Unwedged` (`NeverWedged`, by `AtImage`: facts of dangling records are at one of their images), `Explained` (`JournalExplainsFacts`) and `Implements` follow from these shapes where only the program writes
(`Untouched`: no hand edits, and no migrate command or no entries for it; MemoryWedge shows why). `ChainOf` says that mutations of one fact hang
together, each starting from what the one before left; `Aim`, that an open rollback undoes the newest one of
its fact, or one that retention has dropped with everything older; `Tip`, that the newest one left the fact as it is. `Explained`
wants no entries at all, since an import changes a fact without a record.
For the refinement, lemma `Windows` reads the undo window off what dangles: all mutations in force, but for one that has not
landed and for the target of a rollback that has. Then a landing is `Mutate` or `Undo`, a commit a stutter, a marker, and retention with
each new record, a `Forget` of the oldest.
All theorems about the store are about `LegacySpec` as well as `Spec`, for any number of old records (`MaxLegacy`). An old record carries no
flag and dangles while it is the newest mutation of its fact (`Candidate`), so recovery may have several to settle, and
what it writes about one makes retention drop others that it has still on its list. `Sole`: an open intent dangles alone, an old record may
not. `Settles`: settling one leaves each other dangling, or `Dropped`, and then whatever recovery does about it is about a record that is gone.
`Migrated` (`MigrationComplete`) holds where nothing is rolled back or edited by hand (`ForwardOnly`): a rollback may bring back a
deleted import that a later migration has imported anew. `MigrateInv` says that facts stem from different entries, that no open
record is a rollback, so recovery restores nothing, that an intent leaves its fact the entry it had, and that from the end of the import
to the removal of the sentinel every entry is there; `FreshInv` adds the index.

**LoopTriageProofs.**
`Typing`: with unique ids below the next one, for the store and for every copy
a session has read (`Sound`). `NoLostUpdate`: under the flock loops, closings and uuids stay until the file is deleted. The
invariant `CopyInv` says that between its read and its write a call's copy is still the store,
because whoever else writes would hold the lock.
`Applied` (`LoggedIsApplied`) and `OwnLatest` (`JoinOwnLatest`) come from one invariant, `Identity`.
Under the flock a store only grows until it is deleted (`Grows`: its loops stay, at most one is new, uuids it
mints are unused ones), so ids and uuids are distinct (`Distinct`), every record is about the loop with its id
and about no other loop's uuid (`Spoken`), and what a session has surveyed or decided on is still
there (`Pending`). What remains is a record without a uuid, which reaches any loop that has its number. `Capped` (`UnclearCounted`) adds `Counts`:
what a session knows of a count is what it is, and while a decision is applied but not yet logged the count is ahead of the log, which leaves
room for the record. The count may be further ahead, as a crash there loses a record. It needs one triager at a time.
`OneLedger` (`ImplementsLedger`): by `CopyInv` and `Distinct` the write of an add or a decision is a step of `LoopLedger` from the store as it is,
the deletion of the file is `Delete`, and every other step, a crash included, stutters (`AddIsAdd`, `DecisionIsOne`).

**ProcGroupProofs.**
Every safety property of the ProcGroup runs. `StepQuiet` sorts the steps by what they do to the process table: in most of
them processes only die, are reaped or leave a directory; otherwise one process appears or changes its group.
`Typing` with `Own`: a thread is at work on a run of its own. `Pids`: while no pid is handed
out twice, the id of a run's group is nobody's but its leader's. It gives `NobodyJoins`: what is new in the group
was forked by somebody living in it. So a group that is dead stays dead, which is the heart of `Outliving`
(`NothingOutlives`; its invariant `Gone` follows the leader from the wait through the kill to the reap) and of `Killing`
(`RegisteredKilled`; `Doomed`: a group taken over is still on the handler's list or already dead). `Tracking`: no other run's
registration or removal is under the same id. `Hitting` (`TimeoutHitsOwn`) holds even if pids are recycled at once: `Ours` says that
until the tool waits for the leader, its pid is not free (`ChildStays`), so nobody else's group can have it.
`Advancing` and `HolderGoesOn` are the part of `SignalEnds` that is not about fairness. `StepsLeft` bounds what a thread or handler
has still to do, with five steps for each group a handler has on its list, and each of its steps makes it smaller
while nobody else's adds to it. The second wait, which has no timeout, finds the leader dead (`Reapable`, by `Ours`). And if
the main thread runs no command and one signal comes, whoever holds `_lock` is not interrupted, so it can release it;
ProcHang shows the other case.

**MutationCheckProofs.**
`Typing` and `CopiesApart`: a thread from Start on has a copy nobody else has
(`PoolInv`), a mutant is one job's only (`JobInv`), so a failure stays on record and as long as there
is none all copies are free or taken. Lemma `PoolSuffices` draws the conclusion
by counting: a thread that wants a copy then finds one, so the `IndexError` of an empty
list can only follow another failure.
`EachOnce` states that, and that no thread overwrites what another found: a mutant is judged once,
and its result changes only when the verdict on timeouts or the failing reset of its own copy says so.
`Budgeted`: the time a run has left is at most what the budget has left, or a second.
`SlowIsNotKilled`: `CleanInv` shows that every mutant starts from an unchanged copy
while nobody edits the checkout; then a run of an unnoticed mutant that times out had a
limit of at most `MaxRun`, less than three times any passing run, so `recheck_timeouts`
takes the kill back. It needs the fact that the calibration bounds the baseline
from below (`loaded >= MinRun`) when the timeouts are judged.
`PassesEarned`: exit code 0 leaves only statuses that are kills, and no mutant without a
result; the rest is the theorem before.
About `MutationMain`:
`GoesOn`: `MainSpec => Spec`, step by step, so the theorems above hold of the check as
started from the command line. `OnlyKnowingly`: by `Admission`, which says at each point of the entry what has been
settled: the namespace if one is needed, the sandbox that `Create` gave, that the scanned texts are
those of the checkout while nobody touches it, and the consent for what the scan found.

**RedCheckProofs.**
`CleanedUp`: by `Disk`, what exists at each point; on the way out a worktree is left only with its registration and
something stuck, and `Prune` drops the registration if the directory went. `Isolated`: the mode is the user's own
runner or what `Create` gave. `OkEarned`: by `Clean`, every run starts clean where tests are tidy or a
reset is set, so the reports are what the tests do (`real`). `NoneSlips`: by `Trusted`, which says that a report on head that the
check goes on with came with exit code 0 or has a failure in it; if the code was another, lemma `Accounted` finds for each new test
that is not judged the failure that was in its way, and shows that this failure is excused only if the base's own files report it.

**ShipProofs.**
Every property of the Ship run, and `Typed`. `Telling`: `Told` says what the artifact holds at each stage of the bridge:
nothing, the generator's text, or that text with a banner or with the decisions of a valid table worked in (`Decided`).
From it `NoneLost`, by `DroppedMeans`, which compares `reconcile` with what a drop needs; `Buried`, because
what `reconcile` drops `_decision_removes` removes, and then headings and blocks come in pairs; and `Marked`: what no judge decided on says so.
`OneReview` (`ImplementsReview`): `Made` carries the contract, the origin of the text and whether it is blank from stage to stage, so the last
stage, if it gives a path, is a step `Give` of `Review` (`CheckGives`); a stage before it changes nothing that its caller sees, or fails the review.
`FatesAgree`: the order of cases in `reconcile` comes to the rule that `Review` states without them.
`Unblocked`: `ToldBlocks` says that the reader of an artifact finds each blocker that is not settled, so
the last round or check ends with none, or (`Settled`) the branch is longer than what was reviewed, and `DeltaBase` does not call it reviewed.
`Reviewed`: `Covered` says of the branch as last reviewed, and of the tree that a review in progress compares with, that a
review or the base branch has had each file's content. Lemma `DeltaSound` is the reason: whatever
`delta_base` answers, its tree holds only contents of the base and of the last reviewed commit, and if it asks for no review, that
tree is the branch's. `Rehearsed`: by `ResolveTyped`, no request gets below the floor of live state.

**GuardEngineProofs.**
`UnaskedIsSafe` rests on `PushIsPredicted`: for every repository, every push and every set of failing queries, if `CheckPush` finds
no stop, then what `GitPush` lets the push write needs none, but for `Overlooked` and `Unanswered`. Its parts: hook and git
look at the same remote unless a query about it failed (`SameRemote`), each refspec that git uses is among those the hook considers or the
hook asks (`RefsCovered`), and then per stop (`NoForce`, which no failing query weakens, `NoDefaultBranch`, `NoTag`).
The invariant `Guarded` carries the judgement from the hook to the command: the configuration is still the
one in force, no rule hit, and nothing to ask while the repository is the one that was judged.
`ForbiddenStops` follows from it too. `IntactIsEnough`: the snapshot is the guard set of what it was
taken of (`Anchored`), and equal sets decide alike (`StopDepends`, `AsksDepends`).

Only model-checked: liveness (`CallsEnd`, `SignalEnds`), as leads-to under fairness is out of this prover's reach. That every
call, command and handler comes closer to its end with each of its steps, and that nobody waits for a lock whose holder cannot go on,
is proved (`CallsAdvance`, `Advancing`, `HolderGoesOn`); that it is scheduled, and that whoever waits for a lock gets it in the end, stays with TLC.

## 6. Where the code and its documentation disagree

Each of these is a run that TLC must find violated.

- **MemoryWedge.** "goodfellow only mutates via the journal"
  (`scripts/memory_index.py:858`), but migration writes facts without it, and the migrate
  command does not recover first. A delete dies after its unlink, migrate
  imports an entry under the same name, and the dangling intent matches neither image any
  more: every later mutation raises `UnresolvedRecovery`.
- **ProcHang.** "Kill every live group on exit and on termination signals"
  (`scripts/proc_group.py:66`). The handler takes a lock that is not reentrant on the
  thread that may hold it, and waits for ever.

More that the runs do not single out:

- "Any doubt reviews the whole branch: an unknown SHA, a merge commit in the
  branch, [...] Unmapped is unreviewed" (`scripts/review_delta.py:22-24`). The code asks first whether the
  last reviewed commit is an ancestor, which it is under a merge, and the review
  then compares with that commit. A merge that keeps the old content of a file which the
  base changed does not differ from it there, nor does a commit that restores that content after a merge:
  the pull request undoes the base's change, and no review was shown it. Without `OfBase` TLC finds
  `AllReviewed` violated by it, and this is all that can go unreviewed (theorem `Reviewed`).
- "never mutation-test code that signals, deletes or writes real resources outside a fake or an isolated
  namespace" (`scripts/mutation_check.py:25-26`): the targets are scanned at
  `scripts/mutation_check.py:801` and read again for the mutants at 859, with the sandbox's probe, the consent and git in
  between. A target edited in that time is mutated with calls that nobody was asked about. Without `~touched`
  TLC finds `KnowinglyMutated` violated.
- "an operation that cannot be evaluated is blocked, never silently allowed"
  (`scripts/guard_engine.py:39-41`) holds for the time limit; a regex worker that cannot be started, dies or prints
  nothing useful lets the call go on (546-569), with a warning at most.
- "a tag push (`--tags`, a tag refspec, [...])" is on the stop list (`scripts/stop_list.py:15`), but a destination `tags/v1` is taken for a
  branch: `_is_tag_ref` knows the prefix `refs/tags/` and asks for `refs/tags/tags/v1` (309-315), while git writes `refs/tags/v1`.
- "an operation that cannot be evaluated is blocked" does not hold of git's answers either: a query that fails, or takes longer than ten
  seconds, reads as a setting that is not there (`scripts/stop_list.py:102-109`). `Unanswered` says what that may hide.
- The stop list does not look at `remote.<name>.mirror`, at a `+` in the configured refspecs, at the tags of the
  remote (a short destination that is a tag only there, `v1:v2`), and, where `stop-default-branch` is turned off, at the force
  and the tags of `--mirror` and `refs/tags/*`. `Overlooked` names each.
- The guard set (`--selfcheck`, "assert governance survived the boundary") contains neither `publish_commands` nor whether
  a rule's `bypass_env` is set.

- A rollback that crashes and is completed by *another* command's recovery is not recognised
  by its retry, which undoes a second mutation ("otherwise one retried request would also
  roll back the next unrelated fact", `scripts/memory_index.py:1106-1111`). The client that retries is
  outside the code.
- Resets copy from the live checkout, and the mutated file is reset this way after every
  mutant, so an edited file enters the copies one by one ("so every mutant starts from the
  same state", `scripts/mutation_check.py:596-597`). `NoFalseKill` and `PassIsEarned` assume no edit.
- A generator output of white space passes `-s` (`scripts/codex-bridge.sh:553`), fails the contract, and
  gets a banner, so the last check (656) takes it for a review; its comment (654-655) says that
  such an artifact is treated as failed. `NothingVanishes` holds: there was no finding.

Behaviours the models have and no comment denies: two triage sessions exceed
the cap together; `write`, `delete`, `write` migrates again what was deleted; a
command started while a handler kills survives it; a second signal can end the tool before
the first has killed everything; after a normal end a group id may be a
stranger's when it is killed; a process forked during the sweep's grace period survives the sweep.
In the red check, a missing symbol that any file names on the base also excuses a test of another
file (`SymbolMissing`); a runner that leaves tests out and exits 0, by a selection (`-k`, `-m`) in its settings or because a pipe
hides its code, is believed (`scripts/red_check.py:382`); when an old test's failure stops the run, new tests behind it are not judged although the
exit code may be 0, if the base's own files report the same test; without a reset, what the
run on head leaves affects the runs on the base; a killed check leaves its worktree registered.
In the review, `REVIEW_FAILED` is not printed for failures before the trap is set; a heading behind
the last block is not seen by the layout test; a failing banner command goes unnoticed; an unreadable
version of Codex ends the script; `check_round` calls the cap convergence; findings without a
`defect_class`, which the generator is not asked for, share one class, so two rounds in a row
with findings converge; the tier is not settled again after fixes.
In the guard, a rule for a tool outside the matcher `Bash|Write|Edit` validates and never fires; a malformed file
also resets `protected` and `disabled` to their defaults; a push is judged before the `git switch` or `cd` in
front of it in the same command.

## 7. What is not modelled

- *Memory:* malformed facts and entries (skipped with a warning), torn journal
  lines (the program never tears one), domain registries (folded into the index),
  machines without `fcntl`, two edits within one tick of the file clock.
- *Loops:* descriptive fields, the wording and thresholds of reports, retention of the triage log.
- *Process groups:* `kill_all` at a normal exit (it finds nothing registered).
- *Red check:* the JUnit parser but for what it returns; a checkout edited between the two copies.
- *Sandbox:* mount lists and environment filters.
- *Review and ship:* prompts and wording, the dry-run hook, the second (subagent) reviewer and its verifier,
  elevation by known gotchas, path globs of the tiers, waivers, the cap of one round for prose, delivery after the pull request.
- *Mutation check:* which files, lines and mutants are chosen, and the sample of them (a free choice of whether
  there are any); what the scan sees in a syntax tree (a free choice per text); rounding of times to a tenth of a second.
- *Guard engine:* splitting a command into segments and words, aliases, functions, scripts and `GIT_*` variables
  in front of a push, how patterns match texts, and the heuristic by which `--validate` warns of slow patterns.
- *Review pre-pass and context, principles context:* one pass over a revision with printed output; the hazards are
  in what external analyzers print and in byte limits on text. A failing `git rev-parse` in `_should_materialize`
  (`scripts/review_prepass.py:450`) falls back to analyzing the worktree in place, and a worktree edited between the check for
  dirty paths and the analyzers is analyzed as edited.
- *Hazards seen and left aside*, as no model here would say more than the code: a sweep that signals pids read from
  `/proc` earlier (`scripts/proc_group.py:245`), fact files edited within one tick of the clock
  (`scripts/memory_index.py:1211`), facts compared and replaced under an editor that takes no lock (1163), a machine slow for one
  mutant only (`scripts/mutation_check.py:703`), errors of several files joined in one note (`scripts/red_check.py:432`; section 6), a session that outlives a reset and addresses loops by integer (`scripts/loop_store.py:156`).
- *Parsing and printing* (principles, egress scrub, release tooling, session start, shell
  helpers, skills as prose): no state, or out of TLC's reach.

## 8. Plan

In order of what failure would cost; the first seven are done.

1. `MemoryStore`, with `FactHistory` as its abstract specification.
2. `LoopTriage`.
3. `ProcGroup`.
4. `MutationCheck`.
5. `RedCheck` with `Sandbox`.
6. `ReviewJudge`, `ReviewBridge`, `ReviewDelta`, `Convergence`, `Tier`, composed in `Ship`; `Review` as what the bridge promises.
7. `GuardEngine` with `StopList` and `GitPush`, and `MutationMain` in front of `MutationCheck`.
8. The worktree and byte budgets of the review pre-pass; retention of the triage log.

