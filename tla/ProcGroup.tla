----------------------------- MODULE ProcGroup ------------------------------
(***************************************************************************)
(* Commands run in process groups of their own (scripts/proc_group.py):    *)
(* worker threads start a command, register its group, wait for it, kill   *)
(* the group, sweep its sandbox and unregister it, while a termination     *)
(* signal may make the main thread kill every registered group and die.    *)
(*                                                                         *)
(* The kernel is the usual one: a group id is not handed out as a pid while*)
(* the group has a member, an exited child keeps its pid until the tool    *)
(* waits for it, and SIGKILL hits a whole group at once.                   *)
(***************************************************************************)
EXTENDS Integers, FiniteSets

CONSTANTS
  Thread,      \* threads of the tool
  Main,        \* the thread that runs the signal handlers
  Runners,     \* threads that call run()
  NoActor,
  Pid,
  Free,        \* a pid no process has
  Sweep,       \* run() is called with sweep=True
  MaxKills,    \* MAX_SWEEP_KILLS
  Recycle,     \* bound if FALSE: no pid is handed out twice
  MaxRuns,     \* bound: commands started
  MaxSignals   \* bound: termination signals delivered

Run     == 1 .. MaxRuns
NoRun   == 0          \* also the run of a process the tool did not start
Handler == 1 .. MaxSignals     \* nested activations of _on_signal
Actor   == Thread \cup Handler

\* grp is the group, run what started it, child whether it is the tool's own
\* child, inside whether its working directory is in that run's sandbox; a
\* zombie is a child that has died and that the tool has not waited for.
Process == [grp : Pid, run : Run \cup {NoRun}, child : BOOLEAN, inside : BOOLEAN,
            zombie : BOOLEAN]

ASSUME ProcAssumption ==
  /\ Main \in Thread
  /\ Runners \subseteq Thread
  /\ NoActor \notin Actor
  /\ Thread \cap Handler = {}
  /\ Free \notin Process
  /\ Sweep \in BOOLEAN /\ Recycle \in BOOLEAN
  /\ MaxKills \in Nat /\ MaxRuns \in Nat /\ MaxSignals \in Nat

VARIABLES
  proc,     \* [Pid -> Process \cup {Free}]
  used,     \* pids ever handed out (kept only if they are not recycled)
  live,     \* _live: which run, if any, is registered under a group id
  lock,     \* who holds _lock
  alive,    \* the tool is running
  signals,  \* how many handlers have been entered, each on top of the last
  pc,
  run,      \* the run a thread or handler is at work on
  pgid,     \* [Run -> Pid \cup {Free}]: the group of a run
  late,     \* runs whose wait timed out
  todo,     \* the groups a handler has still to kill
  seen,     \* the processes a sweep has listed
  started,  \* commands started so far
  taken     \* the runs that a handler found registered

vars == <<proc, used, live, lock, alive, signals, pc, run, pgid, late, todo, seen,
          started, taken>>

\* A handler runs on the main thread, on top of what it interrupts.
Running(a) ==
  /\ alive
  /\ a = Main => signals = 0
  /\ a \in Handler => a = signals

Exists(p) == proc[p] # Free
Group(p) == {q \in Pid : Exists(q) /\ proc[q].grp = p}

\* A pid the kernel may hand out.
Fresh(p) == ~Exists(p) /\ Group(p) = {} /\ (Recycle \/ p \notin used)

\* What is left of the processes in S when they die at once: the tool's own
\* children stay as zombies.
Dead(S) ==
  [q \in Pid |->
     IF q \notin S \/ ~Exists(q) THEN proc[q]
     ELSE IF proc[q].child
          THEN [proc[q] EXCEPT !.zombie = TRUE]
          ELSE Free]

GoTo(a, from, to) == Running(a) /\ pc[a] = from /\ pc' = [pc EXCEPT ![a] = to]

Init ==
  /\ proc = [p \in Pid |-> Free]
  /\ used = {}
  /\ live = [p \in Pid |-> NoRun]
  /\ lock = NoActor
  /\ alive = TRUE
  /\ signals = 0
  /\ pc = [a \in Actor |-> IF a \in Thread THEN "idle" ELSE "off"]
  /\ run = [a \in Actor |-> NoRun]
  /\ pgid = [r \in Run |-> Free]
  /\ late = {}
  /\ todo = [h \in Handler |-> {}]
  /\ seen = [a \in Actor |-> {}]
  /\ started = 0
  /\ taken = {}

-----------------------------------------------------------------------------
(* run *)

Popen(t, p) ==
  /\ t \in Runners
  /\ started < MaxRuns
  /\ Fresh(p)
  /\ GoTo(t, "idle", "register")
  /\ started' = started + 1
  /\ run' = [run EXCEPT ![t] = started + 1]
  /\ pgid' = [pgid EXCEPT ![started + 1] = p]
  /\ proc' = [proc EXCEPT ![p] =
       [grp |-> p, run |-> started + 1, child |-> TRUE, inside |-> TRUE, zombie |-> FALSE]]
  /\ used' = used \cup {p}
  /\ UNCHANGED <<live, lock, alive, signals, late, todo, seen, taken>>

\* Entering "with _lock", which is not reentrant.
TakeLock(a) ==
  /\ lock = NoActor
  /\ lock' = a
  /\ \/ GoTo(a, "register", "registering")
     \/ GoTo(a, "unregister", "unregistering")
     \/ GoTo(a, "handle", "handling")
  /\ UNCHANGED <<proc, used, live, alive, signals, run, pgid, late, todo, seen, started, taken>>

Register(t) ==
  /\ GoTo(t, "registering", "wait")
  /\ live' = [live EXCEPT ![pgid[run[t]]] = run[t]]
  /\ lock' = NoActor
  /\ UNCHANGED <<proc, used, alive, signals, run, pgid, late, todo, seen, started, taken>>

\* Bug: a group is unregistered when its leader exits.
WaitExit_Unregisters(t) ==
  /\ GoTo(t, "wait", "kill")
  /\ proc[pgid[run[t]]].zombie
  /\ proc' = [proc EXCEPT ![pgid[run[t]]] = Free]
  /\ live' = [live EXCEPT ![pgid[run[t]]] = NoRun]
  /\ UNCHANGED <<used, lock, alive, signals, run, pgid, late, todo, seen, started, taken>>

\* proc.wait returns: the leader has exited and is reaped.
WaitExit(t) ==
  /\ GoTo(t, "wait", "kill")
  /\ proc[pgid[run[t]]].zombie
  /\ proc' = [proc EXCEPT ![pgid[run[t]]] = Free]
  /\ UNCHANGED <<used, live, lock, alive, signals, run, pgid, late, todo, seen, started, taken>>

\* Bug: a timeout kills and reaps the leader, as subprocess.run does.
WaitTimeout_KillsLeader(t) ==
  /\ GoTo(t, "wait", "kill")
  /\ late' = late \cup {run[t]}
  /\ proc' = [proc EXCEPT ![pgid[run[t]]] = Free]
  /\ UNCHANGED <<used, live, lock, alive, signals, run, pgid, todo, seen, started, taken>>

WaitTimeout(t) ==
  /\ GoTo(t, "wait", "kill")
  /\ late' = late \cup {run[t]}
  /\ UNCHANGED <<proc, used, live, lock, alive, signals, run, pgid, todo, seen, started, taken>>

\* Bug: a command that ended by itself is thought to have left nothing.
KillGroup_LateOnly(t) ==
  /\ GoTo(t, "kill", "reap")
  /\ proc' = IF run[t] \in late THEN Dead(Group(pgid[run[t]])) ELSE proc
  /\ UNCHANGED <<used, live, lock, alive, signals, run, pgid, late, todo, seen, started, taken>>

\* _kill_group, whether the command ended or not.
KillGroup(t) ==
  /\ GoTo(t, "kill", "reap")
  /\ proc' = Dead(Group(pgid[run[t]]))
  /\ UNCHANGED <<used, live, lock, alive, signals, run, pgid, late, todo, seen, started, taken>>

\* The second proc.wait has something to reap only after a timeout.
Reap(t) ==
  /\ GoTo(t, "reap", IF Sweep THEN "list" ELSE "unregister")
  /\ IF run[t] \in late
       THEN proc[pgid[run[t]]].zombie /\ proc' = [proc EXCEPT ![pgid[run[t]]] = Free]
       ELSE UNCHANGED proc
  /\ UNCHANGED <<used, live, lock, alive, signals, run, pgid, late, todo, seen, started, taken>>

\* Bug: the lock is not released.
Unregister_KeepsLock(t) ==
  /\ GoTo(t, "unregistering", "idle")
  /\ live' = [live EXCEPT ![pgid[run[t]]] = NoRun]
  /\ run' = [run EXCEPT ![t] = NoRun]
  /\ UNCHANGED <<proc, used, lock, alive, signals, pgid, late, todo, seen, started, taken>>

Unregister(t) ==
  /\ GoTo(t, "unregistering", "idle")
  /\ live' = [live EXCEPT ![pgid[run[t]]] = NoRun]
  /\ run' = [run EXCEPT ![t] = NoRun]
  /\ lock' = NoActor
  /\ UNCHANGED <<proc, used, alive, signals, pgid, late, todo, seen, started, taken>>

-----------------------------------------------------------------------------
(* sweep_cwd, by a thread or by a handler *)

AfterSweep(a) == IF a \in Thread THEN "unregister" ELSE "next"

\* The processes whose working directory is in the sandbox of a run.
Targets(r) == {q \in Pid : Exists(q) /\ proc[q].run = r /\ proc[q].inside /\ ~proc[q].zombie}

\* None of them is signalled when there are more than MaxKills.
List(a) ==
  /\ LET found == Targets(run[a])
         go    == found # {} /\ Cardinality(found) <= MaxKills
     IN /\ GoTo(a, "list", IF go THEN "term" ELSE AfterSweep(a))
        /\ seen' = [seen EXCEPT ![a] = IF go THEN found ELSE {}]
  /\ UNCHANGED <<proc, used, live, lock, alive, signals, run, pgid, late, todo, started, taken>>

\* SIGTERM, which a process may survive.
Term(a) ==
  /\ GoTo(a, "term", "relist")
  /\ \E D \in SUBSET seen[a] : proc' = Dead(D)
  /\ UNCHANGED <<used, live, lock, alive, signals, run, pgid, late, todo, seen, started, taken>>

\* After the grace period: those of the first list that are still inside.
Relist(a) ==
  /\ GoTo(a, "relist", "sigkill")
  /\ seen' = [seen EXCEPT ![a] = @ \cap Targets(run[a])]
  /\ UNCHANGED <<proc, used, live, lock, alive, signals, run, pgid, late, todo, started, taken>>

SigKill(a) ==
  /\ GoTo(a, "sigkill", AfterSweep(a))
  /\ proc' = Dead(seen[a])
  /\ seen' = [seen EXCEPT ![a] = {}]
  /\ UNCHANGED <<used, live, lock, alive, signals, run, pgid, late, todo, started, taken>>

-----------------------------------------------------------------------------
(* kill_all, by the handler of a termination signal *)

Signal ==
  /\ alive
  /\ signals < MaxSignals
  /\ signals' = signals + 1
  /\ pc' = [pc EXCEPT ![signals + 1] = "handle"]
  /\ UNCHANGED <<proc, used, live, lock, alive, run, pgid, late, todo, seen, started, taken>>

\* Bug: the registry is cleared before it is copied.
Snapshot_Late(h) ==
  /\ GoTo(h, "handling", "next")
  /\ todo' = [todo EXCEPT ![h] = {}]
  /\ taken' = taken \cup ({live[p] : p \in Pid} \ {NoRun})
  /\ live' = [p \in Pid |-> NoRun]
  /\ lock' = NoActor
  /\ UNCHANGED <<proc, used, alive, signals, run, pgid, late, seen, started>>

Snapshot(h) ==
  /\ GoTo(h, "handling", "next")
  /\ todo' = [todo EXCEPT ![h] = {live[p] : p \in Pid} \ {NoRun}]
  /\ taken' = taken \cup ({live[p] : p \in Pid} \ {NoRun})
  /\ live' = [p \in Pid |-> NoRun]
  /\ lock' = NoActor
  /\ UNCHANGED <<proc, used, alive, signals, run, pgid, late, seen, started>>

KillNext(h, r) ==
  /\ GoTo(h, "next", IF Sweep THEN "list" ELSE "next")
  /\ r \in todo[h]
  /\ todo' = [todo EXCEPT ![h] = @ \ {r}]
  /\ run' = [run EXCEPT ![h] = r]
  /\ proc' = Dead(Group(pgid[r]))
  /\ UNCHANGED <<used, live, lock, alive, signals, pgid, late, seen, started, taken>>

\* The default action of the signal; init reaps what is left.
Die(h) ==
  /\ GoTo(h, "next", "off")
  /\ todo[h] = {}
  /\ alive' = FALSE
  /\ proc' = [q \in Pid |-> IF Exists(q) /\ proc[q].zombie THEN Free ELSE proc[q]]
  /\ UNCHANGED <<used, live, lock, signals, run, pgid, late, todo, seen, started, taken>>

-----------------------------------------------------------------------------
(* The commands, and whatever else runs on the machine *)

Lives(q) == Exists(q) /\ ~proc[q].zombie

Fork(q, p) ==
  /\ Lives(q) /\ proc[q].run # NoRun
  /\ Fresh(p)
  /\ proc' = [proc EXCEPT ![p] = [proc[q] EXCEPT !.child = FALSE]]
  /\ used' = used \cup {p}
  /\ UNCHANGED <<live, lock, alive, signals, pc, run, pgid, late, todo, seen, started, taken>>

\* A process that leads no group leaves its own.
Setsid(q) ==
  /\ Lives(q) /\ Group(q) = {}
  /\ proc' = [proc EXCEPT ![q].grp = q]
  /\ UNCHANGED <<used, live, lock, alive, signals, pc, run, pgid, late, todo, seen, started, taken>>

Exit(q) ==
  /\ Lives(q)
  /\ proc' = IF alive THEN Dead({q}) ELSE [proc EXCEPT ![q] = Free]
  /\ UNCHANGED <<used, live, lock, alive, signals, pc, run, pgid, late, todo, seen, started, taken>>

Leave(q) ==
  /\ Lives(q) /\ proc[q].inside
  /\ proc' = [proc EXCEPT ![q].inside = FALSE]
  /\ UNCHANGED <<used, live, lock, alive, signals, pc, run, pgid, late, todo, seen, started, taken>>

\* Something else starts, in a group of its own.
Stranger(p) ==
  /\ Fresh(p)
  /\ proc' = [proc EXCEPT ![p] =
       [grp |-> p, run |-> NoRun, child |-> FALSE, inside |-> FALSE, zombie |-> FALSE]]
  /\ used' = used \cup {p}
  /\ UNCHANGED <<live, lock, alive, signals, pc, run, pgid, late, todo, seen, started, taken>>

RunStep(t) ==
  \/ \E p \in Pid : Popen(t, p)
  \/ Register(t) \/ WaitExit(t) \/ WaitTimeout(t) \/ KillGroup(t) \/ Reap(t) \/ Unregister(t)

HandlerStep(h) == Snapshot(h) \/ (\E r \in Run : KillNext(h, r)) \/ Die(h)

Step(a) ==
  \/ TakeLock(a) \/ List(a) \/ Term(a) \/ Relist(a) \/ SigKill(a)
  \/ a \in Thread /\ RunStep(a)
  \/ a \in Handler /\ HandlerStep(a)

Machine ==
  \E q \in Pid : \/ Setsid(q) \/ Exit(q) \/ Leave(q) \/ Stranger(q)
                 \/ \E p \in Pid : Fork(q, p)

Next == Signal \/ Machine \/ \E a \in Actor : Step(a)

Spec == Init /\ [][Next]_vars

-----------------------------------------------------------------------------
(* Properties *)

\* Types; exactly the holder of _lock is in a critical section.
TypeOK ==
  /\ proc \in [Pid -> Process \cup {Free}]
  /\ used \subseteq Pid
  /\ live \in [Pid -> Run \cup {NoRun}]
  /\ lock \in Actor \cup {NoActor}
  /\ alive \in BOOLEAN
  /\ signals \in 0 .. MaxSignals
  /\ pc \in [Actor -> {"idle", "register", "registering", "wait", "kill", "reap", "list",
                       "term", "relist", "sigkill", "unregister", "unregistering",
                       "off", "handle", "handling", "next"}]
  /\ run \in [Actor -> Run \cup {NoRun}]
  /\ pgid \in [Run -> Pid \cup {Free}]
  /\ late \subseteq Run
  /\ todo \in [Handler -> SUBSET Run]
  /\ seen \in [Actor -> SUBSET Pid]
  /\ started \in 0 .. MaxRuns
  /\ taken \subseteq Run
  /\ \A a \in Actor : pc[a] \in {"registering", "unregistering", "handling"} <=> lock = a

\* The processes of a run that are still in its group.
Members(r) == {q \in Pid : Exists(q) /\ proc[q].run = r /\ proc[q].grp = pgid[r]}

\* "The group is always killed before returning, so nothing it started outlives
\* it": when run() is past its kill nothing forked by the command is left in the
\* group, and nothing can appear in it any more.
NothingOutlives ==
  \A r \in 1 .. started :
    (alive /\ \A t \in Thread : run[t] = r => pc[t] \in {"list", "unregister"})
      => Members(r) = {}

\* A group that may be running is known to kill_all, from its registration to
\* its kill, unless a handler has already taken it over.
Tracked ==
  \A t \in Thread :
    pc[t] \in {"wait", "kill"} =>
      \/ live[pgid[run[t]]] = run[t]
      \/ run[t] \in taken

\* Of what a handler found registered nothing is running in its group once the
\* tool is gone.
RegisteredKilled == ~alive => \A r \in taken : Members(r) = {}

\* On a timeout the group id still belongs to the command: the leader has not
\* been reaped, so the kill hits nobody else, however fast pids are recycled.
TimeoutHitsOwn ==
  [][\A t \in Thread :
       pc[t] = "kill" /\ pc'[t] = "reap" /\ run[t] \in late =>
         \A q \in Pid : proc'[q] # proc[q] => proc[q].run = run[t]]_vars

\* The threads go on, and a lock that is released is not kept from a thread for
\* ever: each command takes it twice.
Fairness == \A a \in Actor : WF_vars(Step(a))

FairSpec == Spec /\ Fairness

\* A termination signal ends the tool.
SignalEnds == signals > 0 ~> ~alive
=============================================================================
