--------------------------- MODULE ProcGroupProofs ---------------------------
(***************************************************************************)
(* Proofs about ProcGroup, for any threads, pids, runs and limits.         *)
(***************************************************************************)
EXTENDS ProcGroup, FiniteSetTheorems, TLAPS

-----------------------------------------------------------------------------
(* What a step does to the processes *)

\* Nothing appears and nobody changes the group: processes die, the dead are
\* reaped, and a directory is left.
Quiet ==
  \A q \in Pid :
    \/ proc'[q] = Free
    \/ /\ Exists(q) /\ proc'[q] \in Process
       /\ proc'[q].grp = proc[q].grp /\ proc'[q].run = proc[q].run
       /\ proc'[q].child = proc[q].child
       /\ proc[q].zombie => proc'[q].zombie
       /\ proc'[q].zombie => proc[q].zombie \/ proc[q].child

LEMMA DeadQuiet ==
  ASSUME proc \in [Pid -> Process \cup {Free}], NEW S, proc' = Dead(S)
  PROVE  /\ Quiet /\ proc' \in [Pid -> Process \cup {Free}]
         /\ \A q \in S \cap Pid : proc'[q] = Free \/ proc'[q].zombie
<1>1. \A q \in Pid : Exists(q) => proc[q] \in Process
  BY DEF Exists
<1>2. \A q \in Pid :
        proc'[q] = IF q \notin S \/ ~Exists(q) THEN proc[q]
                   ELSE IF proc[q].child THEN [proc[q] EXCEPT !.zombie = TRUE] ELSE Free
  BY DEF Dead
<1>3. \A z \in Process : [z EXCEPT !.zombie = TRUE] \in Process
  BY DEF Process
<1>4. \A z \in Process : LET y == [z EXCEPT !.zombie = TRUE] IN
        y.grp = z.grp /\ y.run = z.run /\ y.child = z.child /\ y.zombie
  BY DEF Process
<1>5. DOMAIN proc' = Pid /\ proc' = [q \in Pid |-> proc'[q]]
  BY DEF Dead
<1>6. Quiet
  <2> SUFFICES ASSUME NEW q \in Pid, proc'[q] # Free
               PROVE  /\ Exists(q) /\ proc'[q] \in Process
                      /\ proc'[q].grp = proc[q].grp /\ proc'[q].run = proc[q].run
                      /\ proc'[q].child = proc[q].child
                      /\ proc[q].zombie => proc'[q].zombie
                      /\ proc'[q].zombie => proc[q].zombie \/ proc[q].child
    BY DEF Quiet
  <2>1. CASE proc'[q] = proc[q]
    BY <1>1, <2>1 DEF Exists
  <2>2. CASE Exists(q) /\ proc[q].child /\ proc'[q] = [proc[q] EXCEPT !.zombie = TRUE]
    <3>1. proc[q] \in Process
      BY <1>1, <2>2
    <3>2. /\ proc'[q] \in Process /\ proc'[q].grp = proc[q].grp /\ proc'[q].run = proc[q].run
          /\ proc'[q].child = proc[q].child /\ proc'[q].zombie
      BY <2>2, <3>1 DEF Process
    <3> QED BY <2>2, <3>2
  <2>3. \/ proc'[q] = proc[q]
        \/ Exists(q) /\ proc[q].child /\ proc'[q] = [proc[q] EXCEPT !.zombie = TRUE]
    BY <1>2
  <2> QED  BY <2>1, <2>2, <2>3
<1>7. \A q \in Pid : proc'[q] \in Process \cup {Free}
  BY <1>1, <1>2, <1>3 DEF Exists
<1>8. \A q \in S \cap Pid : proc'[q] = Free \/ proc'[q].zombie
  <2> SUFFICES ASSUME NEW q \in S \cap Pid, proc'[q] # Free PROVE proc'[q].zombie
    OBVIOUS
  <2>1. proc'[q] = IF ~Exists(q) THEN proc[q]
                   ELSE IF proc[q].child THEN [proc[q] EXCEPT !.zombie = TRUE] ELSE Free
    BY DEF Dead
  <2>2. Exists(q) /\ proc'[q] = [proc[q] EXCEPT !.zombie = TRUE]
    BY <2>1 DEF Exists
  <2> QED  BY <1>1, <1>4, <2>2
<1> QED  BY <1>5, <1>6, <1>7, <1>8

LEMMA SameQuiet ==
  ASSUME proc \in [Pid -> Process \cup {Free}], proc' = proc
  PROVE  Quiet
BY DEF Quiet, Exists

\* A pid that becomes free.
LEMMA FreeQuiet ==
  ASSUME proc \in [Pid -> Process \cup {Free}], NEW p, proc' = [proc EXCEPT ![p] = Free]
  PROVE  Quiet /\ proc' \in [Pid -> Process \cup {Free}]
BY DEF Quiet, Exists

\* The four ways in which a process appears or changes its group.
Appears ==
  \/ \E t \in Thread, p \in Pid : Popen(t, p)
  \/ \E q, p \in Pid : Fork(q, p)
  \/ \E q \in Pid : Setsid(q)
  \/ \E p \in Pid : Stranger(p)

LEMMA StepQuiet ==
  ASSUME TypeOK, [Next]_vars
  PROVE  proc' \in [Pid -> Process \cup {Free}] /\ (Quiet \/ Appears)
<1>0. proc \in [Pid -> Process \cup {Free}] /\ \A q \in Pid : Exists(q) => proc[q] \in Process
  BY DEF TypeOK, Exists
<1>1. ASSUME proc' = proc
      PROVE  proc' \in [Pid -> Process \cup {Free}] /\ Quiet
  BY <1>0, <1>1, SameQuiet
<1>2. ASSUME NEW S, proc' = Dead(S)
      PROVE  proc' \in [Pid -> Process \cup {Free}] /\ Quiet
  BY <1>0, <1>2, DeadQuiet
<1>3. ASSUME NEW p, proc' = [proc EXCEPT ![p] = Free]
      PROVE  proc' \in [Pid -> Process \cup {Free}] /\ Quiet
  BY <1>0, <1>3, FreeQuiet
<1>4. CASE Signal \/ UNCHANGED vars
  BY <1>1, <1>4 DEF Signal, vars
<1>5. CASE \E a \in Actor : TakeLock(a) \/ List(a) \/ Relist(a)
  BY <1>1, <1>5 DEF TakeLock, List, Relist
<1>6. CASE \E a \in Actor : Term(a) \/ SigKill(a)
  BY <1>2, <1>6 DEF Term, SigKill
<1>7. CASE \E t \in Thread : Register(t) \/ WaitTimeout(t) \/ Unregister(t)
  BY <1>1, <1>7 DEF Register, WaitTimeout, Unregister
<1>8. CASE \E t \in Thread : WaitExit(t)
  BY <1>3, <1>8 DEF WaitExit
<1>9. CASE \E t \in Thread : KillGroup(t)
  BY <1>2, <1>9 DEF KillGroup
<1>10. CASE \E t \in Thread : Reap(t)
  BY <1>1, <1>3, <1>10 DEF Reap
<1>11. CASE \E h \in Handler : Snapshot(h)
  BY <1>1, <1>11 DEF Snapshot
<1>12. CASE \E h \in Handler, r \in Run : KillNext(h, r)
  BY <1>2, <1>12 DEF KillNext
<1>13. CASE \E h \in Handler : Die(h)
  <2>1. proc' = [q \in Pid |-> IF Exists(q) /\ proc[q].zombie THEN Free ELSE proc[q]]
    BY <1>13 DEF Die
  <2> QED  BY <1>0, <2>1 DEF Quiet, Exists
<1>14. CASE \E q \in Pid : Exit(q)
  BY <1>2, <1>3, <1>14 DEF Exit
<1>15. CASE \E q \in Pid : Leave(q)
  <2>1. PICK q \in Pid : Exists(q) /\ proc' = [proc EXCEPT ![q].inside = FALSE]
    BY <1>15 DEF Leave, Lives
  <2>2. proc[q] \in Process
    BY <1>0, <2>1
  <2>3. /\ proc'[q] \in Process /\ proc'[q].grp = proc[q].grp /\ proc'[q].run = proc[q].run
        /\ proc'[q].child = proc[q].child /\ proc'[q].zombie = proc[q].zombie
    BY <1>0, <2>1, <2>2 DEF Process
  <2>4. \A p \in Pid \ {q} : proc'[p] = proc[p]
    BY <1>0, <2>1
  <2>5. proc' \in [Pid -> Process \cup {Free}]
    BY <1>0, <2>1, <2>3, <2>4
  <2>6. Quiet
    BY <1>0, <2>1, <2>3, <2>4 DEF Quiet, Exists
  <2> QED  BY <2>5, <2>6
<1>16. CASE \E t \in Thread, p \in Pid : Popen(t, p)
  <2>1. PICK t \in Thread, p \in Pid : Popen(t, p)
    BY <1>16
  <2>2. started + 1 \in Run
    BY <2>1, ProcAssumption DEF Popen, TypeOK, Run
  <2> QED  BY <1>0, <1>16, <2>1, <2>2 DEF Popen, Process, Appears
<1>17. CASE \E q, p \in Pid : Fork(q, p)
  <2>1. PICK q \in Pid, p \in Pid : Fork(q, p)
    BY <1>17
  <2>2. [proc[q] EXCEPT !.child = FALSE] \in Process
    BY <1>0, <2>1 DEF Fork, Lives, Process
  <2>3. proc' = [proc EXCEPT ![p] = [proc[q] EXCEPT !.child = FALSE]]
    BY <2>1 DEF Fork
  <2> QED  BY <1>0, <1>17, <2>2, <2>3 DEF Appears
<1>18. CASE \E q \in Pid : Setsid(q)
  <2>1. PICK q \in Pid : Setsid(q)
    BY <1>18
  <2>2. [proc[q] EXCEPT !.grp = q] \in Process
    BY <1>0, <2>1 DEF Setsid, Lives, Process
  <2>3. proc' = [proc EXCEPT ![q] = [proc[q] EXCEPT !.grp = q]]
    BY <2>1 DEF Setsid
  <2> QED  BY <1>0, <1>18, <2>2, <2>3 DEF Appears
<1>19. CASE \E p \in Pid : Stranger(p)
  <2>1. PICK p \in Pid : Stranger(p)
    BY <1>19
  <2>2. [grp |-> p, run |-> NoRun, child |-> FALSE, inside |-> FALSE, zombie |-> FALSE] \in Process
    BY DEF Process
  <2>3. proc' = [proc EXCEPT ![p] =
          [grp |-> p, run |-> NoRun, child |-> FALSE, inside |-> FALSE, zombie |-> FALSE]]
    BY <2>1 DEF Stranger
  <2> QED  BY <1>0, <1>19, <2>2, <2>3 DEF Appears
<1> QED  BY <1>4, <1>5, <1>6, <1>7, <1>8, <1>9, <1>10, <1>11, <1>12, <1>13, <1>14, <1>15, <1>16,
            <1>17, <1>18, <1>19
         DEF Next, Machine, Step, RunStep, HandlerStep

-----------------------------------------------------------------------------
(* Types, and who is at work on what *)

\* Every thread is at work on a run of its own.
OfThreads ==
  /\ \A t \in Thread :
       /\ pc[t] \in {"idle", "register", "registering", "wait", "kill", "reap", "list", "term",
                    "relist", "sigkill", "unregister", "unregistering"}
       /\ run[t] \in 0..started
       /\ pc[t] = "idle" <=> run[t] = NoRun
       /\ pc[t] \in {"register", "registering", "wait"} => run[t] \notin late
  /\ \A t, u \in Thread : run[t] = run[u] /\ run[t] # NoRun => t = u

\* A handler that has not been entered is off.
OfHandlers ==
  \A h \in Handler :
    /\ pc[h] \in {"off", "handle", "handling", "next", "list", "term", "relist", "sigkill"}
    /\ h > signals => pc[h] = "off"

\* Only what was started is registered, taken over or late.
OfRuns ==
  /\ \A p \in Pid : live[p] \in 0..started
  /\ late \subseteq 1..started /\ taken \subseteq 1..started
  /\ \A r \in 1..started : pgid[r] \in Pid

Own == OfThreads /\ OfHandlers /\ OfRuns

LEMMA OwnKept ==
  ASSUME TypeOK, Own, [Next]_vars
  PROVE  Own'
<1> USE DEF Own, OfThreads, OfHandlers, OfRuns, GoTo, Running
<1>0. /\ started \in Nat /\ NoRun = 0 /\ signals \in Nat /\ Main \in Thread
      /\ Thread \cap Handler = {} /\ Actor = Thread \cup Handler
      /\ DOMAIN pc = Actor /\ DOMAIN run = Actor /\ DOMAIN live = Pid /\ DOMAIN pgid = Run
  <2>1. started \in Nat /\ NoRun = 0 /\ signals \in Nat
    BY ProcAssumption DEF NoRun, TypeOK
  <2>2. Main \in Thread /\ Thread \cap Handler = {} /\ Actor = Thread \cup Handler
    BY ProcAssumption DEF Actor
  <2>3. DOMAIN pc = Actor /\ DOMAIN run = Actor /\ DOMAIN live = Pid /\ DOMAIN pgid = Run
    BY DEF TypeOK
  <2> QED  BY <2>1, <2>2, <2>3
<1>01. \A h \in Handler : h \in Nat
  BY ProcAssumption DEF Handler
<1>1. CASE Signal
  <2>1. signals < MaxSignals /\ signals + 1 \in Handler /\ signals' = signals + 1
    BY <1>0, <1>1, ProcAssumption DEF Signal, Handler
  <2>2. \A a \in Actor : pc'[a] = IF a = signals + 1 THEN "handle" ELSE pc[a]
    BY <1>0, <1>1 DEF Signal
  <2>3. UNCHANGED <<run, live, late, taken, started, pgid>>
    BY <1>1 DEF Signal
  <2>4. \A t \in Thread : pc'[t] = pc[t]
    BY <1>0, <2>1, <2>2
  <2>5. \A h \in Handler : /\ pc'[h] \in {"off", "handle", "handling", "next", "list", "term",
                                          "relist", "sigkill"}
                           /\ h > signals' => pc'[h] = "off"
    BY <1>0, <1>01, <2>1, <2>2
  <2>6. OfThreads'
    BY <2>3, <2>4
  <2>7. OfHandlers'
    BY <1>01, <2>5
  <2>8. OfRuns'
    BY <2>3
  <2> QED  BY <2>6, <2>7, <2>8
<1>2. CASE \E a \in Actor : TakeLock(a)
  BY <1>0, <1>2 DEF TakeLock
<1>3. CASE \E a \in Actor : List(a) \/ Term(a) \/ Relist(a) \/ SigKill(a)
  <2>1. PICK a \in Actor : List(a) \/ Term(a) \/ Relist(a) \/ SigKill(a)
    BY <1>3
  <2>2. PICK from \in {"list", "term", "relist", "sigkill"},
             to \in {"term", "relist", "sigkill", AfterSweep(a)} : GoTo(a, from, to)
    BY <2>1 DEF List, Term, Relist, SigKill
  <2>3. a \in Thread => to \in {"term", "relist", "sigkill", "unregister"}
    BY <2>2 DEF AfterSweep
  <2>4. a \in Handler => to \in {"term", "relist", "sigkill", "next"} /\ a = signals
    BY <1>0, <2>2 DEF AfterSweep
  <2>5. \A b \in Actor : pc'[b] = IF b = a THEN to ELSE pc[b]
    BY <1>0, <2>2
  <2>6. UNCHANGED <<run, live, late, taken, started, pgid, signals>>
    BY <2>1 DEF List, Term, Relist, SigKill
  <2>7. pc[a] = from
    BY <2>2
  <2>8. \A t \in Thread : pc'[t] = pc[t] \/ {pc[t], pc'[t]} \subseteq {"list", "term", "relist",
                                                                "sigkill", "unregister"}
    BY <1>0, <2>2, <2>3, <2>5, <2>7
  <2>9. \A h \in Handler : /\ pc'[h] \in {"off", "handle", "handling", "next", "list", "term",
                                          "relist", "sigkill"}
                           /\ h > signals' => pc'[h] = "off"
    BY <1>0, <1>01, <2>4, <2>5, <2>6
  <2>10. OfThreads'
    BY <2>6, <2>8
  <2>11. OfHandlers'
    BY <1>01, <2>9
  <2>12. OfRuns'
    BY <2>6
  <2> QED  BY <2>10, <2>11, <2>12
<1>4. CASE \E t \in Thread, p \in Pid : Popen(t, p)
  <2>1. PICK t \in Thread, p \in Pid : Popen(t, p)
    BY <1>4
  <2>2. started + 1 \in Run /\ started' = started + 1
    BY <1>0, <2>1, ProcAssumption DEF Popen, Run
  <2>3. /\ \A a \in Actor : pc'[a] = IF a = t THEN "register" ELSE pc[a]
        /\ \A a \in Actor : run'[a] = IF a = t THEN started + 1 ELSE run[a]
        /\ \A r \in Run : pgid'[r] = IF r = started + 1 THEN p ELSE pgid[r]
    BY <1>0, <2>1, <2>2 DEF Popen
  <2>4. UNCHANGED <<live, late, taken, signals>> /\ pc[t] = "idle"
    BY <2>1 DEF Popen
  <2>5. \A u \in Thread : run'[u] \in 0..started' /\ run[u] # started + 1
    BY <1>0, <2>2, <2>3
  <2>6. \A u \in Thread :
          /\ pc'[u] \in {"idle", "register", "registering", "wait", "kill", "reap", "list", "term",
                        "relist", "sigkill", "unregister", "unregistering"}
          /\ pc'[u] = "idle" <=> run'[u] = NoRun
    BY <1>0, <2>3
  <2>7. \A u, v \in Thread : run'[u] = run'[v] /\ run'[u] # NoRun => u = v
    BY <1>0, <2>3, <2>5
  <2>8. \A h \in Handler : pc'[h] = pc[h]
    BY <1>0, <2>1, <2>3
  <2>9. \A q \in Pid : live'[q] \in 0..started'
    BY <1>0, <2>2, <2>4
  <2>10. late' \subseteq 1..started' /\ taken' \subseteq 1..started' /\ started + 1 \notin late
    BY <1>0, <2>2, <2>4
  <2>11. \A r \in 1..started' : pgid'[r] \in Pid
    <3>1. \A r \in 1..started' : r \in Run /\ (r = started + 1 \/ r \in 1..started)
      BY <1>0, <2>2, ProcAssumption DEF Run
    <3> QED  BY <2>3, <3>1
  <2>12. \A u \in Thread : pc'[u] \in {"register", "registering", "wait"} => run'[u] \notin late'
    BY <1>0, <2>3, <2>4, <2>10
  <2> QED  BY <2>4, <2>5, <2>6, <2>7, <2>8, <2>9, <2>10, <2>11, <2>12
<1>5. CASE \E t \in Thread : Register(t)
  BY <1>0, <1>5 DEF Register
<1>6. CASE \E t \in Thread : WaitExit(t) \/ KillGroup(t)
  <2>1. PICK t \in Thread : WaitExit(t) \/ KillGroup(t)
    BY <1>6
  <2>2. /\ UNCHANGED <<run, live, late, taken, started, pgid, signals>>
        /\ pc[t] \in {"wait", "kill"}
    BY <2>1 DEF WaitExit, KillGroup
  <2>3. \E to \in {"kill", "reap"} : \A a \in Actor : pc'[a] = IF a = t THEN to ELSE pc[a]
    BY <1>0, <2>1 DEF WaitExit, KillGroup
  <2> QED  BY <1>0, <2>2, <2>3
<1>7. CASE \E t \in Thread : WaitTimeout(t)
  <2>1. PICK t \in Thread : WaitTimeout(t)
    BY <1>7
  <2>2. /\ UNCHANGED <<run, live, taken, started, pgid, signals>> /\ late' = late \cup {run[t]}
        /\ pc[t] = "wait"
    BY <2>1 DEF WaitTimeout
  <2>3. \A a \in Actor : pc'[a] = IF a = t THEN "kill" ELSE pc[a]
    BY <1>0, <2>1 DEF WaitTimeout
  <2>4. run[t] \in 1..started
    BY <1>0, <2>2
  <2>5. \A u \in Thread : pc'[u] \in {"register", "registering", "wait"} => run'[u] \notin late'
    BY <1>0, <2>2, <2>3, <2>4
  <2> QED  BY <1>0, <2>2, <2>3, <2>4, <2>5
<1>8. CASE \E t \in Thread : Reap(t)
  BY <1>0, <1>8 DEF Reap
<1>9. CASE \E t \in Thread : Unregister(t)
  BY <1>0, <1>9 DEF Unregister
<1>10. CASE \E h \in Handler : Snapshot(h)
  <2>1. PICK h \in Handler : Snapshot(h)
    BY <1>10
  <2>2. /\ UNCHANGED <<run, late, started, pgid, signals>> /\ h = signals
        /\ live' = [p \in Pid |-> NoRun] /\ taken' = taken \cup ({live[p] : p \in Pid} \ {NoRun})
    BY <1>0, <2>1 DEF Snapshot
  <2>3. \A a \in Actor : pc'[a] = IF a = h THEN "next" ELSE pc[a]
    BY <1>0, <2>1 DEF Snapshot
  <2>4. taken' \subseteq 1..started /\ \A p \in Pid : live'[p] \in 0..started
    <3>1. \A r \in {live[p] : p \in Pid} \ {NoRun} : r \in 1..started
      BY <1>0
    <3>2. taken' \subseteq 1..started
      BY <2>2, <3>1
    <3>3. \A p \in Pid : live'[p] = 0
      BY <1>0, <2>2
    <3> QED  BY <1>0, <3>2, <3>3
  <2>5. \A t \in Thread : pc'[t] = pc[t]
    BY <1>0, <2>1, <2>3
  <2>6. \A k \in Handler : pc'[k] = pc[k] \/ (k = signals /\ pc'[k] = "next")
    BY <1>0, <2>2, <2>3
  <2> QED  BY <1>0, <1>01, <2>2, <2>4, <2>5, <2>6
<1>11. CASE \E h \in Handler, r \in Run : KillNext(h, r)
  BY <1>0, <1>11 DEF KillNext
<1>12. CASE \E h \in Handler : Die(h)
  BY <1>0, <1>12 DEF Die
<1>13. CASE Machine
  BY <1>0, <1>13 DEF Machine, Setsid, Exit, Leave, Stranger, Fork
<1>14. CASE UNCHANGED vars
  BY <1>14 DEF vars
<1> QED  BY <1>1, <1>2, <1>3, <1>4, <1>5, <1>6, <1>7, <1>8, <1>9, <1>10, <1>11, <1>12, <1>13, <1>14
         DEF Next, Step, RunStep, HandlerStep, Machine

Types ==
  /\ used \subseteq Pid
  /\ live \in [Pid -> Run \cup {NoRun}]
  /\ lock \in Actor \cup {NoActor}
  /\ alive \in BOOLEAN
  /\ signals \in 0 .. MaxSignals
  /\ run \in [Actor -> Run \cup {NoRun}]
  /\ pgid \in [Run -> Pid \cup {Free}]
  /\ late \subseteq Run
  /\ todo \in [Handler -> SUBSET Run]
  /\ seen \in [Actor -> SUBSET Pid]
  /\ started \in 0 .. MaxRuns
  /\ taken \subseteq Run

LEMMA TypesKept ==
  ASSUME TypeOK, Own, [Next]_vars
  PROVE  Types'
<1> USE DEF Types
<1>0. Types /\ Actor = Thread \cup Handler /\ DOMAIN run = Actor
  BY DEF TypeOK, Actor
<1>1. CASE Signal
  BY <1>0, <1>1, ProcAssumption DEF Signal
<1>2. CASE \E a \in Actor : TakeLock(a)
  BY <1>0, <1>2 DEF TakeLock
<1>3. CASE \E a \in Actor : List(a) \/ Term(a) \/ Relist(a) \/ SigKill(a)
  <2>1. \A r : Targets(r) \subseteq Pid
    BY DEF Targets
  <2> QED  BY <1>0, <1>3, <2>1 DEF List, Term, Relist, SigKill
<1>4. CASE \E t \in Thread, p \in Pid : Popen(t, p)
  <2>1. PICK t \in Thread, p \in Pid : Popen(t, p)
    BY <1>4
  <2>2. started + 1 \in Run /\ started + 1 \in 0..MaxRuns
    BY <1>0, <2>1, ProcAssumption DEF Popen, Run
  <2> QED  BY <1>0, <2>1, <2>2 DEF Popen
<1>5. CASE \E t \in Thread : Register(t)
  <2>1. PICK t \in Thread : Register(t)
    BY <1>5
  <2>2. run[t] \in Run \cup {NoRun}
    BY <1>0
  <2> QED  BY <1>0, <2>1, <2>2 DEF Register
<1>6. CASE \E t \in Thread : WaitExit(t) \/ KillGroup(t) \/ Reap(t)
  BY <1>0, <1>6 DEF WaitExit, KillGroup, Reap
<1>7. CASE \E t \in Thread : WaitTimeout(t)
  <2>1. PICK t \in Thread : WaitTimeout(t)
    BY <1>7
  <2>2. run[t] \in Run
    BY <1>0, <2>1 DEF WaitTimeout, GoTo, Own, OfThreads
  <2> QED  BY <1>0, <2>1, <2>2 DEF WaitTimeout
<1>8. CASE \E t \in Thread : Unregister(t)
  BY <1>0, <1>8 DEF Unregister
<1>9. CASE \E h \in Handler : Snapshot(h)
  <2>1. {live[p] : p \in Pid} \ {NoRun} \subseteq Run
    BY <1>0
  <2>2. [p \in Pid |-> NoRun] \in [Pid -> Run \cup {NoRun}]
    OBVIOUS
  <2> QED  BY <1>0, <1>9, <2>1, <2>2 DEF Snapshot
<1>10. CASE \E h \in Handler, r \in Run : KillNext(h, r)
  BY <1>0, <1>10 DEF KillNext
<1>11. CASE \E h \in Handler : Die(h)
  BY <1>0, <1>11 DEF Die
<1>12. CASE Machine
  BY <1>0, <1>12 DEF Machine, Setsid, Exit, Leave, Stranger, Fork
<1>13. CASE UNCHANGED vars
  BY <1>0, <1>13 DEF vars
<1> QED  BY <1>1, <1>2, <1>3, <1>4, <1>5, <1>6, <1>7, <1>8, <1>9, <1>10, <1>11, <1>12, <1>13
         DEF Next, Step, RunStep, HandlerStep

\* Who holds the lock is in a critical section, and nobody else is.
Locked ==
  /\ pc \in [Actor -> {"idle", "register", "registering", "wait", "kill", "reap", "list",
                       "term", "relist", "sigkill", "unregister", "unregistering",
                       "off", "handle", "handling", "next"}]
  /\ \A a \in Actor : pc[a] \in {"registering", "unregistering", "handling"} <=> lock = a

LEMMA LockedKept ==
  ASSUME TypeOK, Own, [Next]_vars
  PROVE  Locked'
<1> DEFINE crit == {"registering", "unregistering", "handling"}
           all == {"idle", "register", "registering", "wait", "kill", "reap", "list",
                   "term", "relist", "sigkill", "unregister", "unregistering",
                   "off", "handle", "handling", "next"}
<1>0. /\ pc \in [Actor -> all] /\ NoActor \notin Actor
      /\ \A a \in Actor : pc[a] \in crit <=> lock = a
  BY ProcAssumption DEF TypeOK
<1>1. CASE \E a \in Actor : TakeLock(a)
  <2>1. PICK a \in Actor, to \in crit : pc' = [pc EXCEPT ![a] = to] /\ lock = NoActor /\ lock' = a
    BY <1>1 DEF TakeLock, GoTo
  <2> QED  BY <1>0, <2>1 DEF Locked
<1>2. CASE \E a \in Actor, to \in all \ crit : pc' = [pc EXCEPT ![a] = to] /\ pc[a] \in crit /\ lock' = NoActor
  <2>1. PICK a \in Actor, to \in all \ crit : pc' = [pc EXCEPT ![a] = to] /\ pc[a] \in crit /\ lock' = NoActor
    BY <1>2
  <2>2. lock = a
    BY <1>0, <2>1
  <2> QED  BY <1>0, <2>1, <2>2 DEF Locked
<1>3. CASE \E a \in Actor, to \in all \ crit : pc' = [pc EXCEPT ![a] = to] /\ pc[a] \notin crit /\ lock' = lock
  <2>1. PICK a \in Actor, to \in all \ crit : pc' = [pc EXCEPT ![a] = to] /\ pc[a] \notin crit /\ lock' = lock
    BY <1>3
  <2> QED  BY <1>0, <2>1 DEF Locked
<1>4. CASE UNCHANGED <<pc, lock>>
  BY <1>0, <1>4 DEF Locked
<1>5. CASE Signal
  <2>1. signals + 1 \in Handler /\ pc[signals + 1] = "off"
    BY <1>5, ProcAssumption DEF Signal, TypeOK, Handler, Own, OfHandlers
  <2> QED  BY <1>3, <1>5, <2>1 DEF Signal, Actor
<1>6. CASE \E a \in Actor : List(a) \/ Term(a) \/ Relist(a) \/ SigKill(a)
  <2>1. PICK a \in Actor : List(a) \/ Term(a) \/ Relist(a) \/ SigKill(a)
    BY <1>6
  <2>2. PICK from \in {"list", "term", "relist", "sigkill"},
             to \in {"term", "relist", "sigkill", AfterSweep(a)} : GoTo(a, from, to)
    BY <2>1 DEF List, Term, Relist, SigKill
  <2>3. AfterSweep(a) \in all \ crit
    BY DEF AfterSweep
  <2>4. lock' = lock
    BY <2>1 DEF List, Term, Relist, SigKill
  <2> QED  BY <1>3, <2>2, <2>3, <2>4 DEF GoTo
<1>7. CASE \E t \in Thread, p \in Pid : Popen(t, p)
  BY <1>3, <1>7 DEF Popen, GoTo, Actor
<1>8. CASE \E t \in Thread : Register(t) \/ Unregister(t)
  BY <1>2, <1>8 DEF Register, Unregister, GoTo, Actor
<1>9. CASE \E t \in Thread : WaitExit(t) \/ WaitTimeout(t) \/ KillGroup(t) \/ Reap(t)
  BY <1>3, <1>9 DEF WaitExit, WaitTimeout, KillGroup, Reap, GoTo, Actor
<1>10. CASE \E h \in Handler : Snapshot(h)
  BY <1>2, <1>10 DEF Snapshot, GoTo, Actor
<1>11. CASE \E h \in Handler : Die(h) \/ \E r \in Run : KillNext(h, r)
  BY <1>3, <1>11 DEF Die, KillNext, GoTo, Actor
<1>12. CASE Machine
  BY <1>4, <1>12 DEF Machine, Setsid, Exit, Leave, Stranger, Fork
<1> QED  BY <1>1, <1>4, <1>5, <1>6, <1>7, <1>8, <1>9, <1>10, <1>11, <1>12
         DEF Next, Step, RunStep, HandlerStep, vars

\* Types, and every thread at work on a run of its own.
LEMMA Owning == Spec => [](TypeOK /\ Own)
<1>1. Init => TypeOK /\ Own
  <2> SUFFICES ASSUME Init PROVE TypeOK /\ Own
    OBVIOUS
  <2>1. TypeOK
    BY ProcAssumption DEF Init, TypeOK, NoRun, Actor
  <2>2. OfThreads /\ OfHandlers
    BY ProcAssumption DEF Init, OfThreads, OfHandlers, Actor, NoRun
  <2>3. OfRuns
    BY DEF Init, OfRuns, NoRun
  <2> QED  BY <2>1, <2>2, <2>3 DEF Own
<1>2. TypeOK /\ Own /\ [Next]_vars => TypeOK' /\ Own'
  <2> SUFFICES ASSUME TypeOK, Own, [Next]_vars PROVE TypeOK' /\ Own'
    OBVIOUS
  <2>1. proc' \in [Pid -> Process \cup {Free}]
    BY StepQuiet
  <2> QED  BY <2>1, TypesKept, LockedKept, OwnKept DEF Types, Locked, TypeOK
<1> QED  BY <1>1, <1>2, PTL DEF Spec

\* The variables keep their types, and exactly the holder of the lock is in a
\* critical section.
THEOREM Typing == Spec => []TypeOK
BY Owning, PTL

-----------------------------------------------------------------------------
(* Whose pid it is, when no pid is handed out twice *)

\* The pid that is the id of a run's group is nobody's but its leader's, the only
\* child of the tool in that run; the leader stays in its group.
Pids ==
  /\ \A p \in Pid : Exists(p) =>
       /\ p \in used /\ proc[p].grp \in used /\ proc[p].run \in 0..started
       /\ proc[p].zombie => proc[p].child
       /\ proc[p].child => proc[p].run # NoRun /\ pgid[proc[p].run] = p
  /\ \A r \in 1..started :
       /\ pgid[r] \in used
       /\ Exists(pgid[r]) => proc[pgid[r]].grp = pgid[r] /\ proc[pgid[r]].run = r
  /\ \A r, s \in 1..started : pgid[r] = pgid[s] => r = s

LEMMA Unchanging ==
  ASSUME [Next]_vars, ~Appears
  PROVE  UNCHANGED <<used, pgid, started>>
BY DEF Next, Machine, Step, RunStep, HandlerStep, vars, Appears, Signal, TakeLock, List, Term, Relist,
       SigKill, Register, WaitExit, WaitTimeout, KillGroup, Reap, Unregister, Snapshot, KillNext, Die,
       Exit, Leave

\* What a new process is like.
LEMMA Popened ==
  ASSUME TypeOK, ~Recycle, NEW t \in Thread, NEW p \in Pid, Popen(t, p)
  PROVE  /\ ~Exists(p) /\ p \notin used /\ Group(p) = {}
         /\ started' = started + 1 /\ started' \in Run /\ used' = used \cup {p}
         /\ \A r \in Run : pgid'[r] = IF r = started + 1 THEN p ELSE pgid[r]
         /\ proc'[p] = [grp |-> p, run |-> started + 1, child |-> TRUE, inside |-> TRUE,
                        zombie |-> FALSE]
         /\ \A q \in Pid \ {p} : proc'[q] = proc[q]
<1>1. started + 1 \in Run
  BY ProcAssumption DEF Popen, TypeOK, Run
<1> QED  BY <1>1 DEF Popen, Fresh, TypeOK

LEMMA Forked ==
  ASSUME TypeOK, ~Recycle, NEW q \in Pid, NEW p \in Pid, Fork(q, p)
  PROVE  /\ ~Exists(p) /\ p \notin used /\ Group(p) = {} /\ used' = used \cup {p} /\ p # q
         /\ Lives(q) /\ proc[q].run # NoRun
         /\ proc'[p] \in Process
         /\ proc'[p].grp = proc[q].grp /\ proc'[p].run = proc[q].run
         /\ ~proc'[p].child /\ ~proc'[p].zombie
         /\ \A o \in Pid \ {p} : proc'[o] = proc[o]
         /\ UNCHANGED <<pgid, started, pc, run, live, taken, todo, late, alive, signals>>
<1>1. proc[q] \in Process
  BY DEF Fork, Lives, Exists, TypeOK
<1>2. /\ [proc[q] EXCEPT !.child = FALSE] \in Process
      /\ [proc[q] EXCEPT !.child = FALSE].grp = proc[q].grp
      /\ [proc[q] EXCEPT !.child = FALSE].run = proc[q].run
      /\ ~[proc[q] EXCEPT !.child = FALSE].child
      /\ [proc[q] EXCEPT !.child = FALSE].zombie = proc[q].zombie
  BY <1>1 DEF Process
<1>3. /\ proc'[p] = [proc[q] EXCEPT !.child = FALSE]
      /\ \A o \in Pid \ {p} : proc'[o] = proc[o]
  BY DEF Fork, TypeOK
<1> QED  BY <1>2, <1>3 DEF Fork, Fresh, Lives

LEMMA Left ==
  ASSUME TypeOK, NEW q \in Pid, Setsid(q)
  PROVE  /\ Lives(q) /\ proc[q].grp # q /\ Group(q) = {}
         /\ proc'[q] \in Process /\ proc'[q].grp = q /\ proc'[q].run = proc[q].run
         /\ proc'[q].child = proc[q].child /\ ~proc'[q].zombie
         /\ \A o \in Pid \ {q} : proc'[o] = proc[o]
         /\ UNCHANGED <<used, pgid, started, pc, run, live, taken, todo, late, alive, signals>>
<1>1. proc[q] \in Process
  BY DEF Setsid, Lives, Exists, TypeOK
<1>2. /\ [proc[q] EXCEPT !.grp = q] \in Process
      /\ [proc[q] EXCEPT !.grp = q].grp = q
      /\ [proc[q] EXCEPT !.grp = q].run = proc[q].run
      /\ [proc[q] EXCEPT !.grp = q].child = proc[q].child
      /\ [proc[q] EXCEPT !.grp = q].zombie = proc[q].zombie
  BY <1>1 DEF Process
<1>3. /\ proc'[q] = [proc[q] EXCEPT !.grp = q]
      /\ \A o \in Pid \ {q} : proc'[o] = proc[o]
  BY DEF Setsid, TypeOK
<1>4. proc[q].grp # q
  BY DEF Setsid, Group, Lives
<1> QED  BY <1>2, <1>3, <1>4 DEF Setsid, Lives

LEMMA Came ==
  ASSUME TypeOK, ~Recycle, NEW p \in Pid, Stranger(p)
  PROVE  /\ ~Exists(p) /\ p \notin used /\ Group(p) = {} /\ used' = used \cup {p}
         /\ proc'[p] = [grp |-> p, run |-> NoRun, child |-> FALSE, inside |-> FALSE, zombie |-> FALSE]
         /\ \A o \in Pid \ {p} : proc'[o] = proc[o]
         /\ UNCHANGED <<pgid, started, pc, run, live, taken, todo, late, alive, signals>>
BY DEF Stranger, Fresh, TypeOK

LEMMA PidsKept ==
  ASSUME TypeOK, Own, Pids, ~Recycle, [Next]_vars
  PROVE  Pids'
<1>0. /\ started \in Nat /\ NoRun = 0 /\ Free \notin Process
      /\ \A r \in 1..started : r \in Run /\ pgid[r] \in Pid
      /\ \A p \in Pid : Exists(p) => proc[p] \in Process
  <2>1. started \in Nat /\ NoRun = 0 /\ Free \notin Process
    BY ProcAssumption DEF TypeOK, NoRun
  <2>2. \A r \in 1..started : r \in Run /\ pgid[r] \in Pid
    BY ProcAssumption DEF TypeOK, Run, Own, OfRuns
  <2>3. \A p \in Pid : Exists(p) => proc[p] \in Process
    BY DEF TypeOK, Exists
  <2> QED  BY <2>1, <2>2, <2>3
<1>1. CASE Quiet /\ UNCHANGED <<used, pgid, started>>
  <2>1. \A p \in Pid : Exists(p)' =>
          /\ Exists(p) /\ proc'[p].grp = proc[p].grp /\ proc'[p].run = proc[p].run
          /\ proc'[p].child = proc[p].child
          /\ proc'[p].zombie => proc[p].zombie \/ proc[p].child
    BY <1>1 DEF Quiet, Exists
  <2> QED  BY <1>0, <1>1, <2>1 DEF Pids
<1>2. CASE \E t \in Thread, p \in Pid : Popen(t, p)
  <2>1. PICK t \in Thread, p \in Pid : Popen(t, p)
    BY <1>2
  <2>2. /\ ~Exists(p) /\ p \notin used
        /\ started' = started + 1 /\ used' = used \cup {p}
        /\ \A r \in 1..started : pgid'[r] = pgid[r]
        /\ pgid'[started + 1] = p
        /\ Exists(p)' /\ proc'[p].grp = p /\ proc'[p].run = started + 1
        /\ proc'[p].child /\ ~proc'[p].zombie
        /\ \A q \in Pid \ {p} : proc'[q] = proc[q]
    <3>1. proc'[p] = [grp |-> p, run |-> started + 1, child |-> TRUE, inside |-> TRUE, zombie |-> FALSE]
      BY <2>1, Popened
    <3>2. started + 1 \in Run
      BY <2>1, Popened
    <3>3. [grp |-> p, run |-> started + 1, child |-> TRUE, inside |-> TRUE, zombie |-> FALSE] \in Process
      BY <3>2 DEF Process
    <3>4. Exists(p)'
      BY <1>0, <3>1, <3>3 DEF Exists
    <3>5. /\ ~Exists(p) /\ p \notin used /\ started' = started + 1 /\ used' = used \cup {p}
          /\ \A r \in Run : pgid'[r] = IF r = started + 1 THEN p ELSE pgid[r]
          /\ \A q \in Pid \ {p} : proc'[q] = proc[q]
      BY <2>1, Popened
    <3>6. \A r \in 1..started : pgid'[r] = pgid[r]
      BY <1>0, <3>5
    <3> QED  BY <3>1, <3>2, <3>4, <3>5, <3>6
  <2>3. \A r \in 1..started' : r \in 1..started \/ r = started + 1
    BY <1>0, <2>2
  <2>4. \A q \in Pid : q # p => (Exists(q)' <=> Exists(q)) /\ proc'[q] = proc[q]
    BY <2>2 DEF Exists
  <2>5. \A r \in 1..started : pgid[r] # p /\ pgid[r] \in Pid
    BY <1>0, <2>2 DEF Pids
  <2>6. \A r \in 1..started' :
          /\ pgid'[r] \in used'
          /\ Exists(pgid[r])' => proc'[pgid'[r]].grp = pgid'[r] /\ proc'[pgid'[r]].run = r
    BY <1>0, <2>2, <2>3, <2>4, <2>5 DEF Pids
  <2>7. \A r, s \in 1..started' : pgid'[r] = pgid'[s] => r = s
    BY <1>0, <2>2, <2>3, <2>5 DEF Pids
  <2>8. \A q \in Pid : Exists(q)' =>
          /\ q \in used' /\ proc'[q].grp \in used' /\ proc'[q].run \in 0..started'
          /\ proc'[q].zombie => proc'[q].child
          /\ proc'[q].child => proc'[q].run # NoRun /\ pgid'[proc'[q].run] = q
    <3> SUFFICES ASSUME NEW q \in Pid, Exists(q)'
                 PROVE  /\ q \in used' /\ proc'[q].grp \in used' /\ proc'[q].run \in 0..started'
                        /\ proc'[q].zombie => proc'[q].child
                        /\ proc'[q].child => proc'[q].run # NoRun /\ pgid'[proc'[q].run] = q
      OBVIOUS
    <3>1. CASE q = p
      BY <1>0, <2>2, <3>1
    <3>2. CASE q # p
      <4>1. Exists(q) /\ proc'[q] = proc[q]
        BY <2>4, <3>2
      <4>2. proc[q].child => proc[q].run \in 1..started
        BY <1>0, <4>1 DEF Pids
      <4> QED  BY <1>0, <2>2, <4>1, <4>2 DEF Pids
    <3> QED  BY <3>1, <3>2
  <2> QED  BY <2>6, <2>7, <2>8 DEF Pids
<1>3. CASE \E q, p \in Pid : Fork(q, p)
  <2>1. PICK q \in Pid, p \in Pid : Fork(q, p)
    BY <1>3
  <2>2. /\ p \notin used /\ used' = used \cup {p} /\ Exists(q)
        /\ proc'[p].grp = proc[q].grp /\ proc'[p].run = proc[q].run
        /\ ~proc'[p].child /\ ~proc'[p].zombie
        /\ \A o \in Pid \ {p} : proc'[o] = proc[o]
        /\ UNCHANGED <<pgid, started>>
    BY <2>1, Forked DEF Lives
  <2>3. \A o \in Pid : o # p => (Exists(o)' <=> Exists(o)) /\ proc'[o] = proc[o]
    BY <2>2 DEF Exists
  <2>4. \A r \in 1..started : pgid[r] # p /\ pgid[r] \in Pid
    BY <1>0, <2>2 DEF Pids
  <2> QED  BY <1>0, <2>2, <2>3, <2>4 DEF Pids
<1>4. CASE \E q \in Pid : Setsid(q)
  <2>1. PICK q \in Pid : Setsid(q)
    BY <1>4
  <2>2. /\ Exists(q) /\ proc[q].grp # q
        /\ proc'[q].grp = q /\ proc'[q].run = proc[q].run
        /\ proc'[q].child = proc[q].child /\ ~proc'[q].zombie
        /\ \A o \in Pid \ {q} : proc'[o] = proc[o]
        /\ UNCHANGED <<used, pgid, started>>
    BY <2>1, Left DEF Lives
  <2>3. \A o \in Pid : o # q => (Exists(o)' <=> Exists(o)) /\ proc'[o] = proc[o]
    BY <2>2 DEF Exists
  <2>4. \A r \in 1..started : pgid[r] # q /\ pgid[r] \in Pid
    BY <1>0, <2>2 DEF Pids
  <2> QED  BY <1>0, <2>2, <2>3, <2>4 DEF Pids
<1>5. CASE \E p \in Pid : Stranger(p)
  <2>1. PICK p \in Pid : Stranger(p)
    BY <1>5
  <2>2. /\ p \notin used /\ used' = used \cup {p}
        /\ proc'[p].grp = p /\ proc'[p].run = NoRun /\ ~proc'[p].child /\ ~proc'[p].zombie
        /\ \A o \in Pid \ {p} : proc'[o] = proc[o]
        /\ UNCHANGED <<pgid, started>>
    <3>1. /\ p \notin used /\ used' = used \cup {p}
          /\ proc'[p] = [grp |-> p, run |-> NoRun, child |-> FALSE, inside |-> FALSE, zombie |-> FALSE]
      BY <2>1, Came
    <3>2. \A o \in Pid \ {p} : proc'[o] = proc[o]
      BY <2>1, Came
    <3>3. UNCHANGED <<pgid, started>>
      BY <2>1, Came
    <3> QED  BY <3>1, <3>2, <3>3
  <2>3. \A o \in Pid : o # p => (Exists(o)' <=> Exists(o)) /\ proc'[o] = proc[o]
    BY <2>2 DEF Exists
  <2>4. \A r \in 1..started : pgid[r] # p /\ pgid[r] \in Pid
    BY <1>0, <2>2 DEF Pids
  <2> QED  BY <1>0, <2>2, <2>3, <2>4 DEF Pids
<1> QED  BY <1>1, <1>2, <1>3, <1>4, <1>5, StepQuiet, Unchanging DEF Appears

\* Nobody joins a run's group from outside it, and nobody who has died comes
\* back: what is new in the group was forked by somebody living in it.
LEMMA NobodyJoins ==
  ASSUME TypeOK, Own, Pids, ~Recycle, [Next]_vars, NEW r \in 1..started
  PROVE  /\ pgid'[r] = pgid[r]
         /\ \A q \in Members(r)' : \/ q \in Members(r) /\ (proc[q].zombie => proc'[q].zombie)
                                   \/ \E m \in Members(r) : ~proc[m].zombie
         /\ ~Exists(pgid[r]) => ~Exists(pgid[r])'
<1>0. /\ started \in Nat /\ NoRun = 0 /\ r \in Run /\ pgid[r] \in Pid /\ pgid[r] \in used
      /\ Exists(pgid[r]) => proc[pgid[r]].grp = pgid[r] /\ proc[pgid[r]].run = r
  <2>1. started \in Nat /\ NoRun = 0 /\ r \in Run
    BY ProcAssumption DEF TypeOK, NoRun, Run
  <2> QED  BY <2>1 DEF Own, OfRuns, Pids
<1>1. CASE Quiet /\ UNCHANGED <<used, pgid, started>>
  BY <1>0, <1>1 DEF Quiet, Exists, Members
<1>2. CASE \E t \in Thread, p \in Pid : Popen(t, p)
  <2>1. PICK t \in Thread, p \in Pid : Popen(t, p)
    BY <1>2
  <2>2. /\ p \notin used
        /\ proc'[p] = [grp |-> p, run |-> started + 1, child |-> TRUE, inside |-> TRUE,
                       zombie |-> FALSE]
        /\ \A q \in Pid \ {p} : proc'[q] = proc[q]
        /\ \A s \in Run : pgid'[s] = IF s = started + 1 THEN p ELSE pgid[s]
    BY <2>1, Popened
  <2>3. pgid'[r] = pgid[r] /\ pgid[r] # p /\ proc'[p].run # r
    BY <1>0, <2>2
  <2>4. \A q \in Pid \ {p} : (Exists(q)' <=> Exists(q)) /\ proc'[q] = proc[q]
    BY <2>2 DEF Exists
  <2> QED  BY <1>0, <2>3, <2>4 DEF Members
<1>3. CASE \E q, p \in Pid : Fork(q, p)
  <2>1. PICK q \in Pid, p \in Pid : Fork(q, p)
    BY <1>3
  <2>2. /\ p \notin used /\ Lives(q)
        /\ proc'[p].grp = proc[q].grp /\ proc'[p].run = proc[q].run
        /\ \A o \in Pid \ {p} : proc'[o] = proc[o]
        /\ pgid' = pgid
    BY <2>1, Forked
  <2>3. \A o \in Pid \ {p} : (Exists(o)' <=> Exists(o)) /\ proc'[o] = proc[o]
    BY <2>2 DEF Exists
  <2>4. p \in Members(r)' => q \in Members(r) /\ ~proc[q].zombie
    BY <2>2 DEF Members, Lives
  <2> QED  BY <1>0, <2>2, <2>3, <2>4 DEF Members
<1>4. CASE \E q \in Pid : Setsid(q)
  <2>1. PICK q \in Pid : Setsid(q)
    BY <1>4
  <2>2. /\ Lives(q) /\ proc[q].grp # q /\ proc'[q].grp = q
        /\ \A o \in Pid \ {q} : proc'[o] = proc[o]
        /\ pgid' = pgid
    BY <2>1, Left
  <2>3. \A o \in Pid \ {q} : (Exists(o)' <=> Exists(o)) /\ proc'[o] = proc[o]
    BY <2>2 DEF Exists
  <2>4. q # pgid[r]
    BY <1>0, <2>2 DEF Lives
  <2>5. q \notin Members(r)'
    BY <2>2, <2>4 DEF Members
  <2> QED  BY <1>0, <2>2, <2>3, <2>4, <2>5 DEF Members
<1>5. CASE \E p \in Pid : Stranger(p)
  <2>1. PICK p \in Pid : Stranger(p)
    BY <1>5
  <2>2. /\ p \notin used /\ pgid' = pgid
        /\ \A o \in Pid \ {p} : proc'[o] = proc[o]
        /\ proc'[p] = [grp |-> p, run |-> NoRun, child |-> FALSE, inside |-> FALSE, zombie |-> FALSE]
    BY <2>1, Came
  <2>3. proc'[p].run # r
    BY <1>0, <2>2
  <2>4. \A o \in Pid \ {p} : (Exists(o)' <=> Exists(o)) /\ proc'[o] = proc[o]
    BY <2>2 DEF Exists
  <2> QED  BY <1>0, <2>2, <2>3, <2>4 DEF Members
<1> QED  BY <1>1, <1>2, <1>3, <1>4, <1>5, StepQuiet, Unchanging DEF Appears

-----------------------------------------------------------------------------
(* The registry *)

LEMMA TrackedKept ==
  ASSUME TypeOK, Own, Pids, Tracked, [Next]_vars
  PROVE  Tracked'
<1> USE DEF GoTo
<1>0. /\ started \in Nat /\ NoRun = 0 /\ Thread \cap Handler = {} /\ Actor = Thread \cup Handler
      /\ DOMAIN pc = Actor /\ DOMAIN run = Actor /\ DOMAIN live = Pid /\ DOMAIN pgid = Run
      /\ \A r \in 1..started : pgid[r] \in Pid /\ r \in Run
      /\ \A r, s \in 1..started : pgid[r] = pgid[s] => r = s
      /\ \A t \in Thread : pc[t] # "idle" => run[t] \in 1..started
      /\ \A t, u \in Thread : run[t] = run[u] /\ run[t] # NoRun => t = u
  <2>1. started \in Nat /\ NoRun = 0 /\ Thread \cap Handler = {} /\ Actor = Thread \cup Handler
    BY ProcAssumption DEF TypeOK, NoRun, Actor
  <2>2. DOMAIN pc = Actor /\ DOMAIN run = Actor /\ DOMAIN live = Pid /\ DOMAIN pgid = Run
    BY DEF TypeOK
  <2>3. /\ \A r, s \in 1..started : pgid[r] = pgid[s] => r = s
        /\ \A t, u \in Thread : run[t] = run[u] /\ run[t] # NoRun => t = u
    BY DEF Pids, Own, OfThreads
  <2>4. \A r \in 1..started : pgid[r] \in Pid /\ r \in Run
    BY ProcAssumption DEF Own, OfRuns, TypeOK, Run
  <2>5. \A t \in Thread : pc[t] # "idle" => run[t] \in 1..started
    BY <2>1 DEF Own, OfThreads
  <2> QED  BY <2>1, <2>2, <2>3, <2>4, <2>5
<1>1. CASE /\ UNCHANGED <<run, live, pgid, taken>>
           /\ \A t \in Thread : pc'[t] \in {"wait", "kill"} => pc[t] \in {"wait", "kill"}
  BY <1>1 DEF Tracked
<1>2. CASE Machine \/ Signal \/ UNCHANGED vars
  <2>1. \A t \in Thread : pc'[t] \in {"wait", "kill"} => pc[t] \in {"wait", "kill"}
    BY <1>0, <1>2 DEF Machine, Setsid, Exit, Leave, Stranger, Fork, Signal, vars
  <2>2. UNCHANGED <<run, live, pgid, taken>>
    BY <1>2 DEF Machine, Setsid, Exit, Leave, Stranger, Fork, Signal, vars
  <2> QED  BY <1>1, <2>1, <2>2
<1>3. CASE \E a \in Actor : TakeLock(a) \/ List(a) \/ Term(a) \/ Relist(a) \/ SigKill(a)
  <2>1. UNCHANGED <<run, live, pgid, taken>>
    BY <1>3 DEF TakeLock, List, Term, Relist, SigKill
  <2>2. \A t \in Thread : pc'[t] \in {"wait", "kill"} => pc[t] \in {"wait", "kill"}
    BY <1>0, <1>3 DEF TakeLock, List, Term, Relist, SigKill, AfterSweep
  <2> QED  BY <1>1, <2>1, <2>2
<1>4. CASE \E t \in Thread : WaitExit(t) \/ WaitTimeout(t) \/ KillGroup(t) \/ Reap(t)
  <2>1. UNCHANGED <<run, live, pgid, taken>>
    BY <1>4 DEF WaitExit, WaitTimeout, KillGroup, Reap
  <2>2. \A t \in Thread : pc'[t] \in {"wait", "kill"} => pc[t] \in {"wait", "kill"}
    BY <1>0, <1>4 DEF WaitExit, WaitTimeout, KillGroup, Reap
  <2> QED  BY <1>1, <2>1, <2>2
<1>5. CASE \E t \in Thread, p \in Pid : Popen(t, p)
  <2>1. PICK t \in Thread, p \in Pid : Popen(t, p)
    BY <1>5
  <2>2. /\ UNCHANGED <<live, taken>>
        /\ \A u \in Thread : pc'[u] \in {"wait", "kill"} =>
             pc[u] \in {"wait", "kill"} /\ run'[u] = run[u]
        /\ \A r \in 1..started : pgid'[r] = pgid[r]
    BY <1>0, <2>1 DEF Popen
  <2> QED  BY <1>0, <2>2 DEF Tracked
<1>6. CASE \E t \in Thread : Register(t)
  <2>1. PICK t \in Thread : Register(t)
    BY <1>6
  <2>2. /\ UNCHANGED <<run, pgid, taken>> /\ pc[t] = "registering"
        /\ \A u \in Thread : u # t => pc'[u] = pc[u]
        /\ live' = [live EXCEPT ![pgid[run[t]]] = run[t]]
    BY <1>0, <2>1 DEF Register
  <2>3. run[t] \in 1..started /\ pgid[run[t]] \in Pid
    BY <1>0, <2>2
  <2>4. \A u \in Thread : u # t /\ pc[u] \in {"wait", "kill"} => pgid[run[u]] # pgid[run[t]]
    BY <1>0, <2>3
  <2> QED  BY <1>0, <2>2, <2>3, <2>4 DEF Tracked
<1>7. CASE \E t \in Thread : Unregister(t)
  <2>1. PICK t \in Thread : Unregister(t)
    BY <1>7
  <2>2. /\ UNCHANGED <<pgid, taken>> /\ pc[t] = "unregistering" /\ pc'[t] = "idle"
        /\ \A u \in Thread : u # t => pc'[u] = pc[u] /\ run'[u] = run[u]
        /\ live' = [live EXCEPT ![pgid[run[t]]] = NoRun]
    BY <1>0, <2>1 DEF Unregister
  <2>3. run[t] \in 1..started /\ pgid[run[t]] \in Pid
    BY <1>0, <2>2
  <2>4. \A u \in Thread : u # t /\ pc[u] \in {"wait", "kill"} => pgid[run[u]] # pgid[run[t]]
    BY <1>0, <2>3
  <2> QED  BY <1>0, <2>2, <2>3, <2>4 DEF Tracked
<1>8. CASE \E h \in Handler : Snapshot(h)
  <2>1. PICK h \in Handler : Snapshot(h)
    BY <1>8
  <2>2. /\ UNCHANGED <<run, pgid>> /\ \A u \in Thread : pc'[u] = pc[u]
        /\ taken' = taken \cup ({live[p] : p \in Pid} \ {NoRun})
    BY <1>0, <2>1 DEF Snapshot
  <2>3. \A u \in Thread : pc[u] \in {"wait", "kill"} => run[u] \in taken'
    BY <1>0, <2>2 DEF Tracked
  <2> QED  BY <2>2, <2>3 DEF Tracked
<1>9. CASE \E h \in Handler : Die(h) \/ \E r \in Run : KillNext(h, r)
  <2>1. UNCHANGED <<live, pgid, taken>> /\ \A u \in Thread : pc'[u] = pc[u] /\ run'[u] = run[u]
    BY <1>0, <1>9 DEF Die, KillNext
  <2> QED  BY <2>1 DEF Tracked
<1> QED  BY <1>2, <1>3, <1>4, <1>5, <1>6, <1>7, <1>8, <1>9 DEF Next, Step, RunStep, HandlerStep

\* The processes a run may have are its own: TypeOK, Own and Pids together, while
\* no pid is handed out twice.
LEMMA Pidding == ~Recycle => (Spec => [](TypeOK /\ Own /\ Pids))
<1> SUFFICES ASSUME ~Recycle PROVE Spec => [](TypeOK /\ Own /\ Pids)
  OBVIOUS
<1>1. Init => TypeOK /\ Own /\ Pids
  <2> SUFFICES ASSUME Init PROVE TypeOK /\ Own /\ Pids
    OBVIOUS
  <2>1. TypeOK
    BY ProcAssumption DEF Init, TypeOK, NoRun, Actor
  <2>2. OfThreads /\ OfHandlers
    BY ProcAssumption DEF Init, OfThreads, OfHandlers, Actor, NoRun
  <2>3. OfRuns
    BY DEF Init, OfRuns, NoRun
  <2>4. Pids
    BY DEF Init, Pids, Exists
  <2> QED  BY <2>1, <2>2, <2>3, <2>4 DEF Own
<1>2. TypeOK /\ Own /\ Pids /\ [Next]_vars => (TypeOK /\ Own /\ Pids)'
  <2> SUFFICES ASSUME TypeOK, Own, Pids, [Next]_vars PROVE (TypeOK /\ Own /\ Pids)'
    OBVIOUS
  <2>1. proc' \in [Pid -> Process \cup {Free}]
    BY StepQuiet
  <2>2. TypeOK'
    BY <2>1, TypesKept, LockedKept DEF Types, Locked, TypeOK
  <2> QED  BY <2>2, OwnKept, PidsKept
<1> QED  BY <1>1, <1>2, PTL DEF Spec

\* From its registration to its kill a group is known to kill_all, unless a handler
\* has taken it over, for any threads and signals: while no pid is handed out twice,
\* nobody else's registration or removal is under its id.
THEOREM Tracking == ~Recycle => (Spec => []Tracked)
<1> SUFFICES ASSUME ~Recycle PROVE Spec => []Tracked
  OBVIOUS
<1>1. Init => Tracked
  BY ProcAssumption DEF Init, Tracked, Actor
<1>2. TypeOK /\ Own /\ Pids /\ Tracked /\ [Next]_vars => Tracked'
  BY TrackedKept
<1> QED  BY <1>1, <1>2, Pidding, PTL DEF Spec

-----------------------------------------------------------------------------
(* Nothing outlives its run *)

Past == {"list", "term", "relist", "sigkill", "unregister", "unregistering"}

\* Once the wait has returned the leader is gone, and after the kill what is left
\* of the group is dead.
Cleared(t) ==
  /\ pc[t] \in {"kill", "reap"} /\ run[t] \notin late => ~Exists(pgid[run[t]])
  /\ pc[t] = "reap" => \A q \in Members(run[t]) : proc[q].zombie

\* Of a run that every thread is past nothing is left in its group.
Cleaned(r) == (\A t \in Thread : run[t] = r => pc[t] \in Past) => Members(r) = {}

Gone == (\A t \in Thread : Cleared(t)) /\ (\A r \in 1..started : Cleaned(r))

\* What a step does not disturb.
LEMMA ClearedKept ==
  ASSUME TypeOK, Own, Pids, ~Recycle, [Next]_vars, NEW t \in Thread, Cleared(t),
         pc'[t] = pc[t], run'[t] = run[t], late \subseteq late'
  PROVE  Cleared(t)'
<1> SUFFICES ASSUME pc[t] \in {"kill", "reap"} PROVE Cleared(t)'
  BY DEF Cleared
<1>1. run[t] \in 1..started
  BY ProcAssumption DEF Own, OfThreads, TypeOK, NoRun
<1>2. /\ pgid'[run[t]] = pgid[run[t]]
      /\ \A q \in Members(run[t])' :
           \/ q \in Members(run[t]) /\ (proc[q].zombie => proc'[q].zombie)
           \/ \E m \in Members(run[t]) : ~proc[m].zombie
      /\ ~Exists(pgid[run[t]]) => ~Exists(pgid[run[t]])'
  <2> DEFINE r == run[t]
  <2>1. r \in 1..started
    BY <1>1
  <2>2. run'[t] = r
    OBVIOUS
  <2> HIDE DEF r
  <2>3. /\ pgid'[r] = pgid[r]
        /\ \A q \in Pid : Exists(q)' /\ proc'[q].run = r /\ proc'[q].grp = pgid'[r] =>
             \/ q \in Members(r) /\ (proc[q].zombie => proc'[q].zombie)
             \/ \E m \in Members(r) : ~proc[m].zombie
        /\ ~Exists(pgid[r]) => proc'[pgid[r]] = Free
    BY <2>1, NobodyJoins DEF Members, Exists
  <2> QED  BY <2>2, <2>3 DEF r, Members, Exists
<1> QED  BY <1>2 DEF Cleared, Exists, Members

LEMMA CleanedKept ==
  ASSUME TypeOK, Own, Pids, ~Recycle, [Next]_vars, NEW r \in 1..started, Cleaned(r),
         \A t \in Thread : run[t] = r /\ pc[t] \notin Past => run'[t] = r /\ pc'[t] \notin Past
  PROVE  Cleaned(r)'
<1>1. \A q \in Members(r)' : q \in Members(r) \/ \E m \in Members(r) : ~proc[m].zombie
  BY NobodyJoins
<1>2. Members(r) = {} => Members(r)' = {}
  BY <1>1
<1> QED  BY <1>2 DEF Cleaned

LEMMA GoneKept ==
  ASSUME TypeOK, Own, Pids, Gone, ~Recycle, [Next]_vars
  PROVE  Gone'
<1> USE DEF GoTo
<1>0. /\ started \in Nat /\ NoRun = 0 /\ Thread \cap Handler = {} /\ Actor = Thread \cup Handler
      /\ DOMAIN pc = Actor /\ DOMAIN run = Actor
      /\ proc \in [Pid -> Process \cup {Free}]
      /\ \A r \in 1..started : pgid[r] \in Pid /\ r \in Run
      /\ \A t \in Thread : pc[t] # "idle" => run[t] \in 1..started
      /\ \A t, u \in Thread : run[t] = run[u] /\ run[t] # NoRun => t = u
      /\ Pids' /\ TypeOK'
  <2>1. /\ started \in Nat /\ NoRun = 0 /\ Thread \cap Handler = {} /\ Actor = Thread \cup Handler
        /\ proc \in [Pid -> Process \cup {Free}]
    BY ProcAssumption DEF TypeOK, NoRun, Actor
  <2>2. DOMAIN pc = Actor /\ DOMAIN run = Actor
    BY DEF TypeOK
  <2>3. \A r \in 1..started : pgid[r] \in Pid /\ r \in Run
    BY ProcAssumption DEF Own, OfRuns, TypeOK, Run
  <2>4. \A t \in Thread : pc[t] # "idle" => run[t] \in 1..started
    BY <2>1 DEF Own, OfThreads
  <2>5. \A t, u \in Thread : run[t] = run[u] /\ run[t] # NoRun => t = u
    BY DEF Own, OfThreads
  <2>6. proc' \in [Pid -> Process \cup {Free}]
    BY StepQuiet
  <2>7. Pids' /\ TypeOK'
    BY <2>6, PidsKept, TypesKept, LockedKept DEF Types, Locked, TypeOK
  <2> QED  BY <2>1, <2>2, <2>3, <2>4, <2>5, <2>7
\* A step that moves no thread to or from the places the invariant speaks of.
<1>1. ASSUME UNCHANGED <<late, started>>,
             \A t \in Thread :
               /\ pc'[t] \in {"kill", "reap"} => pc'[t] = pc[t] /\ run'[t] = run[t]
               /\ pc[t] \notin Past /\ run[t] \in 1..started => run'[t] = run[t] /\ pc'[t] \notin Past
      PROVE  Gone'
  <2>1. ASSUME NEW t \in Thread PROVE Cleared(t)'
    <3>1. CASE pc'[t] \in {"kill", "reap"}
      <4>1. pc'[t] = pc[t] /\ run'[t] = run[t] /\ Cleared(t) /\ late \subseteq late'
        BY <1>1, <2>1, <3>1 DEF Gone
      <4> QED  BY <2>1, <4>1, ClearedKept
    <3>2. CASE pc'[t] \notin {"kill", "reap"}
      BY <3>2 DEF Cleared
    <3> QED  BY <3>1, <3>2
  <2>2. ASSUME NEW r \in 1..started PROVE Cleaned(r)'
    <3>1. Cleaned(r) /\ \A t \in Thread : run[t] = r /\ pc[t] \notin Past => run'[t] = r /\ pc'[t] \notin Past
      BY <1>1, <2>2 DEF Gone
    <3> QED  BY <2>2, <3>1, CleanedKept
  <2> QED  BY <1>1, <2>1, <2>2 DEF Gone
\* The step of one thread, at work on the same run before and after it.
<1>2. ASSUME NEW t \in Thread, UNCHANGED <<run, started>>, late \subseteq late',
             \A u \in Thread \ {t} : pc'[u] = pc[u],
             Cleared(t)',
             pc[t] \notin Past /\ pc'[t] \in Past => Cleaned(run[t])'
      PROVE  Gone'
  <2>1. ASSUME NEW u \in Thread PROVE Cleared(u)'
    <3>1. CASE u = t
      BY <1>2, <3>1
    <3>2. CASE u # t
      <4>1. pc'[u] = pc[u] /\ run'[u] = run[u] /\ Cleared(u)
        BY <1>2, <2>1, <3>2 DEF Gone
      <4> QED  BY <1>2, <2>1, <4>1, ClearedKept
    <3> QED  BY <3>1, <3>2
  <2>2. ASSUME NEW r \in 1..started PROVE Cleaned(r)'
    <3>1. CASE r = run[t] /\ pc[t] \notin Past /\ pc'[t] \in Past
      BY <1>2, <3>1
    <3>2. CASE ~(r = run[t] /\ pc[t] \notin Past /\ pc'[t] \in Past)
      <4>1. Cleaned(r) /\ \A u \in Thread : run[u] = r /\ pc[u] \notin Past => run'[u] = r /\ pc'[u] \notin Past
        BY <1>2, <2>2, <3>2 DEF Gone
      <4> QED  BY <2>2, <4>1, CleanedKept
    <3> QED  BY <3>1, <3>2
  <2> QED  BY <1>2, <2>1, <2>2 DEF Gone
<1>3. CASE Machine \/ Signal \/ UNCHANGED vars
  <2>1. UNCHANGED <<late, started>> /\ \A t \in Thread : pc'[t] = pc[t] /\ run'[t] = run[t]
    <3>1. CASE Signal
      <4>1. signals + 1 \in Handler
        BY <3>1, ProcAssumption DEF Signal, Handler, TypeOK
      <4> QED  BY <1>0, <3>1, <4>1 DEF Signal
    <3>2. CASE Machine \/ UNCHANGED vars
      BY <3>2 DEF Machine, Setsid, Exit, Leave, Stranger, Fork, vars
    <3> QED  BY <1>3, <3>1, <3>2
  <2> QED  BY <1>1, <2>1
<1>4. CASE \E a \in Actor : TakeLock(a) \/ List(a) \/ Term(a) \/ Relist(a) \/ SigKill(a)
  <2>1. UNCHANGED <<run, late, started>>
    BY <1>4 DEF TakeLock, List, Term, Relist, SigKill
  <2>2. \A t \in Thread :
          /\ pc'[t] \in {"kill", "reap"} => pc'[t] = pc[t]
          /\ pc[t] \notin Past => pc'[t] \notin Past
    BY <1>0, <1>4 DEF TakeLock, List, Term, Relist, SigKill, AfterSweep, Past
  <2> QED  BY <1>1, <2>1, <2>2
<1>5. CASE \E h \in Handler : Snapshot(h) \/ Die(h) \/ \E r \in Run : KillNext(h, r)
  <2>1. UNCHANGED <<late, started>> /\ \A t \in Thread : pc'[t] = pc[t] /\ run'[t] = run[t]
    BY <1>0, <1>5 DEF Snapshot, Die, KillNext
  <2> QED  BY <1>1, <2>1
<1>6. CASE \E t \in Thread : Register(t)
  <2>1. PICK t \in Thread : Register(t)
    BY <1>6
  <2>2. /\ UNCHANGED <<run, late, started>> /\ pc'[t] = "wait"
        /\ \A u \in Thread \ {t} : pc'[u] = pc[u]
    BY <1>0, <2>1 DEF Register
  <2> QED  BY <1>1, <2>2 DEF Past
<1>7. CASE \E t \in Thread : Unregister(t)
  <2>1. PICK t \in Thread : Unregister(t)
    BY <1>7
  <2>2. /\ UNCHANGED <<late, started>> /\ pc[t] = "unregistering" /\ pc'[t] = "idle"
        /\ \A u \in Thread \ {t} : pc'[u] = pc[u] /\ run'[u] = run[u]
    BY <1>0, <2>1 DEF Unregister
  <2> QED  BY <1>1, <2>2 DEF Past
<1>8. CASE \E t \in Thread, p \in Pid : Popen(t, p)
  <2>1. PICK t \in Thread, p \in Pid : Popen(t, p)
    BY <1>8
  <2>2. /\ UNCHANGED late /\ started' = started + 1
        /\ pc[t] = "idle" /\ pc'[t] = "register" /\ run'[t] = started + 1 /\ run[t] = NoRun
        /\ \A u \in Thread \ {t} : pc'[u] = pc[u] /\ run'[u] = run[u]
    <3>1. pc[t] = "idle" /\ run[t] = NoRun
      BY <2>1 DEF Popen, Own, OfThreads
    <3> QED  BY <1>0, <2>1, <3>1 DEF Popen
  <2>3. ASSUME NEW u \in Thread PROVE Cleared(u)'
    <3>1. CASE u = t
      BY <2>2, <3>1 DEF Cleared
    <3>2. CASE u # t
      <4>1. pc'[u] = pc[u] /\ run'[u] = run[u] /\ Cleared(u) /\ late \subseteq late'
        BY <2>2, <2>3, <3>2 DEF Gone
      <4> QED  BY <2>3, <4>1, ClearedKept
    <3> QED  BY <3>1, <3>2
  <2>4. ASSUME NEW r \in 1..started PROVE Cleaned(r)'
    <3>1. Cleaned(r) /\ \A u \in Thread : run[u] = r /\ pc[u] \notin Past => run'[u] = r /\ pc'[u] \notin Past
      BY <1>0, <2>2, <2>4 DEF Gone
    <3> QED  BY <2>4, <3>1, CleanedKept
  <2>5. ASSUME NEW r, r = started + 1 PROVE Cleaned(r)'
    BY <2>2, <2>5 DEF Cleaned, Past
  <2>6. \A r \in 1..started' : r \in 1..started \/ r = started + 1
    BY <1>0, <2>2
  <2> QED  BY <2>3, <2>4, <2>5, <2>6 DEF Gone
<1>9. CASE \E t \in Thread : WaitExit(t)
  <2>1. PICK t \in Thread : WaitExit(t)
    BY <1>9
  <2>2. /\ UNCHANGED <<run, late, started, pgid>> /\ pc[t] = "wait" /\ pc'[t] = "kill"
        /\ \A u \in Thread \ {t} : pc'[u] = pc[u]
        /\ proc' = [proc EXCEPT ![pgid[run[t]]] = Free]
    BY <1>0, <2>1 DEF WaitExit
  <2>3. ~Exists(pgid[run[t]])'
    BY <1>0, <2>2 DEF Exists
  <2>4. Cleared(t)'
    BY <2>2, <2>3 DEF Cleared
  <2> QED  BY <1>2, <2>2, <2>4 DEF Past
<1>10. CASE \E t \in Thread : WaitTimeout(t)
  <2>1. PICK t \in Thread : WaitTimeout(t)
    BY <1>10
  <2>2. /\ UNCHANGED <<run, started>> /\ late' = late \cup {run[t]}
        /\ pc[t] = "wait" /\ pc'[t] = "kill"
        /\ \A u \in Thread \ {t} : pc'[u] = pc[u]
    BY <1>0, <2>1 DEF WaitTimeout
  <2>3. Cleared(t)'
    BY <2>2 DEF Cleared
  <2> QED  BY <1>2, <2>2, <2>3 DEF Past
<1>11. CASE \E t \in Thread : KillGroup(t)
  <2>1. PICK t \in Thread : KillGroup(t)
    BY <1>11
  <2>2. /\ UNCHANGED <<run, late, started, pgid>> /\ pc[t] = "kill" /\ pc'[t] = "reap"
        /\ \A u \in Thread \ {t} : pc'[u] = pc[u]
        /\ proc' = Dead(Group(pgid[run[t]]))
    BY <1>0, <2>1 DEF KillGroup
  <2>3. Quiet /\ \A q \in Group(pgid[run[t]]) \cap Pid : proc'[q] = Free \/ proc'[q].zombie
    BY <1>0, <2>2, DeadQuiet
  <2>4. \A q \in Members(run[t])' : proc'[q].zombie
    BY <2>2, <2>3 DEF Members, Quiet, Group, Exists
  <2>5. run[t] \notin late => ~Exists(pgid[run[t]])'
    <3>1. run[t] \notin late => ~Exists(pgid[run[t]])
      BY <2>2 DEF Gone, Cleared
    <3>2. run[t] \in 1..started /\ pgid[run[t]] \in Pid
      BY <1>0, <2>2
    <3> QED  BY <2>2, <2>3, <3>1, <3>2 DEF Quiet, Exists
  <2>6. Cleared(t)'
    BY <2>2, <2>4, <2>5 DEF Cleared
  <2> QED  BY <1>2, <2>2, <2>6 DEF Past
<1>12. CASE \E t \in Thread : Reap(t)
  <2>1. PICK t \in Thread : Reap(t)
    BY <1>12
  <2>2. /\ UNCHANGED <<run, late, started, pgid>> /\ pc[t] = "reap" /\ pc'[t] \in Past
        /\ \A u \in Thread \ {t} : pc'[u] = pc[u]
        /\ run[t] \in late => proc' = [proc EXCEPT ![pgid[run[t]]] = Free]
        /\ run[t] \notin late => proc' = proc
    BY <1>0, <2>1 DEF Reap, Past
  <2>3. ~Exists(pgid[run[t]])'
    BY <1>0, <2>2 DEF Gone, Cleared, Exists
  <2>4. Quiet
    BY <1>0, <2>2, SameQuiet, FreeQuiet
  <2>5. \A q \in Members(run[t])' : q \in Members(run[t]) /\ proc'[q].zombie
    BY <2>2, <2>4 DEF Members, Quiet, Exists, Gone, Cleared
  <2>6. \A q \in Members(run[t])' : q = pgid'[run[t]]
    BY <1>0, <2>2, <2>5 DEF Pids, Members
  <2>7. Members(run[t])' = {}
    BY <2>2, <2>3, <2>6 DEF Members
  <2>8. Cleared(t)' /\ Cleaned(run[t])'
    BY <2>2, <2>7 DEF Cleared, Cleaned, Past
  <2> QED  BY <1>2, <2>2, <2>8
<1> QED  BY <1>3, <1>4, <1>5, <1>6, <1>7, <1>8, <1>9, <1>10, <1>11, <1>12
         DEF Next, Step, RunStep, HandlerStep

\* "The group is always killed before returning, so nothing it started outlives it",
\* for any threads, commands, forks and signals: while no pid is handed out twice,
\* nothing can join a group that has been killed.
THEOREM Outliving == ~Recycle => (Spec => []NothingOutlives)
<1> SUFFICES ASSUME ~Recycle PROVE Spec => []NothingOutlives
  OBVIOUS
<1>1. Init => Gone
  BY ProcAssumption DEF Init, Gone, Cleared, Cleaned, Actor
<1>2. TypeOK /\ Own /\ Pids /\ Gone /\ [Next]_vars => Gone'
  BY GoneKept
<1>3. Gone => NothingOutlives
  BY DEF Gone, Cleaned, NothingOutlives, Past
<1> QED  BY <1>1, <1>2, <1>3, Pidding, PTL DEF Spec

-----------------------------------------------------------------------------
(* What the handler found registered does not outlive the tool *)

Corpses(r) == \A q \in Members(r) : proc[q].zombie

\* Nothing is taken over before the one handler copies the registry; then a group
\* is still to be killed or already dead, and when the tool is gone nothing is left.
Doomed ==
  /\ \A h \in Handler : alive /\ pc[h] \in {"off", "handle", "handling"} => taken = {}
  /\ alive => \A r \in taken : Corpses(r) \/ \E h \in Handler : r \in todo[h]
  /\ ~alive => \A r \in taken : Members(r) = {}

\* A group that is dead stays dead, and one that has gone stays away.
LEMMA CorpsesKept ==
  ASSUME TypeOK, Own, Pids, ~Recycle, [Next]_vars, NEW r \in 1..started
  PROVE  /\ Corpses(r) => Corpses(r)'
         /\ Members(r) = {} => Members(r)' = {}
<1>1. \A q \in Members(r)' : \/ q \in Members(r) /\ (proc[q].zombie => proc'[q].zombie)
                             \/ \E m \in Members(r) : ~proc[m].zombie
  BY NobodyJoins
<1> QED  BY <1>1 DEF Corpses

LEMMA DoomedKept ==
  ASSUME TypeOK, Own, Pids, Doomed, ~Recycle, MaxSignals <= 1, [Next]_vars
  PROVE  Doomed'
<1> USE DEF GoTo, Running
<1>0. /\ Thread \cap Handler = {} /\ Actor = Thread \cup Handler
      /\ DOMAIN pc = Actor /\ DOMAIN todo = Handler
      /\ proc \in [Pid -> Process \cup {Free}]
      /\ \A h, k \in Handler : h = k
      /\ \A r \in 1..started : pgid[r] \in Pid
      /\ \A r \in taken : r \in 1..started
  <2>1. /\ Thread \cap Handler = {} /\ Actor = Thread \cup Handler
        /\ DOMAIN pc = Actor /\ DOMAIN todo = Handler
        /\ proc \in [Pid -> Process \cup {Free}]
    BY ProcAssumption DEF TypeOK, Actor
  <2>2. \A h, k \in Handler : h = k
    BY ProcAssumption DEF Handler
  <2>3. /\ \A r \in 1..started : pgid[r] \in Pid
        /\ \A r \in taken : r \in 1..started
    BY DEF Own, OfRuns
  <2> QED  BY <2>1, <2>2, <2>3
\* A step that leaves the registry, the handler's list and its place in it alone.
<1>1. ASSUME UNCHANGED <<taken, todo, alive>>,
             \A h \in Handler : pc'[h] \in {"off", "handle", "handling"} =>
                                  pc[h] \in {"off", "handle", "handling"}
      PROVE  Doomed'
  <2>1. \A r \in taken : (Corpses(r) => Corpses(r)') /\ (Members(r) = {} => Members(r)' = {})
    BY <1>0, CorpsesKept
  <2>2. alive' => \A r \in taken' : Corpses(r)' \/ \E h \in Handler : r \in todo'[h]
    BY <1>1, <2>1 DEF Doomed
  <2>3. ~alive' => \A r \in taken' : Members(r)' = {}
    BY <1>1, <2>1 DEF Doomed
  <2>4. \A h \in Handler : alive' /\ pc'[h] \in {"off", "handle", "handling"} => taken' = {}
    BY <1>1 DEF Doomed
  <2> QED  BY <2>2, <2>3, <2>4 DEF Doomed
<1>2. CASE Machine \/ UNCHANGED vars
  <2>1. UNCHANGED <<taken, todo, alive, pc>>
    BY <1>2 DEF Machine, Setsid, Exit, Leave, Stranger, Fork, vars
  <2> QED  BY <1>1, <2>1
<1>3. CASE Signal
  <2>1. /\ UNCHANGED <<taken, todo, alive>> /\ signals + 1 \in Handler
        /\ signals' = signals + 1
    BY <1>3, ProcAssumption DEF Signal, Handler, TypeOK
  <2>2. pc[signals + 1] = "off"
    BY <2>1, ProcAssumption DEF Own, OfHandlers, TypeOK
  <2>3. \A h \in Handler : h = signals + 1
    BY <1>0, <2>1
  <2> QED  BY <1>1, <2>1, <2>2, <2>3
<1>4. CASE \E a \in Actor : TakeLock(a) \/ List(a) \/ Term(a) \/ Relist(a) \/ SigKill(a)
  <2>1. UNCHANGED <<taken, todo, alive>>
    BY <1>4 DEF TakeLock, List, Term, Relist, SigKill
  <2>2. \A h \in Handler : pc'[h] \in {"off", "handle", "handling"} =>
                             pc[h] \in {"off", "handle", "handling"}
    BY <1>0, <1>4 DEF TakeLock, List, Term, Relist, SigKill, AfterSweep
  <2> QED  BY <1>1, <2>1, <2>2
<1>5. CASE \E t \in Thread : RunStep(t)
  <2>1. UNCHANGED <<taken, todo, alive>>
    BY <1>5 DEF RunStep, Popen, Register, WaitExit, WaitTimeout, KillGroup, Reap, Unregister
  <2>2. \A h \in Handler : pc'[h] = pc[h]
    BY <1>0, <1>5 DEF RunStep, Popen, Register, WaitExit, WaitTimeout, KillGroup, Reap, Unregister
  <2> QED  BY <1>1, <2>1, <2>2
<1>6. CASE \E h \in Handler : Snapshot(h)
  <2>1. PICK h \in Handler : Snapshot(h)
    BY <1>6
  <2>2. /\ alive /\ alive' /\ pc[h] = "handling" /\ pc'[h] = "next"
        /\ todo'[h] = {live[p] : p \in Pid} \ {NoRun} /\ taken' = taken \cup todo'[h]
    BY <1>0, <2>1 DEF Snapshot
  <2>3. taken = {}
    BY <2>2 DEF Doomed
  <2>4. \A r \in taken' : \E k \in Handler : r \in todo'[k]
    BY <2>2, <2>3
  <2>5. \A k \in Handler : pc'[k] = "next"
    BY <1>0, <2>2
  <2> QED  BY <2>2, <2>4, <2>5 DEF Doomed
<1>7. CASE \E h \in Handler, r \in Run : KillNext(h, r)
  <2>1. PICK h \in Handler, r \in Run : KillNext(h, r)
    BY <1>7
  <2>2. /\ alive /\ alive' /\ UNCHANGED <<taken, started, pgid>>
        /\ pc'[h] \in {"list", "next"}
        /\ todo'[h] = todo[h] \ {r} /\ proc' = Dead(Group(pgid[r]))
    BY <1>0, <2>1 DEF KillNext
  <2>3. Quiet /\ \A q \in Group(pgid[r]) \cap Pid : proc'[q] = Free \/ proc'[q].zombie
    BY <1>0, <2>2, DeadQuiet
  <2>4. Corpses(r)'
    BY <2>2, <2>3 DEF Corpses, Members, Quiet, Group, Exists
  <2>5. ASSUME NEW s \in taken' PROVE Corpses(s)' \/ \E k \in Handler : s \in todo'[k]
    <3>1. CASE s = r
      BY <2>4, <3>1
    <3>2. CASE s # r /\ Corpses(s)
      BY <1>0, <2>2, <2>5, <3>2, CorpsesKept
    <3>3. CASE s # r /\ ~Corpses(s)
      BY <1>0, <2>2, <2>5, <3>3 DEF Doomed
    <3> QED  BY <3>1, <3>2, <3>3
  <2>6. \A k \in Handler : pc'[k] \in {"list", "next"}
    BY <1>0, <2>2
  <2> QED  BY <2>2, <2>5, <2>6 DEF Doomed
<1>8. CASE \E h \in Handler : Die(h)
  <2>1. PICK h \in Handler : Die(h)
    BY <1>8
  <2>2. /\ alive /\ ~alive' /\ UNCHANGED <<taken, pgid>> /\ todo[h] = {}
        /\ proc' = [q \in Pid |-> IF Exists(q) /\ proc[q].zombie THEN Free ELSE proc[q]]
    BY <2>1 DEF Die
  <2>3. \A r \in taken : Corpses(r)
    BY <1>0, <2>2 DEF Doomed
  <2>4. \A r \in taken' : Members(r)' = {}
    BY <2>2, <2>3 DEF Corpses, Members, Exists
  <2> QED  BY <2>2, <2>4 DEF Doomed
<1> QED  BY <1>2, <1>3, <1>4, <1>5, <1>6, <1>7, <1>8 DEF Next, Step, HandlerStep

\* Of what a handler found registered nothing is running in its group once the tool
\* is gone, for any threads and commands: while no pid is handed out twice and only
\* one termination signal comes. A second handler may end the tool before the first
\* has killed its groups, so the condition cannot be dropped.
THEOREM Killing == ~Recycle /\ MaxSignals <= 1 => (Spec => []RegisteredKilled)
<1> SUFFICES ASSUME ~Recycle, MaxSignals <= 1 PROVE Spec => []RegisteredKilled
  OBVIOUS
<1>1. Init => Doomed
  BY DEF Init, Doomed
<1>2. TypeOK /\ Own /\ Pids /\ Doomed /\ [Next]_vars => Doomed'
  BY DoomedKept
<1>3. Doomed => RegisteredKilled
  BY DEF Doomed, RegisteredKilled
<1> QED  BY <1>1, <1>2, <1>3, Pidding, PTL DEF Spec

-----------------------------------------------------------------------------
(* Whose group a timeout kills, when pids are handed out again *)

\* The tool has not yet waited for the leader of the thread's command.
Unreaped(t) ==
  \/ pc[t] \in {"register", "registering", "wait"}
  \/ pc[t] \in {"kill", "reap"} /\ run[t] \in late

\* The leader's pid is not free, so the group's id is nobody else's either.
Holds(r) ==
  /\ Exists(pgid[r]) /\ proc[pgid[r]].child /\ proc[pgid[r]].grp = pgid[r]
  /\ \A q \in Group(pgid[r]) : proc[q].run = r

Ours == alive => \A t \in Thread : Unreaped(t) => Holds(run[t])

\* A child of the tool is there until the tool waits for it.
LEMMA ChildStays ==
  ASSUME TypeOK, [Next]_vars, alive', NEW g \in Pid, Exists(g), proc[g].child,
         \A t \in Thread : WaitExit(t) \/ (Reap(t) /\ run[t] \in late) => pgid[run[t]] # g
  PROVE  Exists(g)'
<1>0. /\ proc \in [Pid -> Process \cup {Free}] /\ Free \notin Process
      /\ proc[g] \in Process
  BY ProcAssumption DEF TypeOK, Exists
<1>1. ASSUME NEW S, proc' = Dead(S) PROVE Exists(g)'
  <2>1. proc'[g] = proc[g] \/ proc'[g] = [proc[g] EXCEPT !.zombie = TRUE]
    BY <1>1 DEF Dead
  <2>2. [proc[g] EXCEPT !.zombie = TRUE] \in Process
    BY <1>0 DEF Process
  <2> QED  BY <1>0, <2>1, <2>2 DEF Exists
<1>2. ASSUME proc' = proc PROVE Exists(g)'
  BY <1>2 DEF Exists
<1>3. ASSUME NEW p \in Pid, NEW z \in Process, proc' = [proc EXCEPT ![p] = z] PROVE Exists(g)'
  BY <1>0, <1>3 DEF Exists
<1>4. CASE Signal \/ UNCHANGED vars \/ \E a \in Actor : TakeLock(a) \/ List(a) \/ Relist(a)
  BY <1>2, <1>4 DEF Signal, vars, TakeLock, List, Relist
<1>5. CASE \E a \in Actor : Term(a) \/ SigKill(a)
  BY <1>1, <1>5 DEF Term, SigKill
<1>6. CASE \E t \in Thread : Register(t) \/ WaitTimeout(t) \/ Unregister(t)
  BY <1>2, <1>6 DEF Register, WaitTimeout, Unregister
<1>7. CASE \E t \in Thread : WaitExit(t) \/ (Reap(t) /\ run[t] \in late)
  <2>1. PICK t \in Thread : WaitExit(t) \/ (Reap(t) /\ run[t] \in late)
    BY <1>7
  <2>2. proc' = [proc EXCEPT ![pgid[run[t]]] = Free]
    BY <2>1 DEF WaitExit, Reap
  <2>3. pgid[run[t]] # g
    BY <2>1
  <2> QED  BY <1>0, <2>2, <2>3 DEF Exists
<1>8. CASE \E t \in Thread : Reap(t) /\ run[t] \notin late
  BY <1>2, <1>8 DEF Reap
<1>9. CASE \E t \in Thread : KillGroup(t)
  BY <1>1, <1>9 DEF KillGroup
<1>10. CASE \E h \in Handler : HandlerStep(h)
  BY <1>1, <1>2, <1>10 DEF HandlerStep, Snapshot, KillNext, Die
<1>11. CASE \E q \in Pid : Exit(q)
  BY <1>1, <1>11 DEF Exit
<1>12. CASE \E q \in Pid : Leave(q)
  <2>1. PICK q \in Pid : Exists(q) /\ proc' = [proc EXCEPT ![q] = [proc[q] EXCEPT !.inside = FALSE]]
    BY <1>12 DEF Leave, Lives
  <2>2. [proc[q] EXCEPT !.inside = FALSE] \in Process
    BY <1>0, <2>1 DEF Process, Exists
  <2> QED  BY <1>3, <2>1, <2>2
<1>13. CASE \E q \in Pid : Setsid(q)
  <2>1. PICK q \in Pid : Setsid(q)
    BY <1>13
  <2>2. proc'[q] \in Process /\ \A o \in Pid \ {q} : proc'[o] = proc[o]
    BY <2>1, Left
  <2> QED  BY <1>0, <2>2 DEF Exists
<1>14. CASE \E p \in Pid : Stranger(p) \/ (\E q \in Pid : Fork(q, p)) \/ \E t \in Thread : Popen(t, p)
  <2>1. PICK p \in Pid : Fresh(p) /\ \A o \in Pid \ {p} : proc'[o] = proc[o]
    BY <1>0, <1>14 DEF Stranger, Fork, Popen
  <2>2. p # g
    BY <2>1 DEF Fresh
  <2> QED  BY <2>1, <2>2 DEF Exists
<1> QED  BY <1>4, <1>5, <1>6, <1>7, <1>8, <1>9, <1>10, <1>11, <1>12, <1>13, <1>14
         DEF Next, Machine, Step, RunStep

\* While the leader is there nobody else can be in its group.
LEMMA HoldsKept ==
  ASSUME TypeOK, Own, [Next]_vars, NEW r \in 1..started, Holds(r), Exists(pgid[r])'
  PROVE  pgid'[r] = pgid[r] /\ Holds(r)'
<1>0. /\ proc \in [Pid -> Process \cup {Free}] /\ Free \notin Process
      /\ started \in Nat /\ r \in Run /\ pgid[r] \in Pid
      /\ \A q \in Pid : Exists(q) => proc[q] \in Process
  <2>1. proc \in [Pid -> Process \cup {Free}] /\ Free \notin Process /\ started \in Nat
    BY ProcAssumption DEF TypeOK
  <2>2. r \in Run /\ pgid[r] \in Pid
    BY <2>1, ProcAssumption DEF Own, OfRuns, TypeOK, Run
  <2> QED  BY <2>1, <2>2 DEF Exists
<1>1. pgid'[r] = pgid[r] /\ Exists(pgid[r]) /\ proc'[pgid[r]] # Free
  <2>1. pgid'[r] = pgid[r]
    <3>1. CASE \E t \in Thread, p \in Pid : Popen(t, p)
      BY <1>0, <3>1 DEF Popen
    <3>2. CASE Appears /\ ~\E t \in Thread, p \in Pid : Popen(t, p)
      BY <3>2 DEF Appears, Fork, Setsid, Stranger
    <3>3. CASE ~Appears
      BY <3>3, Unchanging
    <3> QED  BY <3>1, <3>2, <3>3
  <2> QED  BY <2>1 DEF Holds, Exists
<1>2. SUFFICES /\ proc'[pgid[r]].child /\ proc'[pgid[r]].grp = pgid[r]
               /\ \A q \in Pid : proc'[q] # Free /\ proc'[q].grp = pgid[r] => proc'[q].run = r
  BY <1>1 DEF Holds, Group, Exists
<1>3. CASE Quiet
  BY <1>0, <1>1, <1>3 DEF Quiet, Holds, Group, Exists
<1>4. CASE \E p \in Pid : Stranger(p) \/ \E t \in Thread : Popen(t, p)
  <2>1. PICK p \in Pid : /\ Fresh(p) /\ proc'[p].grp = p
                         /\ \A o \in Pid \ {p} : proc'[o] = proc[o]
    BY <1>0, <1>4 DEF Stranger, Popen
  <2>2. p # pgid[r]
    BY <1>1, <2>1 DEF Fresh
  <2> QED  BY <1>0, <2>1, <2>2 DEF Holds, Group, Exists
<1>5. CASE \E q, p \in Pid : Fork(q, p)
  <2>1. PICK q \in Pid, p \in Pid : Fork(q, p)
    BY <1>5
  <2>2. proc[q] \in Process /\ Exists(q)
    BY <1>0, <2>1 DEF Fork, Lives
  <2>3. /\ [proc[q] EXCEPT !.child = FALSE].grp = proc[q].grp
        /\ [proc[q] EXCEPT !.child = FALSE].run = proc[q].run
    BY <2>2 DEF Process
  <2>4. /\ proc'[p].grp = proc[q].grp /\ proc'[p].run = proc[q].run
        /\ \A o \in Pid \ {p} : proc'[o] = proc[o]
    BY <1>0, <2>1, <2>3 DEF Fork
  <2>5. p # pgid[r]
    BY <1>1, <2>1 DEF Fork, Fresh
  <2> QED  BY <1>0, <2>2, <2>4, <2>5 DEF Holds, Group, Exists
<1>6. CASE \E q \in Pid : Setsid(q)
  <2>1. PICK q \in Pid : Setsid(q)
    BY <1>6
  <2>2. /\ Group(q) = {} /\ proc'[q].grp = q
        /\ \A o \in Pid \ {q} : proc'[o] = proc[o]
    BY <2>1, Left
  <2>3. q # pgid[r]
    BY <1>0, <1>1, <2>2 DEF Holds, Group
  <2> QED  BY <1>0, <2>2, <2>3 DEF Holds, Group, Exists
<1> QED  BY <1>3, <1>4, <1>5, <1>6, StepQuiet DEF Appears

LEMMA OursKept ==
  ASSUME TypeOK, Own, Ours, [Next]_vars
  PROVE  Ours'
<1> USE DEF GoTo, Running
<1>0. /\ Thread \cap Handler = {} /\ Actor = Thread \cup Handler /\ NoRun = 0 /\ started \in Nat
      /\ DOMAIN pc = Actor /\ DOMAIN run = Actor
      /\ proc \in [Pid -> Process \cup {Free}]
      /\ \A r \in 1..started : pgid[r] \in Pid
      /\ \A t \in Thread : pc[t] # "idle" => run[t] \in 1..started
      /\ \A t, u \in Thread : run[t] = run[u] /\ run[t] # NoRun => t = u
      /\ \A t \in Thread : pc[t] \in {"register", "registering", "wait"} => run[t] \notin late
  <2>1. /\ Thread \cap Handler = {} /\ Actor = Thread \cup Handler /\ NoRun = 0
        /\ started \in Nat /\ proc \in [Pid -> Process \cup {Free}]
    BY ProcAssumption DEF TypeOK, NoRun, Actor
  <2>2. DOMAIN pc = Actor /\ DOMAIN run = Actor
    BY DEF TypeOK
  <2>3. /\ \A r \in 1..started : pgid[r] \in Pid
        /\ \A t \in Thread : pc[t] \in {"register", "registering", "wait"} => run[t] \notin late
        /\ \A t, u \in Thread : run[t] = run[u] /\ run[t] # NoRun => t = u
    BY DEF Own, OfRuns, OfThreads
  <2>4. \A t \in Thread : pc[t] # "idle" => run[t] \in 1..started
    BY <2>1 DEF Own, OfThreads
  <2> QED  BY <2>1, <2>2, <2>3, <2>4
<1> SUFFICES ASSUME alive', NEW t \in Thread, Unreaped(t)' PROVE Holds(run[t])'
  BY DEF Ours
<1>1. alive
  BY DEF Next, Machine, Step, RunStep, HandlerStep, vars, Signal, TakeLock, List, Term, Relist, SigKill,
         Popen, Register, WaitExit, WaitTimeout, KillGroup, Reap, Unregister, Snapshot, KillNext, Die,
         Setsid, Exit, Leave, Fork, Stranger
\* The command has just been started.
<1>2. CASE \E p \in Pid : Popen(t, p)
  <2>1. PICK p \in Pid : Popen(t, p)
    BY <1>2
  <2>2. started + 1 \in Run
    BY <1>0, <2>1, ProcAssumption DEF Popen, Run
  <2>3. /\ ~Exists(p) /\ Group(p) = {} /\ run'[t] = started + 1 /\ pgid'[started + 1] = p
        /\ proc'[p] = [grp |-> p, run |-> started + 1, child |-> TRUE, inside |-> TRUE, zombie |-> FALSE]
        /\ \A o \in Pid \ {p} : proc'[o] = proc[o]
    BY <1>0, <2>1, <2>2 DEF Popen, Fresh, TypeOK
  <2>4. [grp |-> p, run |-> started + 1, child |-> TRUE, inside |-> TRUE, zombie |-> FALSE] \in Process
    BY <2>2 DEF Process
  <2>5. Free \notin Process
    BY ProcAssumption
  <2>6. /\ proc'[p] # Free /\ proc'[p].child /\ proc'[p].grp = p /\ proc'[p].run = started + 1
        /\ \A q \in Pid : proc'[q] # Free /\ proc'[q].grp = p => proc'[q].run = started + 1
    <3>1. proc'[p].child /\ proc'[p].grp = p /\ proc'[p].run = started + 1 /\ proc'[p] \in Process
      BY <2>3, <2>4
    <3>2. proc'[p] # Free
      BY <2>5, <3>1
    <3>3. \A q \in Pid \ {p} : proc'[q] # Free => proc'[q].grp # p
      BY <2>3 DEF Group, Exists
    <3> QED  BY <3>1, <3>2, <3>3
  <2>7. ASSUME NEW r, r = started + 1 PROVE Holds(r)'
    BY <2>3, <2>6, <2>7 DEF Holds, Group, Exists
  <2> QED  BY <2>3, <2>7
\* It was running before.
<1>3. CASE ~\E p \in Pid : Popen(t, p)
  <2>1. run'[t] = run[t] /\ Unreaped(t)
    <3>1. CASE Machine \/ UNCHANGED vars
      <4>1. UNCHANGED <<pc, run, late>>
        BY <3>1 DEF Machine, Setsid, Exit, Leave, Fork, Stranger, vars
      <4> QED  BY <4>1 DEF Unreaped
    <3>2. CASE Signal
      <4>1. UNCHANGED <<run, late>> /\ signals + 1 \in Handler
        BY <3>2, ProcAssumption DEF Signal, Handler, TypeOK
      <4>2. pc'[t] = pc[t]
        BY <1>0, <3>2, <4>1 DEF Signal
      <4> QED  BY <4>1, <4>2 DEF Unreaped
    <3>3. CASE \E a \in Actor : TakeLock(a) \/ List(a) \/ Term(a) \/ Relist(a) \/ SigKill(a)
      <4>1. UNCHANGED <<run, late>>
        BY <3>3 DEF TakeLock, List, Term, Relist, SigKill
      <4>2. pc'[t] \in {"register", "registering", "wait", "kill", "reap"} =>
              \/ pc'[t] = pc[t]
              \/ {pc[t], pc'[t]} \subseteq {"register", "registering", "wait"}
        <5>1. PICK a \in Actor : TakeLock(a) \/ List(a) \/ Term(a) \/ Relist(a) \/ SigKill(a)
          BY <3>3
        <5>2. CASE TakeLock(a)
          BY <1>0, <5>2 DEF TakeLock
        <5>3. CASE List(a) \/ Term(a) \/ Relist(a) \/ SigKill(a)
          BY <1>0, <5>3 DEF List, Term, Relist, SigKill, AfterSweep
        <5> QED BY <5>1, <5>2, <5>3
      <4> QED  BY <4>1, <4>2 DEF Unreaped
    <3>4. CASE \E h \in Handler : HandlerStep(h)
      <4>1. UNCHANGED late /\ pc'[t] = pc[t] /\ run'[t] = run[t]
        <5>1. PICK h \in Handler : HandlerStep(h)
          BY <3>4
        <5>2. t # h
          BY <1>0, <5>1
        <5>3. CASE Snapshot(h) \/ Die(h)
          BY <1>0, <5>2, <5>3 DEF Snapshot, Die, GoTo
        <5>4. CASE \E r \in Run : KillNext(h, r)
          BY <1>0, <5>2, <5>4 DEF KillNext, GoTo
        <5> QED BY <5>1, <5>3, <5>4 DEF HandlerStep
      <4> QED  BY <4>1 DEF Unreaped
    <3>5. CASE \E u \in Thread \ {t} : RunStep(u)
      <4>1. PICK u \in Thread \ {t} : RunStep(u)
        BY <3>5
      <4>2. pc'[t] = pc[t] /\ run'[t] = run[t]
        BY <1>0, <4>1 DEF RunStep, Popen, Register, WaitExit, WaitTimeout, KillGroup, Reap, Unregister
      <4>3. late' = late \/ (pc[u] = "wait" /\ late' = late \cup {run[u]})
        BY <4>1 DEF RunStep, Popen, Register, WaitExit, WaitTimeout, KillGroup, Reap, Unregister
      <4>4. pc[t] # "idle" /\ pc[u] = "wait" => run[t] # run[u]
        BY <1>0, <4>1
      <4> QED  BY <4>2, <4>3, <4>4 DEF Unreaped
    <3>6. CASE RunStep(t)
      BY <1>0, <1>3, <3>6
         DEF RunStep, Register, WaitExit, WaitTimeout, KillGroup, Reap, Unregister, Unreaped
    <3> QED  BY <3>1, <3>2, <3>3, <3>4, <3>5, <3>6 DEF Next, Step
  <2>2. Holds(run[t]) /\ run[t] \in 1..started /\ pgid[run[t]] \in Pid
    BY <1>0, <1>1, <2>1 DEF Ours, Unreaped
  <2>3. \A u \in Thread : WaitExit(u) \/ (Reap(u) /\ run[u] \in late) => pgid[run[u]] # pgid[run[t]]
    <3> SUFFICES ASSUME NEW u \in Thread, WaitExit(u) \/ (Reap(u) /\ run[u] \in late)
                 PROVE  pgid[run[u]] # pgid[run[t]]
      OBVIOUS
    <3>1. Unreaped(u) /\ pc[u] # "idle" /\ ~Unreaped(u)'
      BY <1>0 DEF WaitExit, Reap, Unreaped
    <3>2. u # t /\ Holds(run[u]) /\ run[u] # run[t]
      BY <1>0, <1>1, <2>1, <2>2, <3>1 DEF Ours
    <3> QED  BY <2>2, <3>2 DEF Holds, Group, Exists
  <2>4. Exists(pgid[run[t]]) /\ proc[pgid[run[t]]].child
    BY <2>2 DEF Holds
  <2> DEFINE r == run[t]  g == pgid[r]
  <2>5. proc'[g] # Free
    <3>1. g \in Pid /\ Exists(g) /\ proc[g].child
          /\ \A u \in Thread : WaitExit(u) \/ (Reap(u) /\ run[u] \in late) => pgid[run[u]] # g
      BY <2>2, <2>3, <2>4
    <3> HIDE DEF g
    <3> QED  BY <3>1, ChildStays DEF Exists
  <2>6. r \in 1..started /\ Holds(r) /\ run'[t] = r
    BY <2>1, <2>2
  <2> QED
    <3>1. pgid'[r] = g
      <4>1. CASE \E u \in Thread, p \in Pid : Popen(u, p)
        BY <1>0, <2>6, <4>1 DEF Popen
      <4>2. CASE Appears /\ ~\E u \in Thread, p \in Pid : Popen(u, p)
        BY <4>2 DEF Appears, Fork, Setsid, Stranger
      <4>3. CASE ~Appears
        BY <4>3, Unchanging
      <4> QED  BY <4>1, <4>2, <4>3
    <3>2. proc'[pgid'[r]] # Free
      BY <2>5, <3>1
    <3> HIDE DEF r
    <3>3. ASSUME NEW s, s = r PROVE Holds(s)'
      BY <2>6, <3>2, <3>3, HoldsKept DEF Exists
    <3> QED  BY <2>6, <3>3 DEF Holds
<1> QED  BY <1>2, <1>3

\* Only the kill of the group leads from "kill" to "reap".
LEMMA ReachesReap ==
  ASSUME TypeOK, [Next]_vars, NEW t \in Thread, pc[t] = "kill", pc'[t] = "reap"
  PROVE  KillGroup(t)
<1> USE DEF GoTo
<1>0. Thread \cap Handler = {} /\ Actor = Thread \cup Handler /\ DOMAIN pc = Actor
  BY ProcAssumption DEF TypeOK, Actor
<1>1. ~(Machine \/ UNCHANGED vars)
  BY DEF Machine, Setsid, Exit, Leave, Fork, Stranger, vars
<1>2. ~Signal
  BY <1>0 DEF Signal
<1>3. ~\E a \in Actor : TakeLock(a) \/ List(a) \/ Term(a) \/ Relist(a) \/ SigKill(a)
  BY <1>0 DEF TakeLock, List, Term, Relist, SigKill, AfterSweep
<1>4. ~\E h \in Handler : HandlerStep(h)
  BY <1>0 DEF HandlerStep, Snapshot, KillNext, Die
<1>5. \A u \in Thread : RunStep(u) => KillGroup(u) /\ u = t
  BY <1>0 DEF RunStep, Popen, Register, WaitExit, WaitTimeout, KillGroup, Reap, Unregister
<1> QED  BY <1>1, <1>2, <1>3, <1>4, <1>5 DEF Next, Step

\* On a timeout the kill hits nobody but the command's own processes, however fast
\* pids are handed out again: the leader, unreaped, keeps the group's id from others.
THEOREM Hitting == Spec => TimeoutHitsOwn
<1>1. Init => Ours
  BY ProcAssumption DEF Init, Ours, Unreaped, Actor
<1>2. TypeOK /\ Own /\ Ours /\ [Next]_vars => Ours'
  BY OursKept
<1>3. ASSUME TypeOK, Own, Ours, [Next]_vars
      PROVE  [\A t \in Thread :
                 pc[t] = "kill" /\ pc'[t] = "reap" /\ run[t] \in late =>
                   \A q \in Pid : proc'[q] # proc[q] => proc[q].run = run[t]]_vars
  <2> SUFFICES ASSUME NEW t \in Thread, pc[t] = "kill", pc'[t] = "reap", run[t] \in late,
                      NEW q \in Pid, proc'[q] # proc[q]
               PROVE  proc[q].run = run[t]
    OBVIOUS
  <2>1. KillGroup(t)
    BY <1>3, ReachesReap
  <2>2. alive /\ proc' = Dead(Group(pgid[run[t]]))
    BY <2>1 DEF KillGroup, GoTo, Running
  <2>3. Holds(run[t])
    BY <1>3, <2>2 DEF Ours, Unreaped
  <2> QED  BY <2>2, <2>3 DEF Holds, Dead
<1> QED  BY <1>1, <1>2, <1>3, Owning, PTL DEF Spec, TimeoutHitsOwn

-----------------------------------------------------------------------------
(* Nothing waits for ever *)

\* How many steps a thread or handler can still take before it is through: five for
\* each group that a handler has still to kill, and the stages ahead.
StepsLeft(a) ==
  LET rest == IF a \in Thread THEN 2 ELSE 5 * Cardinality(todo[a]) + 1
  IN CASE pc[a] \in {"idle", "off"} -> 0
       [] pc[a] = "unregistering"   -> 1
       [] pc[a] = "unregister"      -> 2
       [] pc[a] = "next"            -> rest
       [] pc[a] = "sigkill"         -> rest + 1
       [] pc[a] = "relist"          -> rest + 2
       [] pc[a] = "term"            -> rest + 3
       [] pc[a] = "list"            -> rest + 4
       [] pc[a] = "reap"            -> 7
       [] pc[a] = "kill"            -> 8
       [] pc[a] = "wait"            -> 9
       [] pc[a] = "registering"     -> 10
       [] pc[a] = "register"        -> 11
       [] pc[a] = "handling"        -> 5 * MaxRuns + 2
       [] pc[a] = "handle"          -> 5 * MaxRuns + 3

\* Every step of a thread or handler, but the start of a command and of the handler
\* itself, brings it closer to its end, and no step of others takes it back.
Advances ==
  \A a \in Actor :
    \/ pc[a] \in {"idle", "off"}
    \/ StepsLeft(a)' < StepsLeft(a)
    \/ ~Step(a) /\ StepsLeft(a)' = StepsLeft(a)

\* The second proc.wait, which has no timeout, finds the leader dead.
Reapable ==
  alive => \A t \in Thread : pc[t] = "reap" /\ run[t] \in late => proc[pgid[run[t]]].zombie

\* Who a step is not of is left where it is.
LEMMA OthersStay ==
  ASSUME TypeOK, Own, [Next]_vars, NEW a \in Actor, ~Step(a), pc[a] # "off"
  PROVE  /\ UNCHANGED <<pc[a], run[a]>>
         /\ a \in Handler => todo'[a] = todo[a]
<1> USE DEF GoTo, Running
<1>0. /\ DOMAIN pc = Actor /\ DOMAIN run = Actor /\ DOMAIN todo = Handler
      /\ Thread \cap Handler = {} /\ Actor = Thread \cup Handler
  BY ProcAssumption DEF TypeOK, Actor
<1>1. CASE Machine \/ UNCHANGED vars
  BY <1>1 DEF Machine, Setsid, Exit, Leave, Fork, Stranger, vars
<1>2. CASE Signal
  <2>1. signals + 1 \in Handler /\ pc[signals + 1] = "off"
    BY <1>2, ProcAssumption DEF Signal, Handler, TypeOK, Own, OfHandlers
  <2> QED BY <1>0, <1>2, <2>1 DEF Signal
<1>3. ASSUME NEW b \in Actor \ {a}, TakeLock(b) \/ List(b) \/ Term(b) \/ Relist(b) \/ SigKill(b)
      PROVE  UNCHANGED <<pc[a], run[a]>> /\ todo' = todo
  BY <1>0, <1>3 DEF TakeLock, List, Term, Relist, SigKill
<1>4. ASSUME NEW b \in Thread \ {a}, RunStep(b)
      PROVE  UNCHANGED <<pc[a], run[a]>> /\ todo' = todo
  BY <1>0, <1>4 DEF RunStep, Popen, Register, WaitExit, WaitTimeout, KillGroup, Reap, Unregister
<1>5. ASSUME NEW b \in Handler \ {a}, HandlerStep(b)
      PROVE  UNCHANGED <<pc[a], run[a]>> /\ (a \in Handler => todo'[a] = todo[a])
  BY <1>0, <1>5 DEF HandlerStep, Snapshot, KillNext, Die
<1> QED BY <1>1, <1>2, <1>3, <1>4, <1>5 DEF Next, Step

LEMMA TodoBounded ==
  ASSUME NEW T \in SUBSET Run
  PROVE  IsFiniteSet(T) /\ Cardinality(T) \in Nat /\ Cardinality(T) <= MaxRuns
<1>1. IsFiniteSet(Run) /\ Cardinality(Run) = MaxRuns
  BY ProcAssumption, FS_Interval DEF Run
<1> QED BY <1>1, FS_Subset, FS_CardinalityType

LEMMA ThreadAdvances ==
  ASSUME TypeOK, Own, NEW t \in Thread, Step(t), pc[t] # "idle"
  PROVE  StepsLeft(t)' < StepsLeft(t)
<1>0. /\ t \in Actor /\ DOMAIN pc = Actor /\ t \notin Handler
  BY ProcAssumption DEF TypeOK, Actor
<1>1. \/ pc[t] = "register" /\ pc'[t] = "registering"
      \/ pc[t] = "unregister" /\ pc'[t] = "unregistering"
      \/ pc[t] = "registering" /\ pc'[t] = "wait"
      \/ pc[t] = "wait" /\ pc'[t] = "kill"
      \/ pc[t] = "kill" /\ pc'[t] = "reap"
      \/ pc[t] = "reap" /\ pc'[t] \in {"list", "unregister"}
      \/ pc[t] = "list" /\ pc'[t] \in {"term", "unregister"}
      \/ pc[t] = "term" /\ pc'[t] = "relist"
      \/ pc[t] = "relist" /\ pc'[t] = "sigkill"
      \/ pc[t] = "sigkill" /\ pc'[t] = "unregister"
      \/ pc[t] = "unregistering" /\ pc'[t] = "idle"
  <2>1. CASE TakeLock(t)
    BY <1>0, <2>1 DEF TakeLock, GoTo, Own, OfThreads
  <2>2. CASE List(t) \/ Term(t) \/ Relist(t) \/ SigKill(t)
    BY <1>0, <2>2 DEF List, Term, Relist, SigKill, AfterSweep, GoTo
  <2>3. CASE RunStep(t)
    BY <1>0, <2>3 DEF RunStep, Popen, Register, WaitExit, WaitTimeout, KillGroup, Reap, Unregister, GoTo
  <2> QED BY <1>0, <2>1, <2>2, <2>3 DEF Step
<1> QED BY <1>1 DEF StepsLeft

LEMMA HandlerAdvances ==
  ASSUME TypeOK, Own, NEW h \in Handler, Step(h)
  PROVE  StepsLeft(h)' < StepsLeft(h)
<1>0. /\ h \in Actor /\ DOMAIN pc = Actor /\ DOMAIN todo = Handler /\ h \notin Thread
      /\ todo[h] \in SUBSET Run /\ MaxRuns \in Nat
  BY ProcAssumption DEF TypeOK, Actor
<1> DEFINE k == Cardinality(todo[h])
           k1 == Cardinality(todo'[h])
<1>1. k \in Nat /\ k <= MaxRuns
  BY <1>0, TodoBounded
<1>2. /\ pc[h] = "handle" => StepsLeft(h) = 5 * MaxRuns + 3
      /\ pc[h] = "handling" => StepsLeft(h) = 5 * MaxRuns + 2
      /\ pc[h] = "list" => StepsLeft(h) = 5 * k + 5
      /\ pc[h] = "term" => StepsLeft(h) = 5 * k + 4
      /\ pc[h] = "relist" => StepsLeft(h) = 5 * k + 3
      /\ pc[h] = "sigkill" => StepsLeft(h) = 5 * k + 2
      /\ pc[h] = "next" => StepsLeft(h) = 5 * k + 1
  BY <1>0, <1>1 DEF StepsLeft
<1>3. /\ pc'[h] = "handling" => StepsLeft(h)' = 5 * MaxRuns + 2
      /\ pc'[h] = "list" => StepsLeft(h)' = 5 * k1 + 1 + 4
      /\ pc'[h] = "term" => StepsLeft(h)' = 5 * k1 + 1 + 3
      /\ pc'[h] = "relist" => StepsLeft(h)' = 5 * k1 + 1 + 2
      /\ pc'[h] = "sigkill" => StepsLeft(h)' = 5 * k1 + 1 + 1
      /\ pc'[h] = "next" => StepsLeft(h)' = 5 * k1 + 1
      /\ pc'[h] = "off" => StepsLeft(h)' = 0
  BY <1>0 DEF StepsLeft
<1>4. todo' = todo => k1 = k
  OBVIOUS
<1>5. CASE TakeLock(h)
  <2>1. pc[h] = "handle" /\ pc'[h] = "handling"
    BY <1>0, <1>5 DEF TakeLock, GoTo, Own, OfHandlers
  <2> HIDE DEF k, k1
  <2> QED BY <1>0, <1>2, <1>3, <2>1
<1>6. CASE List(h) \/ Term(h) \/ Relist(h) \/ SigKill(h)
  <2>1. /\ \/ pc[h] = "list" /\ pc'[h] \in {"term", "next"}
           \/ pc[h] = "term" /\ pc'[h] = "relist"
           \/ pc[h] = "relist" /\ pc'[h] = "sigkill"
           \/ pc[h] = "sigkill" /\ pc'[h] = "next"
        /\ todo' = todo
    BY <1>0, <1>6 DEF List, Term, Relist, SigKill, AfterSweep, GoTo
  <2> HIDE DEF k, k1
  <2> QED BY <1>1, <1>2, <1>3, <1>4, <2>1
<1>7. CASE Snapshot(h)
  <2>1. pc[h] = "handling" /\ pc'[h] = "next" /\ todo'[h] = {live[p] : p \in Pid} \ {NoRun}
    BY <1>0, <1>7 DEF Snapshot, GoTo
  <2>2. todo'[h] \in SUBSET Run
    BY <2>1 DEF TypeOK
  <2>3. k1 \in Nat /\ k1 <= MaxRuns
    BY <2>2, TodoBounded
  <2> HIDE DEF k, k1
  <2> QED BY <1>0, <1>2, <1>3, <2>1, <2>3
<1>8. ASSUME NEW r \in Run, KillNext(h, r)
      PROVE  StepsLeft(h)' < StepsLeft(h)
  <2>1. pc[h] = "next" /\ pc'[h] \in {"list", "next"} /\ r \in todo[h] /\ todo'[h] = todo[h] \ {r}
    BY <1>0, <1>8 DEF KillNext, GoTo
  <2>2. k1 = k - 1
    <3>1. IsFiniteSet(todo[h])
      BY <1>0, TodoBounded
    <3> QED BY <2>1, <3>1, FS_RemoveElement
  <2> HIDE DEF k, k1
  <2> QED BY <1>1, <1>2, <1>3, <2>1, <2>2
<1>9. CASE Die(h)
  <2>1. pc[h] = "next" /\ pc'[h] = "off"
    BY <1>0, <1>9 DEF Die, GoTo
  <2> HIDE DEF k, k1
  <2> QED BY <1>1, <1>2, <1>3, <2>1
<1> QED BY <1>0, <1>5, <1>6, <1>7, <1>8, <1>9 DEF Step, HandlerStep

LEMMA AllAdvance ==
  ASSUME TypeOK, Own, [Next]_vars
  PROVE  Advances
<1> SUFFICES ASSUME NEW a \in Actor, pc[a] \notin {"idle", "off"}
             PROVE  StepsLeft(a)' < StepsLeft(a) \/ (~Step(a) /\ StepsLeft(a)' = StepsLeft(a))
  BY DEF Advances
<1>1. CASE Step(a)
  BY <1>1, ThreadAdvances, HandlerAdvances DEF Actor
<1>2. CASE ~Step(a)
  <2>1. pc'[a] = pc[a] /\ (a \in Handler => todo'[a] = todo[a])
    BY <1>2, OthersStay
  <2>2. a \in Thread \/ todo'[a] = todo[a]
    BY <2>1 DEF Actor
  <2> QED BY <1>2, <2>1, <2>2 DEF StepsLeft
<1> QED BY <1>1, <1>2

\* The leader that the kill of a timeout hits stays dead until it is reaped.
LEMMA ReapableKept ==
  ASSUME TypeOK, Own, Ours, Reapable, [Next]_vars
  PROVE  Reapable'
<1> USE DEF GoTo, Running
<1> SUFFICES ASSUME alive', NEW t \in Thread, pc'[t] = "reap", run'[t] \in late'
             PROVE  proc'[pgid'[run'[t]]].zombie
  BY DEF Reapable
<1> DEFINE r == run[t]
           g == pgid[r]
<1>0. /\ t \in Actor /\ t \notin Handler /\ DOMAIN pc = Actor /\ DOMAIN run = Actor
      /\ proc \in [Pid -> Process \cup {Free}] /\ Free \notin Process
  BY ProcAssumption DEF TypeOK, Actor
<1>1. Ours'
  BY OursKept
<1>2. alive /\ pc[t] # "off"
  BY DEF Next, Machine, Step, RunStep, HandlerStep, vars, Signal, TakeLock, List, Term, Relist, SigKill,
         Popen, Register, WaitExit, WaitTimeout, KillGroup, Reap, Unregister, Snapshot, KillNext, Die,
         Setsid, Exit, Leave, Fork, Stranger, Own, OfThreads
<1>3. \/ KillGroup(t)
      \/ pc[t] = "reap" /\ run'[t] = run[t]
  <2>1. CASE Step(t)
    BY <1>0, <2>1
       DEF Step, TakeLock, List, Term, Relist, SigKill, AfterSweep, RunStep, Popen, Register, WaitExit,
           WaitTimeout, KillGroup, Reap, Unregister
  <2>2. CASE ~Step(t)
    BY <1>0, <1>2, <2>2, OthersStay
  <2> QED BY <2>1, <2>2
<1>4. run'[t] = r /\ r \in late
  <2>1. CASE KillGroup(t)
    BY <2>1 DEF KillGroup
  <2>2. CASE pc[t] = "reap" /\ run'[t] = run[t]
    <3>1. late' = late \/ \E u \in Thread : pc[u] = "wait" /\ late' = late \cup {run[u]}
      BY DEF Next, Machine, Step, RunStep, HandlerStep, vars, Signal, TakeLock, List, Term, Relist, SigKill,
             Popen, Register, WaitExit, WaitTimeout, KillGroup, Reap, Unregister, Snapshot, KillNext, Die,
             Setsid, Exit, Leave, Fork, Stranger
    <3>2. \A u \in Thread : pc[u] = "wait" => run[u] # run[t]
      BY <2>2 DEF Own, OfThreads
    <3> QED BY <2>2, <3>1, <3>2
  <2> QED BY <1>3, <2>1, <2>2
<1>5. Holds(r) /\ r \in 1..started /\ g \in Pid
  <2>1. Unreaped(t)
    BY <1>3, <1>4 DEF Unreaped, KillGroup
  <2>2. pc[t] # "idle"
    BY <2>1 DEF Unreaped
  <2> QED BY <1>2, <2>1, <2>2 DEF Ours, Own, OfThreads, OfRuns, NoRun, TypeOK
<1>6. pgid'[r] = g
  <2>1. CASE \E u \in Thread, p \in Pid : Popen(u, p)
    <3>1. r # started + 1
      BY <1>5, ProcAssumption DEF TypeOK
    <3>2. \E p \in Pid : pgid' = [pgid EXCEPT ![started + 1] = p]
      BY <2>1 DEF Popen
    <3> QED BY <3>1, <3>2
  <2>2. CASE Appears /\ ~\E u \in Thread, p \in Pid : Popen(u, p)
    BY <2>2 DEF Appears, Fork, Setsid, Stranger
  <2>3. CASE ~Appears
    BY <2>3, Unchanging
  <2> QED BY <2>1, <2>2, <2>3
<1>7. CASE KillGroup(t)
  <2>1. g \in Group(g) /\ proc[g].child /\ proc[g] \in Process
    BY <1>0, <1>5 DEF Holds, Group, Exists
  <2>2. proc' = Dead(Group(g)) /\ pgid' = pgid
    BY <1>7 DEF KillGroup
  <2>3. proc'[g] = [proc[g] EXCEPT !.zombie = TRUE]
    BY <1>5, <2>1, <2>2 DEF Dead, Holds
  <2>4. proc'[g].zombie
    BY <2>1, <2>3 DEF Process
  <2> QED BY <1>4, <2>2, <2>4
<1>8. CASE pc[t] = "reap" /\ run'[t] = run[t]
  <2>1. proc[g].zombie
    BY <1>2, <1>4, <1>8 DEF Reapable
  <2>2. pgid'[r] = g /\ proc'[g] # Free
    <3>1. pgid'[run'[t]] = g
      BY <1>4, <1>6
    <3>2. Holds(run[t])'
      BY <1>1 DEF Ours, Unreaped
    <3> QED BY <1>6, <3>1, <3>2 DEF Holds, Exists
  <2> HIDE DEF g, r
  <2>3. CASE Quiet
    <3>1. proc'[g].zombie
      BY <1>5, <2>1, <2>2, <2>3 DEF Quiet
    <3> QED BY <1>4, <2>2, <3>1
  <2>4. CASE Appears
    <3>1. proc[g] # Free
      BY <1>5 DEF Holds, Exists, g
    <3>2. proc'[g] = proc[g]
      <4>1. CASE \E q \in Pid : Setsid(q)
        BY <1>5, <2>1, <4>1, Left DEF Lives
      <4>2. CASE \E p \in Pid : Fresh(p) /\ \E z : proc' = [proc EXCEPT ![p] = z]
        BY <1>0, <1>5, <3>1, <4>2 DEF Fresh, Exists
      <4> QED BY <2>4, <4>1, <4>2 DEF Appears, Popen, Fork, Stranger
    <3> QED BY <1>4, <2>1, <2>2, <3>2
  <2> QED BY <1>4, <2>1, <2>2, <2>3, <2>4, StepQuiet
<1> QED BY <1>3, <1>7, <1>8

\* A thread that has started a command and a handler take a bounded number of steps,
\* whatever the others do, and a thread that has killed a command that ran too long does not
\* wait for a leader that is still running.
THEOREM Advancing == Spec => []Reapable /\ [][Advances]_vars
<1>1. Init => Ours /\ Reapable
  BY ProcAssumption DEF Init, Ours, Unreaped, Actor, Reapable
<1>2. TypeOK /\ Own /\ Ours /\ Reapable /\ [Next]_vars => Ours' /\ Reapable'
  BY OursKept, ReapableKept
<1>3. TypeOK /\ Own /\ [Next]_vars => [Advances]_vars
  BY AllAdvance
<1> QED  BY <1>1, <1>2, <1>3, Owning, PTL DEF Spec

\* A main thread that runs no command has none of the stages of one.
Waits == pc[Main] = "idle"

\* With one signal, and commands on other threads than the one that signals interrupt,
\* whoever holds _lock can go on and release it, so kill_all gets it.
THEOREM HolderGoesOn ==
  Main \notin Runners /\ MaxSignals <= 1 =>
    (Spec => [](alive /\ lock # NoActor => Running(lock)))
<1> SUFFICES ASSUME Main \notin Runners, MaxSignals <= 1
             PROVE  Spec => [](alive /\ lock # NoActor => Running(lock))
  OBVIOUS
<1>1. Init => Waits
  BY ProcAssumption DEF Init, Waits, Actor
<1>2. TypeOK /\ Own /\ Waits /\ [Next]_vars => Waits'
  <2> SUFFICES ASSUME TypeOK, Own, Waits, [Next]_vars PROVE Waits'
    OBVIOUS
  <2>1. Main \in Thread /\ Main \in Actor /\ Main \notin Handler
    BY ProcAssumption DEF Actor
  <2>2. ~Step(Main)
    BY <2>1 DEF Waits, Step, TakeLock, List, Term, Relist, SigKill, RunStep, Popen, Register, WaitExit,
                WaitTimeout, KillGroup, Reap, Unregister, GoTo
  <2> QED BY <2>1, <2>2, OthersStay DEF Waits
<1>3. TypeOK /\ Own /\ Waits => (alive /\ lock # NoActor => Running(lock))
  <2> SUFFICES ASSUME TypeOK, Own, Waits, alive, lock # NoActor PROVE Running(lock)
    OBVIOUS
  <2>1. lock \in Actor /\ pc[lock] \in {"registering", "unregistering", "handling"}
    BY DEF TypeOK
  <2>2. lock # Main
    BY <2>1 DEF Waits
  <2>3. ASSUME lock \in Handler PROVE lock = signals
    <3>1. lock <= signals /\ lock \in 1 .. MaxSignals /\ signals \in 0 .. MaxSignals
      BY <2>1, <2>3, ProcAssumption DEF Own, OfHandlers, Handler, TypeOK
    <3> QED BY <3>1, ProcAssumption
  <2> QED BY <2>2, <2>3 DEF Running
<1> QED  BY <1>1, <1>2, <1>3, Owning, PTL DEF Spec
=============================================================================
