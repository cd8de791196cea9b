------------------------- MODULE MutationCheckProofs -------------------------
(***************************************************************************)
(* Proofs about MutationCheck, for any number of copies and mutants, any   *)
(* budget and any limits: types, the budget, the pool of copies, and that  *)
(* on an undisturbed machine slowness never counts as a kill; and about     *)
(* MutationMain: all of that holds behind main, and mutants are made only  *)
(* of what the user has agreed to.                                         *)
(***************************************************************************)
EXTENDS MutationMain, FiniteSetTheorems, TLAPS

LEMMA Laws ==
  /\ \A a \in Nat, b \in Nat : Larger(a, b) \in Nat /\ Larger(a, b) >= a /\ Larger(a, b) >= b
  /\ \A a \in Nat, b \in Nat : Smaller(a, b) \in Nat /\ Smaller(a, b) <= a /\ Smaller(a, b) <= b
  BY DEF Larger, Smaller

LEMMA Contents ==
  /\ Absent \in Content /\ Touched \in Content /\ Mutated \in Content
  /\ \A v \in Version : v \in Content /\ v # Absent
  /\ 0 \in Version
  BY MutationAssumption DEF Content, Version, Absent, Touched, Mutated

LEMMA RestoredType ==
  ASSUME Types, NEW t \in [File -> Content]
  PROVE  Restored(t) \in [File -> Content]
  BY DEF Types, Restored, Content

LEMMA ScribbledType ==
  ASSUME NEW t \in [File -> Content], NEW S \in SUBSET File
  PROVE  Scribbled(t, S) \in [File -> Content]
  BY Contents DEF Scribbled

LEMMA JudgedType ==
  ASSUME NEW r \in [Mutant -> Result], NEW base
  PROVE  Judged(r, base) \in [Mutant -> Result] /\ AllUnverified(r) \in [Mutant -> Result]
  BY DEF Judged, AllUnverified, Result, Status

LEMMA FailType ==
  ASSUME Types, NEW t \in Worker, NEW s \in Status, job[t] \in Mutant, Fail(t, s)
  PROVE  /\ job' \in [Worker -> Mutant \cup {0}]
         /\ copy' \in [Worker -> Worker \cup {NoCopy}]
         /\ step' \in [Worker -> {"idle", "take", "start", "run", "reset"}]
         /\ run' \in [Worker -> TestRun]
         /\ results' \in [Mutant -> Result]
<1>1. NoRun \in TestRun
  BY DEF NoRun, TestRun
<1>2. [results[job[t]] EXCEPT !.status = s] \in Result
  <2>1. results[job[t]] \in Result
    BY DEF Types
  <2> QED BY <2>1 DEF Result
<1> QED BY <1>1, <1>2 DEF Fail, Types

\* A thread that is at work has a mutant, and from Start on a copy; copies are
\* made of the checkout, and all that are made are free until a thread starts.
SlotInv ==
  /\ Types
  /\ \A t \in Worker : step[t] = "idle" <=> job[t] = 0
  /\ \A t \in Worker : step[t] \in {"start", "run", "reset"} => copy[t] \in Worker
  /\ phase = "copy" => \A w \in free : tree[w] \in [File -> Version \cup {Absent}]
  /\ phase # "run" => \A t \in Worker : step[t] = "idle"
  /\ phase \in {"baseline", "calibrate", "limit"} => free = Worker

-----------------------------------------------------------------------------
(* Types and jobs *)

LEMMA SlotInit == Init => SlotInv
<1> SUFFICES ASSUME Init PROVE SlotInv
  OBVIOUS
<1>1. NoResult \in Result /\ NoRun \in TestRun
  BY DEF NoResult, NoRun, Result, TestRun, Status
<1>2. Types
  BY <1>1, Contents, MutationAssumption DEF Init, Types, Mutant, NoExit
<1> QED BY <1>2, MutationAssumption DEF Init, SlotInv

LEMMA TypesStep == SlotInv /\ [Next]_vars => Types'
<1> SUFFICES ASSUME SlotInv, [Next]_vars PROVE Types'
  OBVIOUS
<1> USE DEF SlotInv
<1>0. /\ Mutants \in Nat /\ MaxEdits \in Nat /\ First \in Worker
      /\ MinRun \in Nat /\ MaxRun \in Nat /\ MinTimeout \in Nat /\ Requests \subseteq Nat
      /\ Budget \in Nat
  BY MutationAssumption
<1>1. ASSUME NEW f \in File, Edit(f) PROVE Types'
  BY <1>0, <1>1 DEF Edit, Types, Version, jobs
<1>2. ASSUME NEW w \in Worker, Copy(w) PROVE Types'
  <2>1. tree' \in [Worker -> [File -> Content]]
    BY <1>2, Contents DEF Copy, Types, Content
  <2>2. pristine' \in [File -> Version \cup {Absent}]
    <3>1. \A v \in free \cup {w} : tree'[v] \in [File -> Version \cup {Absent}]
      BY <1>2 DEF Copy, Types
    <3>2. pristine' = pristine \/ (First \in free \cup {w} /\ pristine' = tree'[First])
      <4>1. CASE free' = Worker
        <5>1. pristine' = tree'[First] /\ free' = free \cup {w}
          BY <1>2, <4>1 DEF Copy
        <5> QED BY <1>0, <4>1, <5>1
      <4>2. CASE free' # Worker
        BY <1>2, <4>2 DEF Copy
      <4> QED BY <4>1, <4>2
    <3> QED BY <3>1, <3>2 DEF Types
  <2> QED BY <1>2, <2>1, <2>2 DEF Copy, Types, inputs
<1>3. CASE Baseline
  <2>1. tree' \in [Worker -> [File -> Content]] /\ loaded' \in Nat
    <3>1. PICK S \in SUBSET File :
            \/ UNCHANGED <<tree, loaded>>
            \/ /\ tree' = [tree EXCEPT ![First] = Restored(Scribbled(tree[First], S))]
               /\ loaded' \in Durations \/ UNCHANGED loaded
      BY <1>3 DEF Baseline
    <3>2. Restored(Scribbled(tree[First], S)) \in [File -> Content]
      BY <1>0, RestoredType, ScribbledType DEF Types
    <3> QED BY <1>0, <3>1, <3>2 DEF Types, Durations
  <2>2. phase' \in {"baseline", "calibrate", "limit", "done"} /\ exit' \in {exit, 2}
    BY <1>3 DEF Baseline, Stop
  <2> QED BY <1>3, <2>1, <2>2 DEF Baseline, Types, inputs, jobs
<1>4. CASE Calibrate
  <2>1. tree' \in [Worker -> [File -> Content]] /\ loaded' \in Nat
    <3>1. PICK S \in [Worker -> SUBSET File] :
            \/ UNCHANGED <<tree, loaded>>
            \/ /\ tree' = [w \in Worker |-> Restored(Scribbled(tree[w], S[w]))]
               /\ (\E d \in Durations : loaded' = Larger(loaded, d)) \/ UNCHANGED loaded
      BY <1>4 DEF Calibrate
    <3>2. \A w \in Worker : Restored(Scribbled(tree[w], S[w])) \in [File -> Content]
      BY <1>0, RestoredType, ScribbledType DEF Types
    <3> QED BY <1>0, <3>1, <3>2 DEF Types, Durations, Larger
  <2>2. phase' \in {"calibrate", "limit", "done"} /\ exit' \in {exit, 2}
    BY <1>4 DEF Calibrate, Stop
  <2> QED BY <1>4, <2>1, <2>2 DEF Calibrate, Types, inputs, jobs
<1>5. CASE SetLimit
  BY <1>0, <1>5 DEF SetLimit, Larger, Types, inputs, jobs
<1>6. ASSUME NEW t \in Worker, Begin(t) PROVE Types'
  <2>1. next \in Mutant /\ next' \in 1 .. Mutants + 1
    BY <1>0, <1>6 DEF Begin, Types, Mutant
  <2>2. results' \in [Mutant -> Result]
    <3>1. results[next] \in Result
      BY <2>1 DEF Types
    <3>2. [results[next] EXCEPT !.status = "skipped_budget"] \in Result
      BY <3>1 DEF Result, Status
    <3> QED BY <1>6, <3>2 DEF Begin, Types
  <2>3. /\ job' \in [Worker -> Mutant \cup {0}]
        /\ step' \in [Worker -> {"idle", "take", "start", "run", "reset"}]
    <3>1. \/ UNCHANGED <<job, step>>
          \/ job' = [job EXCEPT ![t] = next] /\ step' = [step EXCEPT ![t] = "take"]
      BY <1>6 DEF Begin
    <3>2. /\ job \in [Worker -> Mutant \cup {0}]
          /\ step \in [Worker -> {"idle", "take", "start", "run", "reset"}]
      BY DEF Types
    <3> QED BY <2>1, <3>1, <3>2
  <2>4. UNCHANGED <<inputs, phase, tree, pristine, loaded, limit, left, free, copy, run, exit>>
    BY <1>6 DEF Begin
  <2> QED BY <2>1, <2>2, <2>3, <2>4 DEF Types, inputs
<1>7. ASSUME NEW t \in Worker, Take(t) PROVE Types'
  <2>1. job[t] \in Mutant /\ FileOf[job[t]] \in File
    BY <1>7, MutationAssumption DEF Take, Types
  <2>2. CASE Fail(t, "index_error") /\ UNCHANGED <<tree, free>>
    BY <1>7, <2>1, <2>2, FailType DEF Take, Types, Status, inputs
  <2>3. ASSUME NEW c \in free, free' = free \ {c}, Fail(t, "os_error"), UNCHANGED tree PROVE Types'
    BY <1>7, <2>1, <2>3, FailType DEF Take, Types, Status, inputs
  <2>4. ASSUME NEW c \in free, free' = free \ {c},
               copy' = [copy EXCEPT ![t] = c],
               tree' = [tree EXCEPT ![c][FileOf[job[t]]] = Mutated],
               step' = [step EXCEPT ![t] = "start"],
               UNCHANGED <<job, run, results>>
        PROVE  Types'
    <3>1. tree' \in [Worker -> [File -> Content]]
      BY <2>1, <2>4, Contents DEF Types
    <3> QED BY <1>7, <2>4, <3>1 DEF Take, Types, inputs
  <2> QED BY <1>7, <2>2, <2>3, <2>4 DEF Take
<1>8. ASSUME NEW t \in Worker, Start(t) PROVE Types'
  <2>1. CutLimit \in Nat
    BY Laws DEF Types, CutLimit
  <2>2. \A o \in Outcomes(job[t], Others(t) = pristine) :
          o.ends \in {"survived", "killed", "error", "hang"} /\ o.due \in Nat
    BY <1>0 DEF Outcomes, Durations
  <2>3. run' \in [Worker -> TestRun]
    BY <1>8, <2>1, <2>2 DEF Start, Types, TestRun
  <2> QED BY <1>8, <2>3 DEF Start, Types, inputs
<1>9. ASSUME NEW t \in Worker, Finish(t) PROVE Types'
  <2>1. job[t] \in Mutant
    BY <1>9 DEF Finish, Types
  <2>2. run[t] \in TestRun /\ NoRun \in TestRun
    BY DEF Types, TestRun, NoRun
  <2>3. results' \in [Mutant -> Result]
    BY <1>9, <2>1, <2>2 DEF Finish, Types, TestRun, Result
  <2>4. tree' \in [Worker -> [File -> Content]]
    <3>1. PICK S \in SUBSET File : tree' = [tree EXCEPT ![copy[t]] = Scribbled(@, S)]
      BY <1>9 DEF Finish
    <3> QED BY <3>1, ScribbledType DEF Types
  <2> QED BY <1>9, <2>2, <2>3, <2>4 DEF Finish, Types, inputs
<1>10. ASSUME NEW t \in Worker, Reset(t) PROVE Types'
  <2>1. job[t] \in Mutant /\ FileOf[job[t]] \in File
    BY <1>10, MutationAssumption DEF Reset, Types
  <2> DEFINE back == [tree[copy[t]] EXCEPT ![FileOf[job[t]]] = Touched]
  <2>2. CASE Fail(t, "os_error") /\ UNCHANGED <<tree, free>>
    BY <1>10, <2>1, <2>2, FailType DEF Reset, Types, Status, inputs
  <2>3. CASE /\ tree' = [tree EXCEPT ![copy[t]] = Restored(back)]
             /\ free' = free \cup {copy[t]}
             /\ job' = [job EXCEPT ![t] = 0]
             /\ copy' = [copy EXCEPT ![t] = NoCopy]
             /\ step' = [step EXCEPT ![t] = "idle"]
             /\ UNCHANGED <<run, results>>
    <3>1. copy[t] \in Worker => back \in [File -> Content]
      BY <2>1, Contents DEF Types
    <3>2. tree' \in [Worker -> [File -> Content]]
      <4>1. copy[t] \in Worker
        BY <1>10 DEF Reset
      <4>2. checkout \in [File -> Version \cup {Absent}] /\ pristine \in [File -> Version \cup {Absent}]
        BY DEF Types
      <4> HIDE DEF back
      <4>3. Restored(back) \in [File -> Content]
        BY <3>1, <4>1, <4>2, RestoredType
      <4> QED BY <2>3, <4>3 DEF Types
    <3>3. copy[t] \in Worker
      BY <1>10 DEF Reset
    <3> QED BY <1>10, <2>3, <3>2, <3>3 DEF Reset, Types, inputs
  <2> QED BY <1>10, <2>2, <2>3 DEF Reset
<1>11. CASE Tick
  <2>1. run' \in [Worker -> TestRun]
    <3>1. \A t \in Worker : [run[t] EXCEPT !.elapsed = @ + 1] \in TestRun
      <4>1. \A t \in Worker : run[t] \in TestRun
        BY DEF Types
      <4>2. \A r \in TestRun : [r EXCEPT !.elapsed = @ + 1] \in TestRun
        BY DEF TestRun
      <4> QED BY <4>1, <4>2
    <3> QED BY <1>11, <3>1 DEF Tick, Types
  <2>2. left' \in Nat
    BY <1>11 DEF Tick, Types, Larger
  <2> QED BY <1>11, <2>1, <2>2 DEF Tick, Types, inputs
<1>12. CASE Collect
  <2>1. loaded' \in Nat /\ results' \in [Mutant -> Result]
    <3>1. Passing \subseteq Nat
      BY DEF Passing, Types, Result
    <3>2. \/ UNCHANGED <<loaded, results>>
          \/ \E base \in Passing : loaded' = base /\ results' = Judged(results, base)
      BY <1>12 DEF Collect
    <3>3. /\ \A base : Judged(results, base) \in [Mutant -> Result]
          /\ AllUnverified(results) \in [Mutant -> Result]
      BY JudgedType DEF Types
    <3>4. loaded \in Nat /\ results \in [Mutant -> Result]
      BY DEF Types
    <3> QED BY <3>1, <3>2, <3>3, <3>4
  <2>2. phase' \in {"done", "control"} /\ exit' \in {exit, 0, 1, 2, 3}
    BY <1>12 DEF Collect, Stop, ExitCode
  <2> QED BY <1>12, <2>1, <2>2 DEF Collect, Types, inputs
<1>13. CASE Control
  <2>1. tree' \in [Worker -> [File -> Content]]
    BY <1>0, <1>13, RestoredType DEF Control, Types
  <2>2. loaded' \in Nat /\ results' \in [Mutant -> Result]
    <3>1. \A d \in Durations : Larger(loaded, d) \in Nat
      BY <1>0 DEF Types, Durations, Larger
    <3>2. \/ UNCHANGED <<loaded, results>>
          \/ \E d \in Durations : loaded' = Larger(loaded, d) /\ results' = Judged(results, loaded')
          \/ UNCHANGED loaded /\ results' = AllUnverified(results)
      BY <1>13 DEF Control
    <3>3. /\ \A base : Judged(results, base) \in [Mutant -> Result]
          /\ AllUnverified(results) \in [Mutant -> Result]
      BY JudgedType DEF Types
    <3>4. loaded \in Nat /\ results \in [Mutant -> Result]
      BY DEF Types
    <3> QED BY <3>1, <3>2, <3>3, <3>4
  <2>3. phase' = "done" /\ exit' \in {0, 1, 2, 3}
    BY <1>13 DEF Control, Stop, ExitCode
  <2> QED BY <1>13, <2>1, <2>2, <2>3 DEF Control, Types, inputs
<1>14. CASE UNCHANGED vars
  BY <1>14 DEF vars, inputs, jobs, Types
<1> QED
  BY <1>1, <1>2, <1>3, <1>4, <1>5, <1>6, <1>7, <1>8, <1>9, <1>10, <1>11, <1>12, <1>13, <1>14
     DEF Next, Check, JobStep, Done

LEMMA SlotStep == SlotInv /\ [Next]_vars => SlotInv'
<1> SUFFICES ASSUME SlotInv, [Next]_vars PROVE SlotInv'
  OBVIOUS
<1>0. Types'
  BY TypesStep
<1> USE DEF SlotInv
<1>1. ASSUME NEW f \in File, Edit(f) PROVE SlotInv'
  BY <1>0, <1>1 DEF Edit, jobs
<1>2. ASSUME NEW w \in Worker, Copy(w) PROVE SlotInv'
  <2>1. \A v \in free \cup {w} : tree'[v] \in [File -> Version \cup {Absent}]
    BY <1>2 DEF Copy, Types
  <2> QED BY <1>0, <1>2, <2>1 DEF Copy, inputs, Types
<1>3. CASE Baseline
  BY <1>0, <1>3 DEF Baseline, Stop, inputs, jobs, Types
<1>4. CASE Calibrate
  BY <1>0, <1>4 DEF Calibrate, Stop, inputs, jobs, Types
<1>5. CASE SetLimit
  BY <1>0, <1>5 DEF SetLimit, inputs, jobs
<1>6. ASSUME NEW t \in Worker, Begin(t) PROVE SlotInv'
  <2>1. next # 0
    BY MutationAssumption DEF Types
  <2> QED BY <1>0, <1>6, <2>1 DEF Begin, inputs, Types
<1>7. ASSUME NEW t \in Worker, Take(t) PROVE SlotInv'
  <2>1. CASE Fail(t, "index_error") \/ Fail(t, "os_error")
    <3>1. step[t] = "take" /\ phase' = phase
      BY <1>7 DEF Take
    <3>2. phase = "run"
      BY <3>1
    <3>3. /\ job' = [job EXCEPT ![t] = 0]
          /\ copy' = [copy EXCEPT ![t] = NoCopy]
          /\ step' = [step EXCEPT ![t] = "idle"]
      BY <2>1 DEF Fail
    <3> QED BY <1>0, <3>1, <3>2, <3>3 DEF Types
  <2>2. ASSUME NEW c \in free, copy' = [copy EXCEPT ![t] = c],
               step' = [step EXCEPT ![t] = "start"], UNCHANGED job
        PROVE  SlotInv'
    BY <1>0, <1>7, <2>2 DEF Take, inputs, Types
  <2> QED BY <1>7, <2>1, <2>2 DEF Take
<1>8. ASSUME NEW t \in Worker, Start(t) PROVE SlotInv'
  BY <1>0, <1>8 DEF Start, inputs, Types
<1>9. ASSUME NEW t \in Worker, Finish(t) PROVE SlotInv'
  BY <1>0, <1>9 DEF Finish, inputs, Types
<1>10. ASSUME NEW t \in Worker, Reset(t) PROVE SlotInv'
  <2>1. CASE Fail(t, "os_error")
    BY <1>0, <1>10, <2>1 DEF Reset, Fail, inputs, Types
  <2>2. CASE /\ job' = [job EXCEPT ![t] = 0]
             /\ copy' = [copy EXCEPT ![t] = NoCopy]
             /\ step' = [step EXCEPT ![t] = "idle"]
    BY <1>0, <1>10, <2>2 DEF Reset, inputs, Types
  <2> QED BY <1>10, <2>1, <2>2 DEF Reset
<1>11. CASE Tick
  BY <1>0, <1>11 DEF Tick, inputs
<1>12. CASE Collect
  BY <1>0, <1>12 DEF Collect, Stop, inputs
<1>13. CASE Control
  BY <1>0, <1>13 DEF Control, Stop, inputs
<1>14. CASE UNCHANGED vars
  BY <1>0, <1>14 DEF vars, inputs, jobs
<1> QED
  BY <1>1, <1>2, <1>3, <1>4, <1>5, <1>6, <1>7, <1>8, <1>9, <1>10, <1>11, <1>12, <1>13, <1>14
     DEF Next, Check, JobStep, Done

THEOREM Slots == Spec => []SlotInv
  BY SlotInit, SlotStep, PTL DEF Spec

-----------------------------------------------------------------------------
(* The budget *)

BudgetInv == SlotInv /\ WithinBudget

LEMMA BudgetStep == BudgetInv /\ [Next]_vars => WithinBudget'
<1> SUFFICES ASSUME SlotInv, WithinBudget, [Next]_vars PROVE WithinBudget'
  BY DEF BudgetInv
<1>0. /\ run \in [Worker -> TestRun] /\ left \in Nat /\ limit \in Nat
      /\ step \in [Worker -> {"idle", "take", "start", "run", "reset"}]
  BY DEF SlotInv, Types
<1>1. CASE UNCHANGED <<run, left>> /\ \A t \in Worker : step'[t] = "run" => step[t] = "run"
  BY <1>1 DEF WithinBudget
<1>2. CASE SetLimit
  <2>1. \A t \in Worker : step'[t] # "run"
    BY <1>2 DEF SetLimit, SlotInv, jobs
  <2> QED BY <2>1 DEF WithinBudget
<1>3. ASSUME NEW t \in Worker, Take(t) PROVE WithinBudget'
  <2>1. left' = left /\ \E s \in {"idle", "start"} : step' = [step EXCEPT ![t] = s]
    BY <1>3 DEF Take, Fail
  <2>2. \A u \in Worker : step'[u] = "run" => u # t /\ step[u] = "run"
    BY <1>0, <2>1
  <2>3. \A u \in Worker : u # t => run'[u] = run[u]
    BY <1>0, <1>3 DEF Take, Fail
  <2> QED BY <2>1, <2>2, <2>3 DEF WithinBudget
<1>4. ASSUME NEW t \in Worker, Start(t) PROVE WithinBudget'
  <2>1. left' = left /\ step' = [step EXCEPT ![t] = "run"]
    BY <1>4 DEF Start
  <2>2. PICK e, d : run' = [run EXCEPT ![t] =
                      [ends |-> e, due |-> d, limit |-> CutLimit, elapsed |-> 0]]
    BY <1>4 DEF Start
  <2>3. run'[t].limit - run'[t].elapsed <= Larger(1, left)
    BY <1>0, <2>2 DEF CutLimit, Larger, Smaller
  <2>4. \A u \in Worker : u # t => run'[u] = run[u] /\ step'[u] = step[u]
    BY <1>0, <2>1, <2>2
  <2> QED BY <2>1, <2>3, <2>4 DEF WithinBudget
<1>5. ASSUME NEW t \in Worker, Finish(t) \/ Reset(t) PROVE WithinBudget'
  <2>1. left' = left /\ \E s \in {"idle", "reset"} : step' = [step EXCEPT ![t] = s]
    BY <1>5 DEF Finish, Reset, Fail
  <2>2. \A u \in Worker : step'[u] = "run" => u # t /\ step[u] = "run"
    BY <1>0, <2>1
  <2>3. \A u \in Worker : u # t => run'[u] = run[u]
    BY <1>0, <1>5 DEF Finish, Reset, Fail
  <2> QED BY <2>1, <2>2, <2>3 DEF WithinBudget
<1>6. CASE Tick
  <2> SUFFICES ASSUME NEW t \in Worker, step'[t] = "run"
               PROVE  run'[t].limit - run'[t].elapsed <= Larger(1, left')
    BY DEF WithinBudget
  <2>1. step[t] = "run" /\ left' = Larger(0, left - 1)
    BY <1>6 DEF Tick
  <2>2. run'[t].limit = run[t].limit /\ run'[t].elapsed = run[t].elapsed + 1
    <3>1. run'[t] = [run[t] EXCEPT !.elapsed = @ + 1]
      BY <1>6, <2>1 DEF Tick
    <3> QED BY <1>0, <3>1 DEF TestRun
  <2>3. run[t].limit \in Nat /\ run[t].elapsed \in Nat
    BY <1>0 DEF TestRun
  <2>4. run[t].limit - run[t].elapsed <= Larger(1, left)
    BY <2>1 DEF WithinBudget
  <2> QED BY <1>0, <2>1, <2>2, <2>3, <2>4 DEF Larger
<1>7. ASSUME NEW t \in Worker, Begin(t) PROVE WithinBudget'
  <2>1. UNCHANGED <<run, left>> /\ (step' = step \/ step' = [step EXCEPT ![t] = "take"])
    BY <1>7 DEF Begin
  <2> QED BY <1>0, <1>1, <2>1
<1>8. ASSUME NEW f \in File, Edit(f) PROVE WithinBudget'
  BY <1>1, <1>8 DEF Edit, jobs
<1>9. CASE Baseline \/ Calibrate \/ Collect \/ Control \/ UNCHANGED vars
  BY <1>1, <1>9 DEF Baseline, Calibrate, Collect, Control, vars, jobs
<1>10. ASSUME NEW w \in Worker, Copy(w) PROVE WithinBudget'
  BY <1>1, <1>10 DEF Copy
<1> QED
  BY <1>2, <1>3, <1>4, <1>5, <1>6, <1>7, <1>8, <1>9, <1>10 DEF Next, Check, JobStep, Done

\* No run goes on for more than a second once the budget is spent (check.job),
\* for any budget, limits, run times and number of copies.
THEOREM Budgeted == Spec => []WithinBudget
<1>1. Init => BudgetInv
  BY SlotInit DEF Init, BudgetInv, WithinBudget
<1>2. BudgetInv /\ [Next]_vars => BudgetInv'
  BY SlotStep, BudgetStep DEF BudgetInv
<1>3. BudgetInv => WithinBudget
  BY DEF BudgetInv
<1> QED BY <1>1, <1>2, <1>3, PTL DEF Spec

-----------------------------------------------------------------------------
(* The pool of copies *)

Raised == {"os_error", "index_error"}

\* A mutant is at most one job's; its result is written by that job.
JobInv ==
  /\ SlotInv
  /\ \A t \in Worker : job[t] < next
  /\ \A t \in Worker, u \in Worker : job[t] = job[u] /\ job[t] # 0 => t = u
  /\ \A t \in Worker : step[t] \in {"take", "start", "run"} => results[job[t]].status = "none"
  /\ \A t \in Worker : step[t] = "reset" => results[job[t]].status \notin Raised \cup {"none"}
  /\ \A m \in Mutant : m >= next => results[m].status = "none"
  /\ \A m \in Mutant : m < next /\ results[m].status = "none" => \E t \in Worker : job[t] = m

\* What JobInv is about.
JobVars == <<next, job, step, results>>

LEMMA JobStep1 == 
  ASSUME JobInv, SlotInv', NEW t \in Worker, step[t] # "idle",
         NEW s, s \in Status \ {"none"},
         results' \in [Mutant -> Result],
         \A m \in Mutant : results'[m].status = IF m = job[t] THEN s ELSE results[m].status,
         \/ job' = [job EXCEPT ![t] = 0] /\ step' = [step EXCEPT ![t] = "idle"]
         \/ job' = job /\ step' = [step EXCEPT ![t] = "reset"] /\ s \notin Raised,
         next' = next
  PROVE  JobInv'
<1>0. /\ job \in [Worker -> Mutant \cup {0}] /\ next \in Nat /\ next > 0
      /\ Mutant \subseteq Nat
      /\ step \in [Worker -> {"idle", "take", "start", "run", "reset"}]
      /\ \A u \in Worker : step[u] = "idle" <=> job[u] = 0
  BY MutationAssumption DEF JobInv, SlotInv, Types, Mutant
<1>1. job[t] \in Mutant /\ job[t] < next /\ job[t] # 0
  BY <1>0 DEF JobInv
<1>2. \A u \in Worker : u # t => job'[u] = job[u] /\ step'[u] = step[u] /\ job[u] # job[t]
  BY <1>0, <1>1 DEF JobInv
<1>3. job'[t] \in {0, job[t]} /\ step'[t] \in {"idle", "reset"} /\ job'[t] < next
  BY <1>0, <1>1
<1>4. \A u \in Worker : job'[u] < next'
  BY <1>1, <1>2, <1>3 DEF JobInv
<1>5. \A u \in Worker, v \in Worker : job'[u] = job'[v] /\ job'[u] # 0 => u = v
  BY <1>2, <1>3 DEF JobInv
<1>6. \A u \in Worker : step'[u] \in {"take", "start", "run"} => results'[job'[u]].status = "none"
  <2> SUFFICES ASSUME NEW u \in Worker, step'[u] \in {"take", "start", "run"}
               PROVE  results'[job'[u]].status = "none"
    OBVIOUS
  <2>1. u # t /\ job'[u] = job[u] /\ step[u] \in {"take", "start", "run"} /\ job[u] # job[t]
    BY <1>2, <1>3
  <2>2. job[u] \in Mutant
    BY <1>0, <2>1
  <2> QED BY <2>1, <2>2 DEF JobInv
<1>7. \A u \in Worker : step'[u] = "reset" => results'[job'[u]].status \notin Raised \cup {"none"}
  <2> SUFFICES ASSUME NEW u \in Worker, step'[u] = "reset"
               PROVE  results'[job'[u]].status \notin Raised \cup {"none"}
    OBVIOUS
  <2>1. CASE u = t
    BY <1>0, <1>1, <2>1
  <2>2. CASE u # t
    <3>1. job'[u] = job[u] /\ step[u] = "reset" /\ job[u] # job[t]
      BY <1>2, <2>2
    <3>2. job[u] \in Mutant
      BY <1>0, <3>1
    <3> QED BY <3>1, <3>2 DEF JobInv
  <2> QED BY <2>1, <2>2
<1>8. \A m \in Mutant : m >= next' => results'[m].status = "none"
  <2>1. \A m \in Mutant : m >= next' => m # job[t]
    BY <1>0, <1>1
  <2> QED BY <2>1 DEF JobInv
<1>9. \A m \in Mutant : m < next' /\ results'[m].status = "none" => \E u \in Worker : job'[u] = m
  <2> SUFFICES ASSUME NEW m \in Mutant, m < next', results'[m].status = "none"
               PROVE  \E u \in Worker : job'[u] = m
    OBVIOUS
  <2>1. m # job[t] /\ results[m].status = "none"
    OBVIOUS
  <2>2. PICK u \in Worker : job[u] = m
    BY <2>1 DEF JobInv
  <2> QED BY <1>2, <2>1, <2>2
<1> QED BY <1>4, <1>5, <1>6, <1>7, <1>8, <1>9 DEF JobInv

LEMMA JobInit == Init => JobInv
<1> SUFFICES ASSUME Init PROVE JobInv
  OBVIOUS
<1>1. SlotInv
  BY SlotInit
<1>2. next = 1 /\ \A m \in Mutant : results[m].status = "none"
  BY DEF Init, NoResult
<1>3. \A m \in Mutant : m >= 1 /\ m \in Nat
  BY MutationAssumption DEF Mutant
<1> QED BY <1>1, <1>2, <1>3 DEF Init, JobInv

LEMMA JobsUnchanged == JobInv /\ SlotInv' /\ UNCHANGED JobVars => JobInv'
  BY DEF JobInv, JobVars

LEMMA JobStep2 == JobInv /\ [Next]_vars /\ phase' \notin {"control", "done"} => JobInv'
<1> SUFFICES ASSUME JobInv, [Next]_vars, phase' \notin {"control", "done"} PROVE JobInv'
  OBVIOUS
<1>0. SlotInv' /\ SlotInv /\ Types'
  BY SlotStep DEF JobInv, SlotInv
<1>1. CASE UNCHANGED JobVars
  BY <1>0, <1>1, JobsUnchanged
<1>2. ASSUME NEW f \in File, Edit(f) PROVE JobInv'
  BY <1>1, <1>2 DEF Edit, jobs, JobVars
<1>3. ASSUME NEW w \in Worker, Copy(w) PROVE JobInv'
  BY <1>1, <1>3 DEF Copy, JobVars
<1>4. CASE Baseline \/ Calibrate \/ SetLimit \/ UNCHANGED vars
  BY <1>1, <1>4 DEF Baseline, Calibrate, SetLimit, vars, jobs, JobVars
<1>5. CASE Collect \/ Control
  BY <1>5 DEF Collect, Control, Stop
<1>6. ASSUME NEW t \in Worker, Begin(t) PROVE JobInv'
  <2>1. next \in Mutant /\ next' = next + 1 /\ step[t] = "idle" /\ job[t] = 0 /\ Mutant \subseteq Nat
    BY <1>0, <1>6, MutationAssumption DEF Begin, SlotInv, Types, Mutant
  <2>0. \A u \in Worker : job[u] \in Mutant \cup {0} /\ job[u] \in Nat /\ job[u] < next
    <3>1. \A u \in Worker : job[u] \in Mutant \cup {0}
      BY <1>0 DEF SlotInv, Types
    <3>2. \A u \in Worker : job[u] < next
      BY DEF JobInv
    <3>3. \A j \in Mutant \cup {0} : j \in Nat
      BY <2>1
    <3> QED BY <3>1, <3>2, <3>3
  <2>2. CASE left = 0
    <3>1. /\ UNCHANGED <<job, step>>
          /\ \A m \in Mutant : results'[m].status = IF m = next THEN "skipped_budget"
                                                    ELSE results[m].status
      BY <1>0, <1>6, <2>2 DEF Begin, SlotInv, Types, Result
    <3>2. \A u \in Worker : step[u] # "idle" => job[u] \in Mutant /\ job[u] # next
      BY <1>0, <2>0, <2>1 DEF SlotInv
    <3>3. \A u \in Worker : job'[u] < next'
      BY <2>0, <2>1, <3>1
    <3>4. \A u \in Worker : step'[u] # "idle" => results'[job'[u]].status = results[job[u]].status
      BY <3>1, <3>2
    <3>5. \A m \in Mutant : m >= next' => results'[m].status = "none"
      BY <2>1, <3>1 DEF JobInv
    <3>6. \A m \in Mutant : m < next' /\ results'[m].status = "none" => \E u \in Worker : job'[u] = m
      BY <2>1, <3>1 DEF JobInv
    <3> QED BY <1>0, <3>1, <3>3, <3>4, <3>5, <3>6 DEF JobInv
  <2>3. CASE left # 0
    <3>1. /\ job' = [job EXCEPT ![t] = next] /\ step' = [step EXCEPT ![t] = "take"]
          /\ UNCHANGED results
      BY <1>6, <2>3 DEF Begin
    <3>2. job'[t] = next /\ step'[t] = "take"
          /\ \A u \in Worker : u # t => job'[u] = job[u] /\ step'[u] = step[u]
      BY <1>0, <3>1 DEF SlotInv, Types
    <3>3. \A u \in Worker : job[u] \in Nat /\ job[u] < next
      BY <2>0
    <3>4. \A u \in Worker : job'[u] < next'
      BY <2>1, <3>2, <3>3
    <3>5. \A u \in Worker, v \in Worker : job'[u] = job'[v] /\ job'[u] # 0 => u = v
      BY <2>1, <3>2, <3>3 DEF JobInv
    <3>6. \A u \in Worker : step'[u] \in {"take", "start", "run"} => results'[job'[u]].status = "none"
      <4> SUFFICES ASSUME NEW u \in Worker, step'[u] \in {"take", "start", "run"}
                   PROVE  results'[job'[u]].status = "none"
        OBVIOUS
      <4>1. CASE u = t
        BY <2>1, <3>1, <3>2, <4>1 DEF JobInv
      <4>2. CASE u # t
        BY <3>1, <3>2, <4>2 DEF JobInv
      <4> QED BY <4>1, <4>2
    <3>7. \A u \in Worker : step'[u] = "reset" => results'[job'[u]].status \notin Raised \cup {"none"}
      BY <3>1, <3>2 DEF JobInv
    <3>8. \A m \in Mutant : m >= next' => results'[m].status = "none"
      BY <2>1, <3>1 DEF JobInv
    <3>9. \A m \in Mutant : m < next' /\ results'[m].status = "none" => \E u \in Worker : job'[u] = m
      <4> SUFFICES ASSUME NEW m \in Mutant, m < next', results'[m].status = "none"
                   PROVE  \E u \in Worker : job'[u] = m
        OBVIOUS
      <4>1. CASE m = next
        BY <3>2, <4>1
      <4>2. CASE m < next
        <5>1. PICK u \in Worker : job[u] = m
          BY <3>1, <4>2 DEF JobInv
        <5>2. u # t
          BY <2>1, <5>1, MutationAssumption DEF Mutant
        <5> QED BY <3>2, <5>1, <5>2
      <4> QED BY <2>1, <4>1, <4>2
    <3> QED BY <1>0, <3>4, <3>5, <3>6, <3>7, <3>8, <3>9 DEF JobInv
  <2> QED BY <2>2, <2>3
<1>7. ASSUME NEW t \in Worker, NEW s \in Raised, Fail(t, s), step[t] # "idle", next' = next
      PROVE  JobInv'
  <2>1. s \in Status \ {"none"}
    BY DEF Raised, Status
  <2>2. /\ job' = [job EXCEPT ![t] = 0] /\ step' = [step EXCEPT ![t] = "idle"]
        /\ results' = [results EXCEPT ![job[t]].status = s]
    BY <1>7 DEF Fail
  <2>3. \A m \in Mutant : results'[m].status = IF m = job[t] THEN s ELSE results[m].status
    BY <1>0, <2>2 DEF SlotInv, Types, Result
  <2>4. results' \in [Mutant -> Result]
    BY <1>0 DEF Types, SlotInv
  <2> QED BY <1>0, <1>7, <2>1, <2>2, <2>3, <2>4, JobStep1
<1>8. ASSUME NEW t \in Worker, Take(t) PROVE JobInv'
  <2>1. CASE \E s \in Raised : Fail(t, s)
    BY <1>7, <1>8, <2>1 DEF Take
  <2>2. CASE step' = [step EXCEPT ![t] = "start"] /\ UNCHANGED <<job, next, results>>
    BY <1>0, <1>8, <2>2 DEF Take, JobInv, SlotInv, Types
  <2> QED BY <1>8, <2>1, <2>2 DEF Take, Raised
<1>9. ASSUME NEW t \in Worker, Start(t) PROVE JobInv'
  <2>1. step' = [step EXCEPT ![t] = "run"] /\ UNCHANGED <<job, next, results>> /\ step[t] = "start"
    BY <1>9 DEF Start
  <2> QED BY <1>0, <2>1 DEF JobInv, SlotInv, Types
<1>10. ASSUME NEW t \in Worker, Finish(t) PROVE JobInv'
  <2>1. job[t] \in Mutant
    BY <1>0, <1>10 DEF Finish, SlotInv, Types
  <2>2. PICK s \in {"survived", "killed", "error", "hang", "timeout"} \cap Status :
          results' = [results EXCEPT ![job[t]] =
                        [status |-> s, limit |-> run[t].limit, secs |-> run[t].elapsed]]
    <3>1. run[t].ends \in {"survived", "killed", "error", "hang"}
      BY <1>0 DEF SlotInv, Types, TestRun
    <3> QED BY <1>10, <3>1 DEF Finish
  <2>3. s \in Status \ {"none"} /\ s \notin Raised
    BY DEF Raised, Status
  <2>4. \A m \in Mutant : results'[m].status = IF m = job[t] THEN s ELSE results[m].status
    BY <1>0, <2>1, <2>2 DEF SlotInv, Types
  <2>5. job' = job /\ step' = [step EXCEPT ![t] = "reset"] /\ next' = next /\ step[t] # "idle"
    BY <1>10 DEF Finish
  <2>6. results' \in [Mutant -> Result]
    BY <1>0 DEF Types, SlotInv
  <2> QED BY <1>0, <2>3, <2>4, <2>5, <2>6, JobStep1
<1>11. ASSUME NEW t \in Worker, Reset(t) PROVE JobInv'
  <2>1. CASE \E s \in Raised : Fail(t, s)
    BY <1>7, <1>11, <2>1 DEF Reset
  <2>2. CASE /\ job' = [job EXCEPT ![t] = 0] /\ step' = [step EXCEPT ![t] = "idle"]
             /\ UNCHANGED results
    <3>1. step[t] = "reset" /\ next' = next
      BY <1>11 DEF Reset
    <3>2. results[job[t]].status \in Status \ {"none"} /\ results' \in [Mutant -> Result]
      <4>1. job[t] \in Mutant
        BY <1>0, <3>1 DEF SlotInv, Types
      <4>2. results[job[t]] \in Result
        BY <1>0, <4>1 DEF SlotInv, Types
      <4> QED BY <1>0, <2>2, <3>1, <4>2 DEF JobInv, Types, Result
    <3> QED BY <1>0, <2>2, <3>1, <3>2, JobStep1
  <2> QED BY <1>11, <2>1, <2>2 DEF Reset, Raised
<1>12. CASE Tick
  BY <1>1, <1>12 DEF Tick, JobVars
<1> QED
  BY <1>2, <1>3, <1>4, <1>5, <1>6, <1>8, <1>9, <1>10, <1>11, <1>12 DEF Next, Check, JobStep, Done

\* A thread without a mutant under way has no copy.
NoneTaken == \A t \in Worker : step[t] \in {"idle", "take"} => copy[t] = NoCopy

PoolInv ==
  /\ SlotInv
  /\ phase \notin {"control", "done"} => JobInv
  /\ NoneTaken
  /\ OwnCopy

LEMMA PoolStep == PoolInv /\ [Next]_vars => NoneTaken' /\ OwnCopy'
<1> SUFFICES ASSUME SlotInv, NoneTaken, OwnCopy, [Next]_vars PROVE NoneTaken' /\ OwnCopy'
  BY DEF PoolInv
<1>0. /\ copy \in [Worker -> Worker \cup {NoCopy}] /\ free \subseteq Worker /\ NoCopy \notin Worker
      /\ step \in [Worker -> {"idle", "take", "start", "run", "reset"}]
  BY MutationAssumption DEF SlotInv, Types
<1>1. CASE UNCHANGED <<copy, step, free>>
  BY <1>1 DEF NoneTaken, OwnCopy
<1>2. ASSUME NEW f \in File, Edit(f) PROVE NoneTaken' /\ OwnCopy'
  BY <1>1, <1>2 DEF Edit, jobs
<1>3. ASSUME NEW w \in Worker, Copy(w) PROVE NoneTaken' /\ OwnCopy'
  <2>1. UNCHANGED <<copy, step>> /\ \A t \in Worker : step[t] = "idle"
    BY <1>3 DEF Copy, SlotInv
  <2> QED BY <2>1 DEF NoneTaken, OwnCopy
<1>4. CASE Baseline \/ Calibrate \/ SetLimit \/ Tick \/ Collect \/ Control \/ UNCHANGED vars
  BY <1>1, <1>4 DEF Baseline, Calibrate, SetLimit, Tick, Collect, Control, vars, jobs
<1>5. ASSUME NEW t \in Worker, Begin(t) PROVE NoneTaken' /\ OwnCopy'
  <2>1. /\ UNCHANGED <<copy, free>> /\ step[t] = "idle"
        /\ step' = step \/ step' = [step EXCEPT ![t] = "take"]
    BY <1>5 DEF Begin
  <2> QED BY <1>0, <2>1 DEF NoneTaken, OwnCopy
<1>6. ASSUME NEW t \in Worker, copy' = [copy EXCEPT ![t] = NoCopy],
             step' = [step EXCEPT ![t] = "idle"],
             free' \subseteq free \cup ({copy[t]} \cap Worker),
             step[t] \in {"start", "run", "reset"} \/ free' \subseteq free
      PROVE  NoneTaken' /\ OwnCopy'
  <2>1. copy'[t] = NoCopy /\ step'[t] = "idle"
        /\ \A u \in Worker : u # t => copy'[u] = copy[u] /\ step'[u] = step[u]
    BY <1>0, <1>6
  <2>2. \A u \in Worker : u # t /\ step[u] \in {"start", "run", "reset"} => copy[u] \notin free'
    BY <1>6 DEF OwnCopy
  <2> QED BY <1>0, <2>1, <2>2 DEF NoneTaken, OwnCopy
<1>7. ASSUME NEW t \in Worker, Take(t) PROVE NoneTaken' /\ OwnCopy'
  <2>1. CASE \E s \in Status : Fail(t, s)
    BY <1>6, <1>7, <2>1 DEF Take, Fail
  <2>2. ASSUME NEW c \in free, free' = free \ {c}, copy' = [copy EXCEPT ![t] = c],
               step' = [step EXCEPT ![t] = "start"]
        PROVE  NoneTaken' /\ OwnCopy'
    <3>1. copy'[t] = c /\ \A u \in Worker : u # t => copy'[u] = copy[u] /\ step'[u] = step[u]
      BY <1>0, <2>2
    <3>2. \A u \in Worker : u # t /\ step[u] \in {"start", "run", "reset"} =>
             copy[u] \notin free /\ copy[u] \in Worker
      BY DEF OwnCopy
    <3>3. \A u \in Worker : copy[u] # c
      BY <1>0 DEF NoneTaken, OwnCopy
    <3> QED BY <1>0, <2>2, <3>1, <3>2, <3>3 DEF NoneTaken, OwnCopy
  <2> QED BY <1>7, <2>1, <2>2 DEF Take, Status
<1>8. ASSUME NEW t \in Worker, Start(t) \/ Finish(t) PROVE NoneTaken' /\ OwnCopy'
  <2>1. /\ UNCHANGED <<copy, free>> /\ step[t] \in {"start", "run"}
        /\ \E s \in {"run", "reset"} : step' = [step EXCEPT ![t] = s]
    BY <1>8 DEF Start, Finish
  <2> QED BY <1>0, <2>1 DEF NoneTaken, OwnCopy
<1>9. ASSUME NEW t \in Worker, Reset(t) PROVE NoneTaken' /\ OwnCopy'
  BY <1>0, <1>6, <1>9 DEF Reset, Fail, SlotInv
<1> QED
  BY <1>2, <1>3, <1>4, <1>5, <1>7, <1>8, <1>9 DEF Next, Check, JobStep, Done

LEMMA PoolInductive ==
  /\ Init => PoolInv
  /\ PoolInv /\ [Next]_vars => PoolInv'
<1>1. ASSUME Init PROVE PoolInv
  BY <1>1, SlotInit, JobInit DEF Init, PoolInv, NoneTaken, OwnCopy
<1>2. ASSUME PoolInv, [Next]_vars PROVE PoolInv'
  <2>1. SlotInv' /\ NoneTaken' /\ OwnCopy'
    BY <1>2, SlotStep, PoolStep DEF PoolInv
  <2>2. phase' \notin {"control", "done"} => phase \notin {"control", "done"}
    BY <1>2 DEF Next, vars, Check, JobStep, Done, Edit, Copy, Baseline, Calibrate, SetLimit, Stop,
           Begin, Take, Start, Finish, Reset, Tick, Collect, Control
  <2>3. phase' \notin {"control", "done"} => JobInv'
    BY <1>2, <2>2, JobStep2 DEF PoolInv
  <2> QED BY <2>1, <2>3 DEF PoolInv
<1> QED BY <1>1, <1>2

\* Whatever fails, no two jobs are ever in one copy, and none is in a copy that
\* another thread may take (check.job), for any number of threads and mutants.
THEOREM CopiesApart == Spec => []OwnCopy
<1>1. PoolInv => OwnCopy
  BY DEF PoolInv
<1> QED BY <1>1, PoolInductive, PTL DEF Spec

LEMMA NoFailure == Failures = {} <=> \A m \in Mutant : results[m].status \notin Raised
  BY DEF Failures, Raised

LEMMA KeptStep == PoolInv /\ CopiesKept /\ [Next]_vars => CopiesKept'
<1> DEFINE Kept == \A w \in Worker : w \in free \/ \E t \in Worker : copy[t] = w
<1> SUFFICES ASSUME PoolInv, CopiesKept, [Next]_vars, phase' = "run", (Failures = {})'
             PROVE  Kept'
  BY DEF CopiesKept
<1>0. /\ copy \in [Worker -> Worker \cup {NoCopy}] /\ free \subseteq Worker /\ NoCopy \notin Worker
      /\ step \in [Worker -> {"idle", "take", "start", "run", "reset"}]
      /\ SlotInv /\ results \in [Mutant -> Result] /\ job \in [Worker -> Mutant \cup {0}]
  BY MutationAssumption DEF PoolInv, SlotInv, Types
<1>1. \A m \in Mutant : results'[m].status \notin Raised
  BY DEF Failures, Raised
<1>2. phase = "run" /\ (\A m \in Mutant : results[m].status \notin Raised) => Kept
  BY NoFailure DEF CopiesKept
<1>3. ASSUME UNCHANGED <<copy, free, results, phase>> PROVE Kept'
  BY <1>1, <1>2, <1>3
<1>4. ASSUME NEW f \in File, Edit(f) PROVE Kept'
  BY <1>3, <1>4 DEF Edit, jobs
<1>5. CASE Tick \/ UNCHANGED vars
  BY <1>3, <1>5 DEF Tick, vars, jobs
<1>6. CASE Baseline \/ Calibrate \/ Collect \/ Control \/ \E w \in Worker : Copy(w)
  BY <1>6 DEF Baseline, Calibrate, Collect, Control, Copy, Stop
<1>7. CASE SetLimit
  BY <1>0, <1>7 DEF SetLimit, SlotInv, jobs
<1>8. ASSUME NEW t \in Worker, Begin(t) PROVE Kept'
  <2>1. next \in Mutant /\ results[next].status = "none" /\ phase = "run"
    BY <1>8, MutationAssumption DEF Begin, PoolInv, JobInv, SlotInv, Types, Mutant
  <2>2. \A m \in Mutant : results[m].status \notin Raised
    BY <1>0, <1>1, <1>8, <2>1 DEF Begin, Raised
  <2>3. UNCHANGED <<copy, free>>
    BY <1>8 DEF Begin
  <2> QED BY <1>2, <2>1, <2>2, <2>3
<1>9. ASSUME NEW t \in Worker, NEW s \in Raised, Fail(t, s), job[t] \in Mutant PROVE FALSE
  <2>1. results'[job[t]].status = s
    BY <1>0, <1>9 DEF Fail, Result
  <2> QED BY <1>1, <1>9, <2>1
<1>10. ASSUME NEW t \in Worker, Take(t) PROVE Kept'
  <2>1. job[t] \in Mutant /\ phase = "run" /\ step[t] = "take"
    BY <1>0, <1>10 DEF Take, SlotInv
  <2>2. PICK c \in free : /\ free' = free \ {c} /\ copy' = [copy EXCEPT ![t] = c]
                          /\ UNCHANGED results
    BY <1>9, <1>10, <2>1 DEF Take, Raised
  <2>3. Kept /\ copy[t] = NoCopy
    BY <1>1, <1>2, <2>1, <2>2 DEF PoolInv, NoneTaken
  <2>4. copy'[t] = c /\ \A u \in Worker : u # t => copy'[u] = copy[u]
    BY <1>0, <2>2
  <2> QED BY <1>0, <2>2, <2>3, <2>4
<1>11. ASSUME NEW t \in Worker, Start(t) PROVE Kept'
  BY <1>3, <1>11 DEF Start
<1>12. ASSUME NEW t \in Worker, Finish(t) PROVE Kept'
  <2>1. job[t] \in Mutant /\ phase = "run" /\ step[t] = "run" /\ UNCHANGED <<copy, free>>
    BY <1>0, <1>12 DEF Finish, SlotInv
  <2>2. results[job[t]].status = "none"
    BY <2>1 DEF PoolInv, JobInv
  <2>3. \A m \in Mutant : m # job[t] => results'[m] = results[m]
    BY <1>0, <1>12 DEF Finish
  <2>4. \A m \in Mutant : results[m].status \notin Raised
    BY <1>1, <2>2, <2>3 DEF Raised
  <2> QED BY <1>2, <2>1, <2>4
<1>13. ASSUME NEW t \in Worker, Reset(t) PROVE Kept'
  <2>1. job[t] \in Mutant /\ phase = "run" /\ step[t] = "reset"
    BY <1>0, <1>13 DEF Reset, SlotInv
  <2>2. free' = free \cup {copy[t]} /\ copy' = [copy EXCEPT ![t] = NoCopy] /\ UNCHANGED results
    BY <1>9, <1>13, <2>1 DEF Reset, Raised
  <2>3. Kept
    BY <1>1, <1>2, <2>1, <2>2
  <2>4. \A u \in Worker : u # t => copy'[u] = copy[u]
    BY <1>0, <2>2
  <2> QED BY <2>2, <2>3, <2>4
<1> QED
  BY <1>4, <1>5, <1>6, <1>7, <1>8, <1>10, <1>11, <1>12, <1>13 DEF Next, Check, JobStep, Done

\* Types, and the pool of copies never shrinks before a job has raised (check.job).
THEOREM Typing == Spec => []TypeOK
<1>1. Init => CopiesKept
  BY DEF Init, CopiesKept
<1>2. PoolInv /\ CopiesKept => TypeOK
  BY DEF PoolInv, SlotInv, TypeOK
<1> QED BY <1>1, <1>2, PoolInductive, KeptStep, PTL DEF Spec

-----------------------------------------------------------------------------
(* No mutant is killed by being slow *)

\* Every file is as it was when the check began.
Same == [f \in File |-> 0]

\* While nobody edits the checkout, a copy that a mutant is put into is as it was.
CleanInv ==
  edits = 0 =>
    /\ checkout = Same /\ sources = Same
    /\ phase = "copy" => \A w \in free : tree[w] = Same
    /\ phase # "copy" => pristine = Same
    /\ phase \in {"baseline", "calibrate", "limit"} => \A w \in Worker : tree[w] = Same
    /\ phase = "run" => \A w \in free : tree[w] = Same
    /\ \A t \in Worker : step[t] = "start" => Others(t) = Same

\* What a run will show of its mutant, and that one that is not a hang is over
\* within MaxRun.
Telling(r, m) ==
  /\ r.ends = "survived" => fate[m] = "missed"
  /\ r.ends = "killed" => fate[m] = "caught"
  /\ r.ends = "hang" => fate[m] = "hangs"
  /\ r.ends # "hang" => r.elapsed <= r.due /\ r.due <= MaxRun

\* What a result shows of its mutant.
Shown(r, m) ==
  /\ r.status = "survived" => fate[m] = "missed"
  /\ r.status = "killed" => fate[m] = "caught"
  /\ r.status = "timeout" /\ fate[m] # "hangs" => r.limit <= MaxRun

\* Nothing has a result before the first job.
NoneYet ==
  phase \in {"copy", "baseline", "calibrate", "limit"} => \A m \in Mutant : results[m].status = "none"

KillInv ==
  /\ PoolInv
  /\ CopiesKept
  /\ CleanInv
  /\ NoneYet
  /\ phase \in {"calibrate", "limit", "run", "control"} => loaded >= MinRun
  /\ edits = 0 => \A t \in Worker : step[t] = "run" => Telling(run[t], job[t])
  /\ edits = 0 => \A m \in Mutant : results[m].status \notin Raised
  /\ edits = 0 => \A m \in Mutant : Shown(results[m], m)
  /\ Undisturbed /\ phase \in {"control", "done"} =>
       \A m \in Mutant : results[m].status = "timeout" => fate[m] = "hangs"

\* As many threads as copies: one that wants a copy finds one.
LEMMA PoolSuffices ==
  ASSUME PoolInv, CopiesKept, phase = "run", Failures = {},
         NEW t \in Worker, step[t] \in {"idle", "take"}
  PROVE  free # {}
<1>0. /\ copy \in [Worker -> Worker \cup {NoCopy}] /\ copy[t] = NoCopy
      /\ NoCopy \notin Worker /\ IsFiniteSet(Worker)
  BY MutationAssumption DEF PoolInv, SlotInv, Types, NoneTaken
<1> SUFFICES ASSUME free = {} PROVE FALSE
  OBVIOUS
<1> DEFINE holder == Worker \ {t}
           f == [u \in holder |-> IF copy[u] = NoCopy THEN t ELSE copy[u]]
<1>1. \A w \in Worker : \E u \in Worker : copy[u] = w
  BY DEF CopiesKept
<1>2. \A w \in Worker : \E u \in holder : f[u] = w
  BY <1>0, <1>1
<1>3. f \in [holder -> Worker]
  BY <1>0
<1>4. f \in Surjection(holder, Worker)
  BY <1>2, <1>3 DEF Surjection
<1>5. IsFiniteSet(holder) /\ Cardinality(holder) = Cardinality(Worker) - 1
  BY <1>0, FS_RemoveElement
<1>6. Cardinality(Worker) \in Nat
  BY <1>0, FS_CardinalityType
<1>7. Cardinality(Worker) <= Cardinality(holder)
  BY <1>4, <1>5, FS_Surjection
<1> QED BY <1>5, <1>6, <1>7

\* While nobody edits the checkout, every copy can be restored, to what it was.
LEMMA SameRestores ==
  ASSUME pristine = Same, checkout = Same, NEW t \in [File -> Content]
  PROVE  Restored(t) = Same /\ ~CannotRestore(t)
<1>1. 0 # Absent
  BY DEF Absent
<1>2. \A f \in File : Restored(t)[f] = 0
  BY <1>1 DEF Restored, Same
<1>3. Restored(t) = [f \in File |-> Restored(t)[f]]
  BY DEF Restored
<1>4. Restored(t) = Same
  BY <1>2, <1>3 DEF Same
<1>5. ~CannotRestore(t)
  BY <1>1 DEF CannotRestore, Same
<1> QED BY <1>4, <1>5

LEMMA CleanStep == KillInv /\ [Next]_vars => CleanInv'
<1> SUFFICES ASSUME SlotInv, OwnCopy, CleanInv, [Next]_vars, edits' = 0 PROVE CleanInv'
  BY DEF KillInv, PoolInv, CleanInv
<1>0. /\ edits = 0 /\ checkout' = checkout /\ sources' = sources
      /\ ~ \E f \in File : Edit(f)
  <2>1. \A f \in File : ~Edit(f)
    BY DEF SlotInv, Types, Version, Edit
  <2> QED BY <2>1 DEF Next, Check, JobStep, Done, vars, inputs, Copy, Baseline, Calibrate, SetLimit,
               Begin, Take, Start, Finish, Reset, Tick, Collect, Control
<1>1. /\ checkout = Same /\ sources = Same
      /\ checkout' = Same /\ sources' = Same
      /\ phase = "copy" => \A w \in free : tree[w] = Same
      /\ phase # "copy" => pristine = Same
      /\ phase \in {"baseline", "calibrate", "limit"} => \A w \in Worker : tree[w] = Same
      /\ phase = "run" => \A w \in free : tree[w] = Same
      /\ \A t \in Worker : step[t] = "start" => Others(t) = Same
  BY <1>0 DEF CleanInv
<1>2. /\ tree \in [Worker -> [File -> Content]] /\ Same \in [File -> Content]
      /\ free \subseteq Worker /\ First \in Worker
      /\ step \in [Worker -> {"idle", "take", "start", "run", "reset"}]
      /\ job \in [Worker -> Mutant \cup {0}] /\ copy \in [Worker -> Worker \cup {NoCopy}]
  BY MutationAssumption, Contents DEF SlotInv, Types, Same
<1> DEFINE Goal == CleanInv'
<1>3. ASSUME UNCHANGED <<phase, pristine, tree, free, step, job, copy>> PROVE Goal
  BY <1>1, <1>3 DEF CleanInv, Others
<1>4. CASE Tick \/ UNCHANGED vars
  BY <1>3, <1>4 DEF Tick, vars, jobs
<1>5. ASSUME NEW w \in Worker, Copy(w) PROVE Goal
  <2>1. \A v \in free \cup {w} : tree'[v] = Same
    BY <1>1, <1>2, <1>5 DEF Copy
  <2>2. \A t \in Worker : step'[t] = "idle"
    BY <1>5 DEF Copy, SlotInv
  <2>3. free' = free \cup {w} /\ phase = "copy"
    BY <1>5 DEF Copy
  <2>4. CASE free' = Worker
    <3>1. phase' = "baseline" /\ pristine' = tree'[First]
      BY <1>5, <2>4 DEF Copy
    <3> QED BY <1>1, <1>2, <2>1, <2>2, <2>3, <2>4, <3>1 DEF CleanInv
  <2>5. CASE free' # Worker
    <3>1. phase' = "copy"
      BY <1>5, <2>5 DEF Copy
    <3> QED BY <1>1, <2>1, <2>2, <2>3, <3>1 DEF CleanInv
  <2> QED BY <2>4, <2>5
<1>6. ASSUME \A w \in Worker : tree'[w] = Same, phase # "copy", phase' # "copy",
             UNCHANGED <<pristine, step>>, \A t \in Worker : step[t] = "idle", free' = free
      PROVE  Goal
  BY <1>1, <1>2, <1>6 DEF CleanInv
<1>7. CASE Baseline
  <2>1. phase = "baseline" /\ phase' # "copy" /\ UNCHANGED <<pristine, step, free>>
    BY <1>7 DEF Baseline, Stop, jobs
  <2>2. PICK S \in SUBSET File :
          tree' = tree \/ tree' = [tree EXCEPT ![First] = Restored(Scribbled(tree[First], S))]
    BY <1>7 DEF Baseline
  <2>3. Restored(Scribbled(tree[First], S)) = Same
    BY <1>1, <1>2, <2>1, SameRestores, ScribbledType
  <2>4. \A w \in Worker : tree'[w] = Same
    BY <1>1, <1>2, <2>1, <2>2, <2>3
  <2> QED BY <1>6, <2>1, <2>4 DEF SlotInv
<1>8. CASE Calibrate
  <2>1. phase = "calibrate" /\ phase' # "copy" /\ UNCHANGED <<pristine, step, free>>
    BY <1>8 DEF Calibrate, Stop, jobs
  <2>2. PICK S \in [Worker -> SUBSET File] :
          tree' = tree \/ tree' = [w \in Worker |-> Restored(Scribbled(tree[w], S[w]))]
    BY <1>8 DEF Calibrate
  <2>3. \A w \in Worker : Restored(Scribbled(tree[w], S[w])) = Same
    BY <1>1, <1>2, <2>1, SameRestores, ScribbledType
  <2>4. \A w \in Worker : tree'[w] = Same
    BY <1>1, <2>1, <2>2, <2>3
  <2> QED BY <1>6, <2>1, <2>4 DEF SlotInv
<1>9. CASE SetLimit
  <2>1. phase = "limit" /\ phase' = "run" /\ UNCHANGED <<tree, pristine, step, free>>
    BY <1>9 DEF SetLimit, jobs
  <2> QED BY <1>1, <1>6, <2>1 DEF SlotInv
<1>10. CASE Collect \/ Control
  <2>1. /\ phase # "copy" /\ phase' \in {"control", "done"} /\ UNCHANGED <<pristine, step>>
        /\ \A t \in Worker : step[t] = "idle"
    BY <1>10 DEF Collect, Control, Stop, SlotInv
  <2> QED BY <1>1, <2>1 DEF CleanInv
<1>11. ASSUME NEW t \in Worker, Begin(t) PROVE Goal
  <2>1. /\ UNCHANGED <<phase, pristine, tree, free, copy>>
        /\ \A u \in Worker : step'[u] = "start" => step[u] = "start" /\ job'[u] = job[u]
    BY <1>2, <1>11 DEF Begin
  <2> QED BY <1>1, <2>1 DEF CleanInv, Others
<1>12. ASSUME NEW t \in Worker, Take(t) PROVE Goal
  <2>1. phase = "run" /\ phase' = phase /\ pristine' = pristine /\ step[t] = "take"
        /\ job[t] \in Mutant /\ FileOf[job[t]] \in File
    BY <1>2, <1>12, MutationAssumption DEF Take, SlotInv
  <2>2. CASE free = {}
    <3>1. Fail(t, "index_error") /\ UNCHANGED <<tree, free>>
      BY <1>12, <2>2 DEF Take
    <3>2. \A u \in Worker : step'[u] = "start" =>
            u # t /\ step[u] = "start" /\ job'[u] = job[u] /\ copy'[u] = copy[u]
      BY <1>2, <3>1 DEF Fail
    <3> QED BY <1>1, <2>1, <3>1, <3>2 DEF CleanInv, Others
  <2>3. CASE free # {}
    <3>1. PICK c \in free : /\ free' = free \ {c}
                            /\ IF tree[c][FileOf[job[t]]] = Absent
                                 THEN Fail(t, "os_error") /\ UNCHANGED tree
                                 ELSE /\ copy' = [copy EXCEPT ![t] = c]
                                      /\ tree' = [tree EXCEPT ![c][FileOf[job[t]]] = Mutated]
                                      /\ step' = [step EXCEPT ![t] = "start"]
                                      /\ UNCHANGED <<job, run, results>>
      BY <1>12, <2>3 DEF Take
    <3>2. tree[c] = Same /\ c \in Worker
      BY <1>1, <1>2, <2>1
    <3>3. tree[c][FileOf[job[t]]] # Absent
      BY <2>1, <3>2 DEF Same, Absent
    <3>4. /\ copy'[t] = c /\ job' = job
          /\ tree'[c] = [Same EXCEPT ![FileOf[job[t]]] = Mutated]
          /\ \A w \in Worker : w # c => tree'[w] = tree[w]
          /\ \A u \in Worker : u # t => copy'[u] = copy[u] /\ step'[u] = step[u]
      BY <1>2, <3>1, <3>2, <3>3
    <3>5. [[Same EXCEPT ![FileOf[job[t]]] = Mutated] EXCEPT ![FileOf[job[t]]] = Same[FileOf[job[t]]]] = Same
      BY <2>1 DEF Same
    <3>6. Others(t)' = Same
      BY <1>1, <3>4, <3>5 DEF Others
    <3>7. \A u \in Worker : u # t /\ step[u] = "start" => copy[u] \in Worker /\ copy[u] # c
      BY <3>1 DEF OwnCopy
    <3>8. \A u \in Worker : u # t /\ step'[u] = "start" => Others(u)' = Same
      BY <1>1, <3>4, <3>7 DEF Others
    <3>9. \A w \in free' : tree'[w] = Same
      BY <1>1, <1>2, <2>1, <3>1, <3>4
    <3> QED BY <1>1, <2>1, <3>6, <3>8, <3>9 DEF CleanInv
  <2> QED BY <2>2, <2>3
<1>13. ASSUME NEW t \in Worker, Start(t) PROVE Goal
  <2>1. /\ UNCHANGED <<phase, pristine, tree, free, copy, job>>
        /\ \A u \in Worker : step'[u] = "start" => step[u] = "start"
    BY <1>2, <1>13 DEF Start
  <2> QED BY <1>1, <2>1 DEF CleanInv, Others
<1>14. ASSUME NEW t \in Worker, Finish(t) \/ Reset(t) PROVE Goal
  <2>1. /\ phase = "run" /\ phase' = phase /\ pristine' = pristine /\ step[t] \in {"run", "reset"}
        /\ copy[t] \in Worker
    BY <1>14 DEF Finish, Reset, SlotInv
  <2>2. \A u \in Worker : u # t =>
          (step'[u] = step[u] /\ job'[u] = job[u] /\ copy'[u] = copy[u])
    BY <1>2, <1>14 DEF Finish, Reset, Fail
  <2>3. step'[t] # "start" /\ \A w \in Worker : w # copy[t] => tree'[w] = tree[w]
    BY <1>2, <1>14 DEF Finish, Reset, Fail
  <2>4. \A u \in Worker : step'[u] = "start" => Others(u)' = Same
    <3>1. \A u \in Worker : step'[u] = "start" => u # t /\ copy[u] \in Worker /\ copy[u] # copy[t]
      BY <2>1, <2>2, <2>3 DEF OwnCopy
    <3> QED BY <1>1, <2>2, <2>3, <3>1 DEF Others
  <2>5. \A w \in free' : tree'[w] = Same
    <3>1. CASE Finish(t)
      <4>1. free' = free /\ copy[t] \notin free
        BY <2>1, <3>1 DEF Finish, OwnCopy
      <4> QED BY <1>1, <1>2, <2>1, <2>3, <4>1
    <3>2. CASE Reset(t)
      <4> DEFINE back == [tree[copy[t]] EXCEPT ![FileOf[job[t]]] = Touched]
      <4>1. back \in [File -> Content]
        <5>1. job[t] \in Mutant
          BY <1>2, <3>2 DEF Reset, SlotInv
        <5> QED BY <1>2, <2>1, <5>1, MutationAssumption, Contents
      <4>2. Restored(back) = Same /\ ~CannotRestore(back)
        BY <1>1, <2>1, <4>1, SameRestores
      <4>3. tree' = [tree EXCEPT ![copy[t]] = Restored(back)] /\ free' = free \cup {copy[t]}
        BY <3>2, <4>2 DEF Reset
      <4> QED BY <1>1, <1>2, <2>1, <2>3, <4>2, <4>3
    <3> QED BY <1>14, <3>1, <3>2
  <2> QED BY <1>1, <2>1, <2>4, <2>5 DEF CleanInv
<1> QED
  BY <1>0, <1>4, <1>5, <1>7, <1>8, <1>9, <1>10, <1>11, <1>12, <1>13, <1>14 DEF Next, Check, JobStep, Done

LEMMA NoneYetStep == KillInv /\ [Next]_vars => NoneYet'
<1> SUFFICES ASSUME SlotInv, NoneYet, [Next]_vars PROVE NoneYet'
  BY DEF KillInv, PoolInv
<1>1. (UNCHANGED <<phase, results>>) \/ phase' \in {"run", "control", "done"}
        \/ (results' = results /\ phase \in {"copy", "baseline", "calibrate", "limit"})
  <2>1. ASSUME NEW f \in File, Edit(f) PROVE UNCHANGED <<phase, results>>
    BY <2>1 DEF Edit, jobs
  <2>2. ASSUME NEW t \in Worker, JobStep(t) PROVE phase' = "run"
    BY <2>2 DEF JobStep, Begin, Take, Start, Finish, Reset, SlotInv
  <2>3. CASE Tick \/ Collect \/ Control
    BY <2>3 DEF Tick, Collect, Control, Stop
  <2>4. CASE Baseline \/ Calibrate \/ SetLimit \/ (\E w \in Worker : Copy(w)) \/ UNCHANGED vars
    BY <2>4 DEF Baseline, Calibrate, SetLimit, Copy, vars, jobs
  <2> QED BY <2>1, <2>2, <2>3, <2>4 DEF Next, Check, Done
<1> QED BY <1>1 DEF NoneYet

LEMMA LoadedStep ==
  KillInv /\ [Next]_vars =>
    (phase' \in {"calibrate", "limit", "run", "control"} => loaded' >= MinRun)
<1> SUFFICES ASSUME KillInv, [Next]_vars, phase' \in {"calibrate", "limit", "run", "control"}
             PROVE  loaded' >= MinRun
  OBVIOUS
<1>0. /\ loaded \in Nat /\ MinRun \in Nat /\ MaxRun \in Nat
      /\ results \in [Mutant -> Result]
      /\ phase \in {"calibrate", "limit", "run", "control"} => loaded >= MinRun
  BY MutationAssumption DEF KillInv, PoolInv, SlotInv, Types
<1>1. CASE Baseline
  <2>1. loaded' \in Durations
    BY <1>1 DEF Baseline, Stop
  <2> QED BY <1>0, <2>1 DEF Durations
<1>2. CASE Calibrate
  <2>1. phase = "calibrate" /\ \E d \in Durations : loaded' = Larger(loaded, d)
    BY <1>2 DEF Calibrate, Stop
  <2> QED BY <1>0, <2>1 DEF Durations, Larger
<1>3. CASE Collect
  <2>1. phase = "run" /\ \E base \in Passing : (\A s \in Passing : s <= base) /\ loaded' = base
    BY <1>3 DEF Collect, Stop
  <2>2. loaded \in Passing /\ Passing \subseteq Nat
    BY <1>0 DEF Passing, Result
  <2> QED BY <1>0, <2>1, <2>2
<1>4. CASE Control
  BY <1>4 DEF Control, Stop
<1>5. CASE ~Baseline /\ ~Calibrate /\ ~Collect /\ ~Control
  <2>1. loaded' = loaded /\ phase \in {"calibrate", "limit", "run", "control"}
    BY <1>5 DEF Next, Check, JobStep, Done, vars, jobs, inputs, Edit, Copy, SetLimit,
         Begin, Take, Start, Finish, Reset, Tick
  <2> QED BY <1>0, <2>1
<1> QED BY <1>1, <1>2, <1>3, <1>4, <1>5

LEMMA TellingStep ==
  KillInv /\ [Next]_vars =>
    (edits' = 0 => \A t \in Worker : step'[t] = "run" => Telling(run[t], job[t])')
<1> SUFFICES ASSUME KillInv, [Next]_vars, edits' = 0
             PROVE  \A t \in Worker : step'[t] = "run" => Telling(run[t], job[t])'
  OBVIOUS
<1>0. /\ edits = 0 /\ fate' = fate
      /\ \A f \in File : ~Edit(f)
  <2>1. \A f \in File : ~Edit(f)
    BY DEF KillInv, PoolInv, SlotInv, Types, Version, Edit
  <2> QED BY <2>1 DEF Next, Check, JobStep, Done, vars, inputs, Copy, Baseline, Calibrate, SetLimit,
               Begin, Take, Start, Finish, Reset, Tick, Collect, Control
<1>1. /\ \A t \in Worker : step[t] = "run" => Telling(run[t], job[t])
      /\ run \in [Worker -> TestRun] /\ job \in [Worker -> Mutant \cup {0}]
      /\ step \in [Worker -> {"idle", "take", "start", "run", "reset"}]
      /\ fate \in [Mutant -> Fate]
      /\ MinRun \in Nat /\ MinRun > 0 /\ MaxRun \in Nat /\ MinRun <= MaxRun
      /\ \A t \in Worker : step[t] = "idle" <=> job[t] = 0
  BY <1>0, MutationAssumption DEF KillInv, PoolInv, SlotInv, Types
<1>2. ASSUME \A t \in Worker : step'[t] = "run" =>
               step[t] = "run" /\ job'[t] = job[t] /\ run'[t] = run[t]
      PROVE  \A t \in Worker : step'[t] = "run" => Telling(run[t], job[t])'
  BY <1>0, <1>1, <1>2 DEF Telling
<1>3. CASE Baseline \/ Calibrate \/ SetLimit \/ Collect \/ Control \/ UNCHANGED vars
           \/ \E w \in Worker : Copy(w)
  BY <1>2, <1>3 DEF Baseline, Calibrate, SetLimit, Collect, Control, vars, jobs, Copy
<1>4. ASSUME NEW t \in Worker, Begin(t) \/ Take(t) \/ Finish(t) \/ Reset(t)
      PROVE  \A u \in Worker : step'[u] = "run" => Telling(run[u], job[u])'
  BY <1>1, <1>2, <1>4 DEF Begin, Take, Fail, Finish, Reset
<1>5. ASSUME NEW t \in Worker, Start(t)
      PROVE  \A u \in Worker : step'[u] = "run" => Telling(run[u], job[u])'
  <2>1. pristine = Same /\ Others(t) = Same /\ job[t] \in Mutant /\ job' = job
    BY <1>0, <1>1, <1>5 DEF KillInv, CleanInv, Start, PoolInv, SlotInv
  <2>2. PICK o \in Outcomes(job[t], TRUE) : run' = [run EXCEPT ![t] =
                   [ends |-> o.ends, due |-> o.due, limit |-> CutLimit, elapsed |-> 0]]
    BY <1>5, <2>1 DEF Start
  <2>3. /\ run'[t].ends = o.ends /\ run'[t].due = o.due /\ run'[t].elapsed = 0
        /\ \A u \in Worker : u # t => run'[u] = run[u] /\ step'[u] = step[u]
    BY <1>1, <1>5, <2>2 DEF Start
  <2>4. /\ o.ends = "survived" => fate[job[t]] = "missed"
        /\ o.ends = "killed" => fate[job[t]] = "caught"
        /\ o.ends = "hang" => fate[job[t]] = "hangs"
        /\ o.ends # "hang" => o.due \in 0 .. MaxRun
    BY <1>1 DEF Outcomes, Durations
  <2>5. Telling(run[t], job[t])'
    BY <1>0, <1>1, <2>1, <2>3, <2>4 DEF Telling
  <2> QED BY <1>0, <1>1, <2>1, <2>3, <2>5 DEF Telling
<1>6. CASE Tick
  <2> SUFFICES ASSUME NEW t \in Worker, step'[t] = "run" PROVE Telling(run[t], job[t])'
    OBVIOUS
  <2>1. step[t] = "run" /\ job' = job /\ ~Ends(run[t]) /\ run'[t] = [run[t] EXCEPT !.elapsed = @ + 1]
    BY <1>6 DEF Tick
  <2>2. /\ run'[t].ends = run[t].ends /\ run'[t].due = run[t].due
        /\ run'[t].elapsed = run[t].elapsed + 1
        /\ run[t].elapsed \in Nat /\ run[t].due \in Nat
    BY <1>1, <2>1 DEF TestRun
  <2>3. Telling(run[t], job[t])
    BY <1>1, <2>1
  <2> QED BY <1>0, <1>1, <2>1, <2>2, <2>3 DEF Telling, Ends
<1> QED
  BY <1>0, <1>3, <1>4, <1>5, <1>6 DEF Next, Check, JobStep, Done

\* What the statuses of the results are after a step of a job that is not a
\* failure, and after the judgement.
LEMMA JudgedShows ==
  ASSUME NEW r \in [Mutant -> Result], NEW base,
         \A m \in Mutant : Shown(r[m], m) /\ r[m].status \notin Raised
  PROVE  /\ \A m \in Mutant : /\ Shown(Judged(r, base)[m], m)
                              /\ Judged(r, base)[m].status \notin Raised
         /\ \A m \in Mutant : /\ Shown(AllUnverified(r)[m], m)
                              /\ AllUnverified(r)[m].status \notin Raised
<1> SUFFICES ASSUME NEW m \in Mutant
             PROVE  /\ Shown(Judged(r, base)[m], m) /\ Judged(r, base)[m].status \notin Raised
                    /\ Shown(AllUnverified(r)[m], m) /\ AllUnverified(r)[m].status \notin Raised
  OBVIOUS
<1> DEFINE u == [r[m] EXCEPT !.status = "timeout_unverified"]
<1>1. r[m] \in Result
  OBVIOUS
<1>2. u.status = "timeout_unverified"
  BY <1>1 DEF Result
<1>3. Shown(u, m) /\ u.status \notin Raised
  BY <1>2 DEF Shown, Raised
<1>4. Judged(r, base)[m] \in {r[m], u} /\ AllUnverified(r)[m] \in {r[m], u}
  BY DEF Judged, AllUnverified
<1> QED BY <1>3, <1>4

LEMMA ShownStep ==
  KillInv /\ [Next]_vars =>
    (edits' = 0 => \A m \in Mutant : Shown(results[m], m)' /\ results'[m].status \notin Raised)
<1> SUFFICES ASSUME KillInv, [Next]_vars, edits' = 0
             PROVE  \A m \in Mutant : Shown(results[m], m)' /\ results'[m].status \notin Raised
  OBVIOUS
<1>0. /\ edits = 0 /\ fate' = fate
      /\ \A f \in File : ~Edit(f)
  <2>1. \A f \in File : ~Edit(f)
    BY DEF KillInv, PoolInv, SlotInv, Types, Version, Edit
  <2> QED BY <2>1 DEF Next, Check, JobStep, Done, vars, inputs, Copy, Baseline, Calibrate, SetLimit,
               Begin, Take, Start, Finish, Reset, Tick, Collect, Control
<1>1. /\ \A m \in Mutant : Shown(results[m], m) /\ results[m].status \notin Raised
      /\ results \in [Mutant -> Result] /\ results' \in [Mutant -> Result]
      /\ run \in [Worker -> TestRun] /\ job \in [Worker -> Mutant \cup {0}]
      /\ step \in [Worker -> {"idle", "take", "start", "run", "reset"}]
      /\ tree \in [Worker -> [File -> Content]]
      /\ \A t \in Worker : step[t] # "idle" => phase = "run" /\ job[t] \in Mutant /\ FileOf[job[t]] \in File
  BY <1>0, MutationAssumption, TypesStep DEF KillInv, PoolInv, SlotInv, Types
<1> DEFINE Goal == \A m \in Mutant : Shown(results[m], m)' /\ results'[m].status \notin Raised
<1>2. ASSUME results' = results PROVE Goal
  BY <1>0, <1>1, <1>2 DEF Shown
<1>3. CASE Baseline \/ Calibrate \/ SetLimit \/ Tick \/ UNCHANGED vars
           \/ \E w \in Worker : Copy(w)
  BY <1>2, <1>3 DEF Baseline, Calibrate, SetLimit, Tick, vars, jobs, Copy
<1>4. ASSUME NEW t \in Worker, Begin(t) PROVE Goal
  <2>1. CASE left # 0
    BY <1>2, <1>4, <2>1 DEF Begin
  <2>2. CASE left = 0
    <3>1. \A m \in Mutant : results'[m] = results[m] \/ results'[m].status = "skipped_budget"
      BY <1>1, <1>4, <2>2 DEF Begin, Result
    <3> QED BY <1>0, <1>1, <3>1 DEF Shown, Raised
  <2> QED BY <2>1, <2>2
<1>5. ASSUME NEW t \in Worker, Take(t) PROVE Goal
  <2>1. step[t] = "take" /\ phase = "run" /\ job[t] \in Mutant /\ FileOf[job[t]] \in File
    BY <1>1, <1>5 DEF Take
  <2>2. free # {}
    BY <1>1, <2>1, NoFailure, PoolSuffices DEF KillInv
  <2>3. \A c \in free : tree[c][FileOf[job[t]]] # Absent
    BY <1>0, <2>1 DEF KillInv, CleanInv, Same, Absent
  <2>4. results' = results
    BY <1>5, <2>2, <2>3 DEF Take
  <2> QED BY <1>2, <2>4
<1>6. ASSUME NEW t \in Worker, Start(t) PROVE Goal
  BY <1>2, <1>6 DEF Start
<1>7. ASSUME NEW t \in Worker, Finish(t) PROVE Goal
  <2>1. step[t] = "run" /\ job[t] \in Mutant /\ Telling(run[t], job[t])
    BY <1>0, <1>1, <1>7 DEF Finish, KillInv
  <2>2. PICK st \in Status :
          /\ \/ st = run[t].ends /\ Ends(run[t])
             \/ st = "timeout" /\ TimesOut(run[t])
          /\ results' = [results EXCEPT ![job[t]] =
               [status |-> st, limit |-> run[t].limit, secs |-> run[t].elapsed]]
    BY <1>7 DEF Finish
  <2>3. /\ results'[job[t]].status = st /\ results'[job[t]].limit = run[t].limit
        /\ \A m \in Mutant : m # job[t] => results'[m] = results[m]
    BY <1>1, <2>1, <2>2
  <2>4. run[t] \in TestRun
    BY <1>1
  <2>5. st \notin Raised
    BY <2>2, <2>4 DEF TestRun, Raised
  <2>6. st = "survived" => fate[job[t]] = "missed"
    BY <2>1, <2>2 DEF Telling
  <2>7. st = "killed" => fate[job[t]] = "caught"
    BY <2>1, <2>2 DEF Telling
  <2>8. st = "timeout" /\ fate[job[t]] # "hangs" => run[t].limit <= MaxRun
    <3> SUFFICES ASSUME st = "timeout", fate[job[t]] # "hangs" PROVE run[t].limit <= MaxRun
      OBVIOUS
    <3>1. run[t].ends # "timeout" /\ run[t].limit \in Nat /\ run[t].due \in Nat /\ run[t].elapsed \in Nat
      BY <2>4 DEF TestRun
    <3>2. run[t].elapsed = run[t].limit
      BY <2>2, <3>1 DEF TimesOut
    <3>3. run[t].elapsed <= run[t].due /\ run[t].due <= MaxRun
      BY <2>1 DEF Telling
    <3> QED BY <3>1, <3>2, <3>3, MutationAssumption
  <2> QED BY <1>0, <1>1, <1>7, <2>3, <2>5, <2>6, <2>7, <2>8 DEF Shown, Finish
<1>8. ASSUME NEW t \in Worker, Reset(t) PROVE Goal
  <2> DEFINE back == [tree[copy[t]] EXCEPT ![FileOf[job[t]]] = Touched]
  <2>1. step[t] = "reset" /\ phase = "run" /\ copy[t] \in Worker /\ FileOf[job[t]] \in File
    BY <1>1, <1>8 DEF Reset, KillInv, PoolInv, SlotInv
  <2>2. back \in [File -> Content]
    BY <1>1, <2>1, Contents
  <2>3. ~CannotRestore(back)
    BY <1>0, <2>1, <2>2, SameRestores DEF KillInv, CleanInv
  <2>4. results' = results
    BY <1>8, <2>3 DEF Reset
  <2> QED BY <1>2, <2>4
<1>9. CASE Collect
  <2>1. Failures = {}
    BY <1>1, NoFailure
  <2>2. PICK base \in Passing : results' = Judged(results, base)
    BY <1>9, <2>1 DEF Collect
  <2>3. \A m \in Mutant : Shown(results'[m], m) /\ results'[m].status \notin Raised
    BY <1>1, <2>2, JudgedShows
  <2> QED BY <1>0, <2>3 DEF Shown
<1>10. CASE Control
  <2>1. results' = results \/ (\E base : results' = Judged(results, base))
          \/ results' = AllUnverified(results)
    BY <1>10 DEF Control
  <2>2. \A m \in Mutant : Shown(results'[m], m) /\ results'[m].status \notin Raised
    BY <1>1, <2>1, JudgedShows
  <2> QED BY <1>0, <2>2 DEF Shown
<1> QED
  BY <1>0, <1>3, <1>4, <1>5, <1>6, <1>7, <1>8, <1>9, <1>10 DEF Next, Check, JobStep, Done

\* A timeout that survives the judgement has a limit no passing run would reach.
LEMMA JudgedHangs ==
  ASSUME NEW r \in [Mutant -> Result], NEW base \in Nat, base >= MinRun, MaxRun < 3 * MinRun,
         NEW m \in Mutant, Shown(r[m], m), Judged(r, base)[m].status = "timeout"
  PROVE  fate[m] = "hangs"
<1>0. MinRun \in Nat /\ MaxRun \in Nat /\ r[m] \in Result
  BY MutationAssumption
<1>1. r[m].status = "timeout" /\ ~(3 * base > r[m].limit)
  <2>1. CASE r[m].status = "timeout" /\ 3 * base > r[m].limit
    <3>1. Judged(r, base)[m] = [r[m] EXCEPT !.status = "timeout_unverified"]
      BY <2>1 DEF Judged
    <3> QED BY <1>0, <3>1 DEF Result
  <2>2. CASE ~(r[m].status = "timeout" /\ 3 * base > r[m].limit)
    <3>1. Judged(r, base)[m] = r[m]
      BY <2>2 DEF Judged
    <3> QED BY <2>2, <3>1
  <2> QED BY <2>1, <2>2
<1>2. r[m].limit \in Nat /\ r[m].limit > MaxRun
  BY <1>0, <1>1 DEF Result
<1> QED BY <1>0, <1>1, <1>2 DEF Shown

LEMMA JudgedKeeps ==
  ASSUME NEW r \in [Mutant -> Result], NEW base, NEW m \in Mutant
  PROVE  /\ Judged(r, base)[m].status = "timeout" => r[m].status = "timeout"
         /\ Judged(r, base)[m].status \in {"none"} \cup Raised => r[m].status \in {"none"} \cup Raised
         /\ AllUnverified(r)[m].status # "timeout"
<1> DEFINE u == [r[m] EXCEPT !.status = "timeout_unverified"]
<1>1. u.status = "timeout_unverified"
  <2>1. r[m] \in Result
    OBVIOUS
  <2> QED BY <2>1 DEF Result
<1>2. Judged(r, base)[m] \in {r[m], u}
      /\ (AllUnverified(r)[m] = u \/ (AllUnverified(r)[m] = r[m] /\ r[m].status # "timeout"))
  BY DEF Judged, AllUnverified
<1> HIDE DEF u
<1> QED BY <1>1, <1>2 DEF Raised

LEMMA HangsStep ==
  KillInv /\ [Next]_vars =>
    (Undisturbed' /\ phase' \in {"control", "done"} =>
       \A m \in Mutant : results'[m].status = "timeout" => fate'[m] = "hangs")
<1> SUFFICES ASSUME KillInv, [Next]_vars, edits' = 0, MaxRun < 3 * MinRun,
                    phase' \in {"control", "done"},
                    NEW m \in Mutant, results'[m].status = "timeout"
             PROVE  fate'[m] = "hangs"
  BY DEF Undisturbed
<1>0. /\ edits = 0 /\ fate' = fate
      /\ \A f \in File : ~Edit(f)
  <2>1. \A f \in File : ~Edit(f)
    BY DEF KillInv, PoolInv, SlotInv, Types, Version, Edit
  <2> QED BY <2>1 DEF Next, Check, JobStep, Done, vars, inputs, Copy, Baseline, Calibrate, SetLimit,
               Begin, Take, Start, Finish, Reset, Tick, Collect, Control
<1>1. /\ results \in [Mutant -> Result] /\ loaded \in Nat /\ MinRun \in Nat
      /\ Shown(results[m], m) /\ \A n \in Mutant : results[n].status \notin Raised
      /\ phase \in {"calibrate", "limit", "run", "control"} => loaded >= MinRun
      /\ phase \in {"control", "done"} /\ results[m].status = "timeout" => fate[m] = "hangs"
      /\ phase \in {"copy", "baseline", "calibrate", "limit"} => results[m].status = "none"
      /\ \A t \in Worker : step[t] # "idle" => phase = "run"
  BY <1>0, MutationAssumption DEF KillInv, Undisturbed, PoolInv, SlotInv, Types, NoneYet
<1>2. CASE Collect
  <2>1. PICK base \in Passing : /\ \A s \in Passing : s <= base
                                /\ results' = Judged(results, base)
    BY <1>1, <1>2, NoFailure DEF Collect
  <2>2. base \in Nat /\ base >= MinRun
    <3>1. loaded \in Passing /\ Passing \subseteq Nat /\ phase = "run"
      BY <1>1, <1>2 DEF Passing, Result, Collect
    <3> QED BY <1>1, <2>1, <3>1
  <2> QED BY <1>0, <1>1, <2>1, <2>2, JudgedHangs
<1>3. CASE Control
  <2>1. phase = "control" /\ (results' = results \/ (\E base : results' = Judged(results, base))
          \/ results' = AllUnverified(results))
    BY <1>3 DEF Control
  <2>2. results[m].status = "timeout"
    BY <1>1, <2>1, JudgedKeeps
  <2> QED BY <1>0, <1>1, <2>1, <2>2
<1>4. CASE Baseline \/ Calibrate \/ SetLimit \/ (\E w \in Worker : Copy(w))
  BY <1>1, <1>4 DEF Baseline, Calibrate, SetLimit, Copy, jobs
<1>5. CASE Tick \/ UNCHANGED vars
  BY <1>0, <1>1, <1>5 DEF Tick, vars, jobs
<1>6. ASSUME NEW t \in Worker, JobStep(t) PROVE FALSE
  BY <1>1, <1>6 DEF JobStep, Begin, Take, Start, Finish, Reset
<1> QED BY <1>0, <1>2, <1>3, <1>4, <1>5, <1>6 DEF Next, Check, Done

LEMMA KillInductive ==
  /\ Init => KillInv
  /\ KillInv /\ [Next]_vars => KillInv'
<1>1. ASSUME Init PROVE KillInv
  <2>1. PoolInv /\ phase = "copy" /\ edits = 0 /\ free = {}
    BY <1>1, PoolInductive DEF Init
  <2>2. \A m \in Mutant : results[m].status = "none"
    BY <1>1 DEF Init, NoResult
  <2>3. CopiesKept /\ CleanInv /\ NoneYet
    BY <1>1, <2>1, <2>2 DEF Init, CopiesKept, CleanInv, NoneYet, Same
  <2>4. \A m \in Mutant : Shown(results[m], m) /\ results[m].status \notin Raised
    BY <2>2 DEF Shown, Raised
  <2> QED BY <1>1, <2>1, <2>3, <2>4 DEF Init, KillInv
<1>2. ASSUME KillInv, [Next]_vars PROVE KillInv'
  <2>1. PoolInv' /\ CopiesKept'
    BY <1>2, PoolInductive, KeptStep DEF KillInv
  <2> QED BY <1>2, <2>1, CleanStep, NoneYetStep, LoadedStep, TellingStep, ShownStep, HangsStep DEF KillInv
<1> QED BY <1>1, <1>2

LEMMA KillInvShows == KillInv => NoFalseKill
  BY DEF KillInv, NoFalseKill, Undisturbed, Shown

\* On an undisturbed machine no mutant that the tests do not notice is counted as
\* killed (recheck_timeouts, confirm_timeouts), however many workers there are,
\* whatever --timeout was given, and however the budget has cut the limits.
THEOREM SlowIsNotKilled == Spec => []NoFalseKill
  BY KillInductive, KillInvShows, PTL DEF Spec

\* Every mutant has a result when the control run begins, and a kill when the
\* check passes.
PassInv ==
  /\ phase = "control" => \A m \in Mutant : results[m].status \notin {"none"} \cup Raised
  /\ exit = 0 => phase = "done" /\ \A m \in Mutant : results[m].status \in {"killed", "timeout"}

LEMMA PassStep == KillInv /\ PassInv /\ [Next]_vars => PassInv'
<1> SUFFICES ASSUME KillInv, PassInv, [Next]_vars PROVE PassInv'
  OBVIOUS
<1>0. /\ results \in [Mutant -> Result] /\ results' \in [Mutant -> Result]
      /\ next \in 1 .. Mutants + 1 /\ Mutants \in Nat
      /\ \A t \in Worker : step[t] # "idle" => phase = "run"
      /\ \A t \in Worker : step[t] = "idle" => job[t] = 0
  BY MutationAssumption, TypesStep DEF KillInv, PoolInv, SlotInv, Types
<1>1. ASSUME UNCHANGED <<phase, results, exit>> PROVE PassInv'
  BY <1>1 DEF PassInv
<1>2. ASSUME phase' = "run", exit' = exit, phase # "done" PROVE PassInv'
  BY <1>2 DEF PassInv
<1>3. ASSUME NEW r \in [Mutant -> Result],
             \A m \in Mutant : r[m].status \notin {"none"} \cup Raised,
             ExitCode(r) = 0
      PROVE  \A m \in Mutant : r[m].status \in {"killed", "timeout"}
  <2>1. \A m \in Mutant : r[m].status \notin
          {"survived", "error", "timeout_unverified", "skipped_budget", "none"} \cup Raised
    BY <1>3 DEF ExitCode, Has
  <2>2. \A m \in Mutant : r[m].status \in Status
    BY <1>3 DEF Result
  <2> QED BY <2>1, <2>2 DEF Status, Raised
<1>4. CASE Collect
  <2>1. CASE Failures # {}
    BY <1>4, <2>1 DEF Collect, Stop, PassInv
  <2>2. CASE Failures = {}
    <3>1. \A m \in Mutant : results[m].status \notin {"none"} \cup Raised
      <4>1. \A t \in Worker : job[t] = 0
        BY <1>0, <1>4 DEF Collect
      <4>2. next > Mutants /\ phase = "run"
        BY <1>4, <2>2 DEF Collect
      <4>3. \A m \in Mutant : m < next /\ m # 0
        BY <1>0, <4>2 DEF Mutant
      <4> QED BY <2>2, <4>1, <4>2, <4>3, NoFailure DEF KillInv, PoolInv, JobInv
    <3>2. PICK base \in Passing : results' = Judged(results, base)
      BY <1>4, <2>2 DEF Collect
    <3>3. \A m \in Mutant : results'[m].status \notin {"none"} \cup Raised
      BY <1>0, <3>1, <3>2, JudgedKeeps
    <3>4. (phase' = "control" /\ exit' = exit) \/ (phase' = "done" /\ exit' = ExitCode(results'))
      BY <1>4, <2>2 DEF Collect, Stop
    <3>5. exit # 0
      BY <1>4 DEF PassInv, Collect
    <3> QED BY <1>0, <1>3, <3>3, <3>4, <3>5 DEF PassInv
  <2> QED BY <2>1, <2>2
<1>5. CASE Control
  <2>1. CASE CannotRestore(tree[First])
    BY <1>5, <2>1 DEF Control, Stop, PassInv
  <2>2. CASE ~CannotRestore(tree[First])
    <3>1. \A m \in Mutant : results[m].status \notin {"none"} \cup Raised
      BY <1>5 DEF Control, PassInv
    <3>2. (\E base : results' = Judged(results, base)) \/ results' = AllUnverified(results)
      BY <1>5, <2>2 DEF Control
    <3>3. \A m \in Mutant : AllUnverified(results)[m].status \in {results[m].status, "timeout_unverified"}
      <4> SUFFICES ASSUME NEW m \in Mutant
                   PROVE  AllUnverified(results)[m].status \in {results[m].status, "timeout_unverified"}
        OBVIOUS
      <4>1. results[m] \in Result
        BY <1>0
      <4>2. [results[m] EXCEPT !.status = "timeout_unverified"].status = "timeout_unverified"
        BY <4>1 DEF Result
      <4>3. AllUnverified(results)[m] \in
              {results[m], [results[m] EXCEPT !.status = "timeout_unverified"]}
        BY DEF AllUnverified
      <4> QED BY <4>2, <4>3
    <3>4. \A m \in Mutant : results'[m].status \notin {"none"} \cup Raised
      BY <1>0, <3>1, <3>2, <3>3, JudgedKeeps DEF Raised
    <3>5. phase' = "done" /\ exit' = ExitCode(results')
      BY <1>5, <2>2 DEF Control, Stop
    <3> QED BY <1>0, <1>3, <3>4, <3>5 DEF PassInv
  <2> QED BY <2>1, <2>2
<1>6. CASE Baseline \/ Calibrate \/ SetLimit \/ \E w \in Worker : Copy(w)
  <2>1. /\ phase \in {"copy", "baseline", "calibrate", "limit"} /\ phase' # "control"
        /\ exit' = exit \/ exit' = 2
    BY <1>6 DEF Baseline, Calibrate, SetLimit, Copy, Stop, jobs
  <2> QED BY <2>1 DEF PassInv
<1>7. CASE Tick \/ UNCHANGED vars
  BY <1>1, <1>7 DEF Tick, vars, jobs
<1>8. ASSUME NEW t \in Worker, JobStep(t) PROVE PassInv'
  BY <1>0, <1>2, <1>8 DEF JobStep, Begin, Take, Start, Finish, Reset
<1>9. ASSUME NEW f \in File, Edit(f) PROVE PassInv'
  BY <1>1, <1>9 DEF Edit, jobs
<1> QED BY <1>4, <1>5, <1>6, <1>7, <1>8, <1>9 DEF Next, Check, Done

\* The check passes only if the tests notice every mutant (main), on an
\* undisturbed machine.
THEOREM PassesEarned == Spec => []PassIsEarned
<1>1. Init => PassInv
  BY DEF Init, PassInv, NoExit
<1>2. KillInv /\ PassInv => PassIsEarned
  BY DEF KillInv, PassInv, PassIsEarned, Undisturbed, Shown
<1> QED BY <1>1, <1>2, KillInductive, PassStep, PTL DEF Spec

-----------------------------------------------------------------------------
(* Every mutant is judged once *)

\* Until a job has raised, a thread that takes a copy finds one.
NeverShort == Failures = {} => \A t \in Worker : step[t] = "take" => free # {}

\* A result is written when there is none, and changed only if a timeout turns out not
\* to be proven, or if the copy of the job that wrote it cannot be restored.
JudgedOnce ==
  \A m \in Mutant :
    results'[m] # results[m] =>
      \/ results[m].status = "none"
      \/ results[m].status = "timeout" /\ results'[m].status = "timeout_unverified"
      \/ /\ \E t \in Worker : job[t] = m /\ step[t] = "reset"
         /\ results'[m].status = "os_error"

LEMMA JudgedOnceStep == ASSUME PoolInv, [Next]_vars PROVE JudgedOnce
<1>0. /\ results \in [Mutant -> Result] /\ job \in [Worker -> Mutant \cup {0}]
      /\ \A t \in Worker : step[t] # "idle" => phase = "run" /\ job[t] \in Mutant
  BY DEF PoolInv, SlotInv, Types
<1>1. ASSUME results' = results PROVE JudgedOnce
  BY <1>1 DEF JudgedOnce
<1>2. ASSUME NEW m \in Mutant, results[m].status = "none", \A n \in Mutant \ {m} : results'[n] = results[n]
      PROVE  JudgedOnce
  BY <1>2 DEF JudgedOnce
<1>3. ASSUME NEW t \in Worker, step[t] \in {"take", "run"}, \A n \in Mutant \ {job[t]} : results'[n] = results[n]
      PROVE  JudgedOnce
  BY <1>0, <1>2, <1>3 DEF PoolInv, JobInv
<1>4. ASSUME \A m \in Mutant :
               \/ results'[m] = results[m]
               \/ /\ results[m].status = "timeout"
                  /\ results'[m] = [results[m] EXCEPT !.status = "timeout_unverified"]
      PROVE  JudgedOnce
  <2> SUFFICES ASSUME NEW m \in Mutant, results'[m] # results[m]
               PROVE  results[m].status = "timeout" /\ results'[m].status = "timeout_unverified"
    BY DEF JudgedOnce
  <2>1. results[m] \in Result /\ results[m].status = "timeout"
    BY <1>0, <1>4
  <2>2. results'[m] = [results[m] EXCEPT !.status = "timeout_unverified"]
    BY <1>4
  <2> QED BY <2>1, <2>2 DEF Result
<1>5. CASE Baseline \/ Calibrate \/ SetLimit \/ Tick \/ UNCHANGED vars \/ \E w \in Worker : Copy(w)
  BY <1>1, <1>5 DEF Baseline, Calibrate, SetLimit, Tick, Copy, vars, jobs
<1>6. CASE Collect \/ Control
  <2>1. \/ results' = results \/ results' = AllUnverified(results)
        \/ \E base : results' = Judged(results, base)
    BY <1>6 DEF Collect, Control
  <2> QED BY <1>1, <1>4, <2>1 DEF AllUnverified, Judged
<1>7. ASSUME NEW t \in Worker, Begin(t) PROVE JudgedOnce
  <2>1. next \in Mutant /\ results[next].status = "none"
    BY <1>7, MutationAssumption DEF Begin, PoolInv, JobInv, SlotInv, Types, Mutant
  <2>2. \A n \in Mutant \ {next} : results'[n] = results[n]
    BY <1>0, <1>7 DEF Begin
  <2> QED BY <1>2, <2>1, <2>2
<1>8. ASSUME NEW t \in Worker, Take(t) \/ Finish(t) PROVE JudgedOnce
  <2>1. step[t] \in {"take", "run"}
    BY <1>8 DEF Take, Finish
  <2>2. \A n \in Mutant \ {job[t]} : results'[n] = results[n]
    BY <1>0, <1>8 DEF Take, Finish, Fail
  <2> QED BY <1>3, <2>1, <2>2
<1>9. ASSUME NEW t \in Worker, Start(t) PROVE JudgedOnce
  BY <1>1, <1>9 DEF Start
<1>10. ASSUME NEW t \in Worker, Reset(t) PROVE JudgedOnce
  <2>1. CASE Fail(t, "os_error")
    <3>1. /\ \A n \in Mutant \ {job[t]} : results'[n] = results[n]
          /\ results'[job[t]] = [results[job[t]] EXCEPT !.status = "os_error"]
      BY <1>0, <1>10, <2>1 DEF Fail, Reset
    <3>2. step[t] = "reset" /\ job[t] \in Mutant /\ results[job[t]] \in Result
      BY <1>0, <1>10 DEF Reset
    <3>3. results'[job[t]].status = "os_error"
      BY <3>1, <3>2 DEF Result
    <3> QED BY <3>1, <3>2, <3>3 DEF JudgedOnce
  <2> QED BY <1>1, <1>10, <2>1 DEF Reset
<1>11. ASSUME NEW f \in File, Edit(f) PROVE JudgedOnce
  BY <1>1, <1>11 DEF Edit, jobs
<1> QED BY <1>5, <1>6, <1>7, <1>8, <1>9, <1>10, <1>11 DEF Next, Check, JobStep, Done

\* However many threads take mutants from the queue and copies from the pool, none finds
\* the pool empty before another has failed, no two judge the same mutant, and what one has
\* found is not overwritten by another (check.job).
THEOREM EachOnce == Spec => []NeverShort /\ [][JudgedOnce]_vars
<1>1. Init => CopiesKept
  BY DEF Init, CopiesKept
<1>2. PoolInv /\ CopiesKept => NeverShort
  BY PoolSuffices DEF NeverShort, PoolInv, SlotInv
<1>3. PoolInv /\ [Next]_vars => [JudgedOnce]_vars
  BY JudgedOnceStep
<1> QED BY <1>1, <1>2, <1>3, PoolInductive, KeptStep, PTL DEF Spec

-----------------------------------------------------------------------------
(* main *)


\* Behind main the check is MutationCheck's, so its theorems hold of the whole.
THEOREM GoesOn == MainSpec => Spec
<1>1. MainInit => Init
  BY DEF MainInit
<1>2. [MainNext]_<<own, vars>> => [Next]_vars
  BY DEF MainNext, Main, Reexec, List, Scan, MakeSandbox, Consent, Read, Go, Change, Stopped
<1> QED  BY <1>1, <1>2, PTL DEF MainSpec, Spec

\* What decides between sandbox, namespace and refusal keeps its type.
THEOREM MainTyping == MainSpec => []MainTypeOK
<1>1. NoTexts \in [File -> Text] /\ NoMachine \in Machine /\ NoFlags \in Flags
        /\ NoNamespace \in [marked : BOOLEAN, one : BOOLEAN]
  BY DEF NoTexts, NoText, Text, NoMachine, Machine, Setting, Binary, NoFlags, Flags, NoNamespace
<1>2. MainInit => MainTypeOK
  BY <1>1, MainAssumption DEF MainInit, MainTypeOK, Modes
<1>3. MainTypeOK /\ [MainNext]_<<own, vars>> => MainTypeOK'
  <2> SUFFICES ASSUME MainTypeOK, [MainNext]_<<own, vars>> PROVE MainTypeOK'
    OBVIOUS
  <2> USE DEF MainTypeOK
  <2>1. CASE Main
    <3>1. /\ ns' \in {ns, [marked |-> TRUE, one |-> TRUE]} /\ gate' \in {gate, "blocked", "list"}
          /\ UNCHANGED <<flags, machine, text, touched, seen, taken, mode>>
      BY <2>1 DEF Main, Reexec, Block, given
    <3>2. ns' \in [marked : BOOLEAN, one : BOOLEAN]
      <4>1. [marked |-> TRUE, one |-> TRUE] \in [marked : BOOLEAN, one : BOOLEAN]
        OBVIOUS
      <4> QED  BY <3>1, <4>1, Zenon
    <3>3. gate' \in {"main", "list", "scan", "sandbox", "consent", "read", "admitted", "on",
                     "blocked", "passed"}
      BY <3>1
    <3>4. flags' \in Flags /\ machine' \in Machine /\ mode' \in Modes /\ touched' \in BOOLEAN
      BY <3>1
    <3>5. text' \in [File -> Text] /\ seen' \in [File -> Text] /\ taken' \in [File -> Text]
      BY <3>1
    <3> QED  BY <3>2, <3>3, <3>4, <3>5, Zenon
  <2>2. CASE List
    BY <2>2 DEF List, Block, given
  <2>3. CASE Scan
    BY <2>3 DEF Scan, Block, given
  <2>4. CASE MakeSandbox
    <3>1. Create(machine, flags.fakes) \in Modes
      BY DEF Create, Modes, Machine, Binary
    <3> QED  BY <2>4, <3>1 DEF MakeSandbox, Block, given
  <2>5. CASE Consent
    BY <2>5 DEF Consent, Block, given
  <2>6. CASE Read
    BY <2>6 DEF Read, Block, given
  <2>7. CASE Go
    <3>1. gate' = "on" /\ mode' \in Modes /\ machine' \in Machine
      BY <1>1, <2>7 DEF Go, Modes
    <3>2. flags' \in Flags /\ ns' \in [marked : BOOLEAN, one : BOOLEAN] /\ touched' \in BOOLEAN
      BY <1>1, <2>7, Zenon DEF Go
    <3>3. text' \in [File -> Text] /\ seen' \in [File -> Text] /\ taken' \in [File -> Text]
      BY <1>1, <2>7 DEF Go
    <3> QED  BY <3>1, <3>2, <3>3
  <2>8. CASE Change
    <3>1. PICK f \in File, t \in Texts : text' = [text EXCEPT ![f] = t]
      BY <2>8 DEF Change
    <3>2. t \in Text
      BY MainAssumption
    <3> QED  BY <2>8, <3>1, <3>2 DEF Change
  <2>9. CASE Stopped \/ (gate = "on" /\ Next /\ UNCHANGED own) \/ UNCHANGED <<own, vars>>
    BY <2>9 DEF Stopped, own
  <2> QED  BY <2>1, <2>2, <2>3, <2>4, <2>5, <2>6, <2>7, <2>8, <2>9 DEF MainNext
<1> QED  BY <1>2, <1>3, PTL DEF MainSpec

\* What has been established where the check is.
Admission ==
  /\ gate \in {"list", "scan", "sandbox", "consent", "read", "admitted"} =>
       (flags.isolated /\ Unsandboxed(machine) => ns.marked /\ ns.one)
  /\ gate \in {"consent", "read", "admitted"} => mode = Create(machine, flags.fakes) /\ mode # Refused
  /\ gate = "sandbox" /\ ~touched => seen = text
  /\ gate \in {"consent", "read"} /\ ~touched => seen = text
  /\ gate \in {"read", "admitted"} =>
       /\ Sites("process") => flags.isolated \/ flags.fakes
       /\ Sites("files") => flags.fakes
  /\ gate = "admitted" /\ ~touched => taken = seen

LEMMA Admitting == MainSpec => []Admission
<1>1. MainInit => Admission
  BY DEF MainInit, Admission
<1>2. Admission /\ [MainNext]_<<own, vars>> => Admission'
  <2> SUFFICES ASSUME Admission, [MainNext]_<<own, vars>> PROVE Admission'
    OBVIOUS
  <2>1. ASSUME gate' \in {"main", "on", "blocked", "passed"} PROVE Admission'
    BY <2>1 DEF Admission
  <2>2. CASE Main
    <3>1. UNCHANGED <<flags, machine>> /\ (gate' = gate \/ gate' = "blocked" \/ gate' = "list")
      BY <2>2 DEF Main, Reexec, Block, given
    <3>2. gate' = "list" => ns' = ns /\ ~(flags.isolated /\ Unsandboxed(machine) /\ ~(ns.marked /\ ns.one))
      BY <2>2 DEF Main, Reexec, Block
    <3>3. Unsandboxed(machine)' = Unsandboxed(machine)
      BY <3>1
    <3>4. gate = "main"
      BY <2>2 DEF Main, Reexec
    <3> QED  BY <2>1, <3>1, <3>2, <3>3, <3>4 DEF Admission
  <2>3. CASE List
    BY <2>1, <2>3 DEF List, Block, given, Admission, Unsandboxed
  <2>4. CASE Scan
    BY <2>1, <2>4 DEF Scan, Block, given, Admission, Unsandboxed
  <2>5. CASE MakeSandbox
    <3>1. UNCHANGED <<flags, machine, text, touched>> /\ gate = "sandbox"
      BY <2>5 DEF MakeSandbox, given
    <3>2. CASE gate' = "blocked"
      BY <2>1, <3>2
    <3>3. CASE gate' # "blocked"
      <4>1. /\ gate' = "consent" /\ UNCHANGED <<ns, seen, taken>>
            /\ mode' = Create(machine, flags.fakes) /\ mode' # Refused
        BY <2>5, <3>3 DEF MakeSandbox, Block
      <4>2. Create(machine, flags.fakes)' = Create(machine, flags.fakes)
              /\ Unsandboxed(machine)' = Unsandboxed(machine)
        BY <3>1
      <4> QED  BY <3>1, <4>1, <4>2 DEF Admission
    <3> QED  BY <3>2, <3>3
  <2>6. CASE Consent
    <3>1. UNCHANGED <<flags, machine, text, touched, ns, seen, taken, mode>> /\ gate = "consent"
      BY <2>6 DEF Consent, Block, given
    <3>2. CASE gate' = "blocked"
      BY <2>1, <3>2
    <3>3. CASE gate' # "blocked"
      <4>1. /\ gate' = "read"
            /\ Sites("process") => flags.isolated \/ flags.fakes
            /\ Sites("files") => flags.fakes
        BY <2>6, <3>3 DEF Consent, Block
      <4>2. /\ Create(machine, flags.fakes)' = Create(machine, flags.fakes)
            /\ Unsandboxed(machine)' = Unsandboxed(machine)
            /\ Sites("process")' = Sites("process") /\ Sites("files")' = Sites("files")
        BY <3>1 DEF Sites
      <4> QED  BY <3>1, <4>1, <4>2 DEF Admission
    <3> QED  BY <3>2, <3>3
  <2>7. CASE Read
    <3>1. UNCHANGED <<flags, machine, text, touched, ns, seen, mode>> /\ gate = "read"
      BY <2>7 DEF Read, Block, given
    <3>2. CASE gate' \in {"blocked", "passed"}
      BY <2>1, <3>2
    <3>3. CASE gate' \notin {"blocked", "passed"}
      <4>1. gate' = "admitted" /\ taken' = text
        BY <2>7, <3>3 DEF Read, Block
      <4>2. /\ Create(machine, flags.fakes)' = Create(machine, flags.fakes)
            /\ Unsandboxed(machine)' = Unsandboxed(machine)
            /\ Sites("process")' = Sites("process") /\ Sites("files")' = Sites("files")
        BY <3>1 DEF Sites
      <4> QED  BY <3>1, <4>1, <4>2 DEF Admission
    <3> QED  BY <3>2, <3>3
  <2>8. CASE Go
    BY <2>1, <2>8 DEF Go
  <2>9. CASE Change
    <3>1. UNCHANGED <<gate, flags, machine, ns, seen, taken, mode>> /\ touched'
            /\ gate \in {"scan", "sandbox", "consent", "read"}
      BY <2>9 DEF Change
    <3>2. /\ Create(machine, flags.fakes)' = Create(machine, flags.fakes)
          /\ Unsandboxed(machine)' = Unsandboxed(machine)
          /\ Sites("process")' = Sites("process") /\ Sites("files")' = Sites("files")
      BY <3>1 DEF Sites
    <3> QED  BY <3>1, <3>2 DEF Admission
  <2>10. CASE Stopped
    BY <2>1, <2>10 DEF Stopped, own
  <2>11. CASE gate = "on" /\ Next /\ UNCHANGED own
    BY <2>1, <2>11 DEF own
  <2>12. CASE UNCHANGED <<own, vars>>
    <3>1. UNCHANGED own
      BY <2>12
    <3>2. /\ Create(machine, flags.fakes)' = Create(machine, flags.fakes)
          /\ Unsandboxed(machine)' = Unsandboxed(machine)
          /\ Sites("process")' = Sites("process") /\ Sites("files")' = Sites("files")
      BY <3>1 DEF Sites, own
    <3> QED  BY <3>1, <3>2 DEF Admission, own
  <2> QED  BY <2>2, <2>3, <2>4, <2>5, <2>6, <2>7, <2>8, <2>9, <2>10, <2>11, <2>12 DEF MainNext
<1> QED  BY <1>1, <1>2, PTL DEF MainSpec

\* For any files and machines: as long as nobody changes a target between the two
\* readings, mutants are made only of code whose effects the flags cover, and
\* what acts on processes is contained or faked.
THEOREM OnlyKnowingly == MainSpec => []KnowinglyMutated
<1>1. MainTypeOK /\ Admission => KnowinglyMutated
  <2> SUFFICES ASSUME MainTypeOK, Admission, gate = "admitted" PROVE KnowinglyMutated
    BY DEF KnowinglyMutated
  <2>1. mode = Create(machine, flags.fakes) /\ mode # Refused
    BY DEF Admission
  <2>2. mode = "bwrap" \/ flags.fakes \/ machine.setting = "off"
    BY <2>1 DEF Create, Refused, MainTypeOK, Machine, Binary
  <2>3. mode # "bwrap" => Unsandboxed(machine)
    BY <2>1 DEF Create, Refused, Unsandboxed, MainTypeOK, Machine, Binary
  <2>4. ASSUME ~touched, NEW f \in File
        PROVE  /\ "files" \in taken[f].effects => flags.fakes
               /\ "process" \in taken[f].effects =>
                    flags.fakes \/ (flags.isolated /\ (mode = "bwrap" \/ (ns.marked /\ ns.one)))
    <3>1. taken = seen
      BY <2>4 DEF Admission
    <3>2. /\ "files" \in taken[f].effects => flags.fakes
          /\ "process" \in taken[f].effects => flags.isolated \/ flags.fakes
      BY <3>1 DEF Admission, Sites
    <3>3. flags.isolated /\ mode # "bwrap" => ns.marked /\ ns.one
      BY <2>3 DEF Admission
    <3> QED  BY <3>2, <3>3
  <2> QED  BY <2>2, <2>4 DEF KnowinglyMutated
<1> QED  BY <1>1, MainTyping, Admitting, PTL
=============================================================================
