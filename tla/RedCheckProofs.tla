--------------------------- MODULE RedCheckProofs ---------------------------
(***************************************************************************)
(* Proofs about RedCheck, for any files, tests, outcomes and machines.     *)
(***************************************************************************)
EXTENDS RedCheck, TLAPS

-----------------------------------------------------------------------------
(* Operators *)

\* What a runner reports of an id is an outcome that this id may have.
LEMMA ReportTyped ==
  ASSUME NEW side, NEW r \in Reports(side)
  PROVE  DOMAIN r \subseteq Id /\ \A i \in DOMAIN r : r[i] \in May[i][side]
<1>1. PICK S \in SUBSET Id :
        r \in {q \in [S -> UNION {May[i][side] : i \in S}] : \A i \in S : q[i] \in May[i][side]}
  BY DEF Reports
<1> QED  BY <1>1

\* A test is OK only if it passes on head and an assertion fails on the base.
LEMMA OkMeans ==
  ASSUME NEW i, NEW note, Judged(i, note) = "OK"
  PROVE  i \in DOMAIN base /\ Classify(head[i]) = "pass" /\ Classify(base[i]) = "assertion"
<1>1. \A h, b, m : VerdictFor(h, b, m) = "OK" => h = "pass" /\ b = "assertion"
  BY DEF VerdictFor
<1>2. CASE i \in DOMAIN base
  <2>1. VerdictFor(Classify(head[i]), Classify(base[i]), base[i].missing) = "OK"
    BY <1>2, Zenon DEF Judged
  <2> QED  BY <1>1, <1>2, <2>1
<1>3. CASE i \notin DOMAIN base
  <2>1. VerdictFor(Classify(head[i]), "exception", note) = "OK"
    BY <1>3, Zenon DEF Judged
  <2>2. "exception" = "assertion"
    BY <1>1, <2>1, Zenon
  <2> QED  BY <2>2
<1> QED  BY <1>2, <1>3

\* A verdict that is not bad is OK, or names a missing symbol without --strict.
LEMMA GoodMeans ==
  ASSUME NEW i, NEW note \in {FALSE, MissingReported}, NEW strict \in BOOLEAN,
         \A k \in DOMAIN base : base[k].missing \in BOOLEAN,
         Judged(i, note) \notin Bad(strict)
  PROVE  \/ Judged(i, note) = "OK"
         \/ Judged(i, note) = "NEW_SYMBOL" /\ ~strict /\ SymbolMissing(i)
<1>1. \A h, b, m : VerdictFor(h, b, m) \in Verdicts
  BY DEF VerdictFor, Verdicts
<1>2. Judged(i, note) \in {"OK", "NEW_SYMBOL"} /\ (Judged(i, note) = "NEW_SYMBOL" => ~strict)
  BY <1>1 DEF Bad, Judged, Verdicts
<1>3. ASSUME Judged(i, note) = "NEW_SYMBOL"
      PROVE  SymbolMissing(i)
  <2>1. \A h, b : VerdictFor(h, b, FALSE) # "NEW_SYMBOL"
    BY DEF VerdictFor
  <2>2. CASE i \in DOMAIN base
    <3>1. base[i].missing # FALSE
      BY <1>3, <2>1, <2>2, Zenon DEF Judged
    <3> QED  BY <2>2, <3>1 DEF SymbolMissing
  <2>3. CASE i \notin DOMAIN base
    <3>1. note # FALSE
      BY <1>3, <2>1, <2>3, Zenon DEF Judged
    <3>2. note = MissingReported /\ MissingReported \in BOOLEAN
      BY <3>1 DEF MissingReported
    <3> QED  BY <2>3, <3>1, <3>2 DEF SymbolMissing
  <2> QED  BY <2>2, <2>3
<1> QED  BY <1>2, <1>3

\* What fails on head is never judged good.
LEMMA FailingIsBad ==
  ASSUME NEW i, NEW note, NEW strict \in BOOLEAN, head[i].tag \in {"failure", "error"}
  PROVE  Judged(i, note) \in Bad(strict)
<1>1. Classify(head[i]) \notin {"pass", "skipped"}
  BY DEF Classify
<1>2. \A h, b, m : h \notin {"pass", "skipped"} => VerdictFor(h, b, m) = "NOT_GREEN"
  BY DEF VerdictFor
<1>3. Judged(i, note) = "NOT_GREEN"
  BY <1>1, <1>2 DEF Judged
<1> QED  BY <1>3 DEF Bad

-----------------------------------------------------------------------------
(* Cleaning up *)

\* What exists at pc.  A worktree that cannot be removed is left with its
\* registration, and then something is stuck.
Disk ==
  /\ pc \in {"start", "copy"} => ~tmp /\ ~wt /\ ~registered
  /\ pc \in {"head", "worktree"} => ~wt /\ ~registered
  /\ pc \in {"own", "base", "remove"} => (wt <=> registered)
  /\ pc = "rmtree" => (registered => stuck)
  /\ pc = "prune" => (tmp \/ registered => stuck)
  /\ pc \in {"judge", "done"} => (tmp \/ registered => stuck) /\ (registered => wt)

\* Every way out of the check, refusing or not, removes the worktree and forgets
\* it, or says that something is stuck; git keeps none whose directory is gone.
THEOREM CleanedUp == Spec => []CleansUp
<1>1. Init => Disk
  BY DEF Init, Disk
<1>2. Disk /\ [Next]_vars => Disk'
  <2> SUFFICES ASSUME Disk, [Next]_vars PROVE Disk'
    OBVIOUS
  <2> USE DEF Disk, GoTo, Block, disk
  <2>1. CASE Refuse
    BY <2>1 DEF Refuse
  <2>2. CASE Prepare
    BY <2>2 DEF Prepare
  <2>3. CASE NoFiles
    BY <2>3 DEF NoFiles
  <2>4. CASE CopyHead
    BY <2>4 DEF CopyHead
  <2>5. CASE RunHead
    BY <2>5 DEF RunHead
  <2>6. CASE AddWorktree
    BY <2>6 DEF AddWorktree
  <2>7. CASE RunOwn
    BY <2>7 DEF RunOwn
  <2>8. CASE RunBase
    BY <2>8 DEF RunBase
  <2>9. CASE RemoveWorktree
    BY <2>9 DEF RemoveWorktree
  <2>10. CASE Rmtree
    BY <2>10 DEF Rmtree
  <2>11. CASE Prune
    BY <2>11 DEF Prune
  <2>12. CASE \E o \in SUBSET Options : Finish(o)
    BY <2>12 DEF Finish
  <2>13. CASE UNCHANGED vars
    BY <2>13 DEF vars
  <2> QED  BY <2>1, <2>2, <2>3, <2>4, <2>5, <2>6, <2>7, <2>8, <2>9, <2>10, <2>11, <2>12, <2>13 DEF Next
<1>3. Disk => CleansUp
  BY DEF Disk, CleansUp
<1> QED  BY <1>1, <1>2, <1>3, PTL DEF Spec

-----------------------------------------------------------------------------
(* The sandbox *)

\* How the tests have been run so far.
Isolation ==
  /\ machine \in Machine
  /\ mode = "none" => head = NoReport /\ pc \in {"start", "done"}
  /\ mode # "none" => mode = "custom" \/ (mode = Create(machine, TRUE) /\ mode # Refused)

\* No test runs unisolated unless somebody said so, or there is nothing to
\* isolate it with: a sandbox that does not isolate stops the check.
THEOREM Isolated == Spec => []IsolatedOrKnowingly
<1>1. Init => Isolation
  BY RedAssumption DEF Init, Isolation
<1>2. Isolation /\ [Next]_vars => Isolation'
  <2> SUFFICES ASSUME Isolation, [Next]_vars PROVE Isolation'
    OBVIOUS
  <2> USE DEF Isolation, GoTo, Block, inputs, reports
  <2>1. CASE Refuse
    BY <2>1 DEF Refuse
  <2>2. CASE Prepare
    <3>1. /\ mode' \in {"custom", Create(machine, TRUE)} \ {Refused} /\ machine' = machine
          /\ pc' = "copy"
      BY <2>2 DEF Prepare
    <3>2. Create(machine, TRUE) # "none"
      BY DEF Create, Refused, Isolation
    <3> QED  BY <3>1, <3>2
  <2>3. CASE NoFiles
    BY <2>3 DEF NoFiles
  <2>4. CASE CopyHead
    BY <2>4 DEF CopyHead
  <2>5. CASE RunHead
    BY <2>5 DEF RunHead
  <2>6. CASE AddWorktree
    BY <2>6 DEF AddWorktree
  <2>7. CASE RunOwn
    BY <2>7 DEF RunOwn
  <2>8. CASE RunBase
    BY <2>8 DEF RunBase
  <2>9. CASE RemoveWorktree
    BY <2>9 DEF RemoveWorktree
  <2>10. CASE Rmtree
    BY <2>10 DEF Rmtree
  <2>11. CASE Prune
    BY <2>11 DEF Prune
  <2>12. CASE \E o \in SUBSET Options : Finish(o)
    BY <2>12 DEF Finish
  <2>13. CASE UNCHANGED vars
    BY <2>13 DEF vars
  <2> QED  BY <2>1, <2>2, <2>3, <2>4, <2>5, <2>6, <2>7, <2>8, <2>9, <2>10, <2>11, <2>12, <2>13 DEF Next
<1>3. Isolation => IsolatedOrKnowingly
  BY DEF Isolation, IsolatedOrKnowingly, Create, Machine, Setting, Binary, Refused
<1> QED  BY <1>1, <1>2, <1>3, PTL DEF Spec

-----------------------------------------------------------------------------
(* OK is earned *)

\* Where tests are tidy or a reset is set, every run starts clean, so that the
\* reports say what the tests do; and nothing is judged before the end.
Clean ==
  /\ ~Untidy =>
       /\ ~reset => left = {}
       /\ real = [head |-> head, base |-> base]
  /\ pc # "done" => verdict = NoReport
  /\ \A i \in DOMAIN verdict : verdict[i] = "OK" =>
       Did(head, i, "pass") /\ Did(base, i, "assertion")

\* Tidy tests leave nothing where there was nothing, and a run that finds
\* nothing reports what the tests do.
LEMMA Tidy ==
  ASSUME ~Untidy, ~reset => left = {}, NEW copy \in {"head", "base"}
  PROVE  /\ \A r, side : Cleanly(r, side) = {r} \/ side # copy
         /\ Litter(copy) /\ reset' = reset => (~reset' => left' = {})
<1>1. Dirt(copy) = {}
  BY DEF Dirt
<1>2. ~reset => MayLeave(copy) = {}
  BY DEF MayLeave
<1> QED  BY <1>1, <1>2 DEF Cleanly, Litter

\* OK is given only to a test that, started clean, passes on head and fails on
\* the base from an assertion, whatever the runs before it left behind.
THEOREM OkEarned == Spec => []OkIsEarned
<1>1. Init => Clean
  BY DEF Init, Clean, NoReport
<1>2. Clean /\ [Next]_vars => Clean'
  <2> SUFFICES ASSUME Clean, [Next]_vars PROVE Clean'
    OBVIOUS
  <2> USE DEF Clean, GoTo, Block, Did, inputs, reports, result
  <2>0. DOMAIN NoReport = {}
    BY DEF NoReport
  <2>1. CASE Refuse
    BY <2>1 DEF Refuse
  <2>2. CASE Prepare
    BY <2>2 DEF Prepare
  <2>3. CASE NoFiles
    BY <2>3 DEF NoFiles
  <2>4. CASE CopyHead
    BY <2>4 DEF CopyHead
  <2>5. CASE RunHead
    <3>1. verdict' = NoReport /\ reset' = reset /\ base' = base /\ Litter("head")
      BY <2>5 DEF RunHead
    <3>2. ASSUME ~Untidy
          PROVE  (~reset' => left' = {}) /\ real' = [head |-> head', base |-> base']
      <4>1. ~reset' => left' = {}
        BY <3>1, <3>2, Tidy
      <4>2. CASE \E r : head' = r /\ \E q \in Cleanly(r, "head") : real' = [real EXCEPT !.head = q]
        BY <3>1, <3>2, <4>2, Tidy
      <4>3. CASE UNCHANGED <<head, real>>
        BY <3>1, <3>2, <4>1, <4>3
      <4> QED  BY <2>5, <4>1, <4>2, <4>3 DEF RunHead
    <3> QED  BY <2>0, <3>1, <3>2
  <2>6. CASE AddWorktree
    BY <2>6 DEF AddWorktree
  <2>7. CASE RunOwn
    <3>1. /\ verdict' = NoReport /\ reset' = reset /\ UNCHANGED <<head, base, real>>
          /\ Litter("base") \/ left' = left
      BY <2>7 DEF RunOwn
    <3> QED  BY <2>0, <3>1, Tidy
  <2>8. CASE RunBase
    <3>1. verdict' = NoReport /\ reset' = reset /\ head' = head /\ Litter("base")
      BY <2>8 DEF RunBase
    <3>2. ASSUME ~Untidy
          PROVE  (~reset' => left' = {}) /\ real' = [head |-> head', base |-> base']
      <4>1. ~reset' => left' = {}
        BY <3>1, <3>2, Tidy
      <4>2. CASE \E r : base' = r /\ \E q \in Cleanly(r, "base") : real' = [real EXCEPT !.base = q]
        BY <3>1, <3>2, <4>2, Tidy
      <4>3. CASE UNCHANGED <<base, real>>
        BY <3>1, <3>2, <4>1, <4>3
      <4> QED  BY <2>8, <4>1, <4>2, <4>3 DEF RunBase
    <3> QED  BY <2>0, <3>1, <3>2
  <2>9. CASE RemoveWorktree
    BY <2>9 DEF RemoveWorktree
  <2>10. CASE Rmtree
    BY <2>10 DEF Rmtree
  <2>11. CASE Prune
    BY <2>0, <2>11 DEF Prune
  <2>12. CASE \E o \in SUBSET Options : Finish(o)
    <3>1. PICK o \in SUBSET Options : Finish(o)
      BY <2>12
    <3>2. PICK note : verdict' = [i \in {i \in DOMAIN head : "all" \in o \/ i \notin own} |-> Judged(i, note)]
      BY <3>1 DEF Finish
    <3>3. pc' = "done" /\ UNCHANGED <<reset, left, head, base, real>>
      BY <3>1 DEF Finish
    <3>4. ASSUME NEW i \in DOMAIN verdict', verdict'[i] = "OK"
          PROVE  Did(head, i, "pass") /\ Did(base, i, "assertion")
      <4>1. i \in DOMAIN head /\ Judged(i, note) = "OK"
        BY <3>2, <3>4
      <4> QED  BY <4>1, OkMeans
    <3> QED  BY <3>3, <3>4
  <2>13. CASE UNCHANGED vars
    BY <2>13 DEF vars
  <2> QED  BY <2>1, <2>2, <2>3, <2>4, <2>5, <2>6, <2>7, <2>8, <2>9, <2>10, <2>11, <2>12, <2>13 DEF Next
<1>3. Clean => OkIsEarned
  BY DEF Clean, OkIsEarned, Did
<1> QED  BY <1>1, <1>2, <1>3, PTL DEF Spec

-----------------------------------------------------------------------------
(* Nothing slips through *)

\* What is known of the run on head and of the base's own ids.  A report in which
\* nothing failed is used only with exit code 0.
Trusted ==
  /\ changed \subseteq File
  /\ own \subseteq OwnIds
  /\ \A i \in DOMAIN base : base[i].missing \in BOOLEAN
  /\ (\/ pc \in {"worktree", "own", "base", "judge"}
      \/ pc \in {"remove", "rmtree", "prune"} /\ exit # "block") =>
        changed = {} \/ code = "zero" \/ Failing(head)
  /\ pc # "done" => exit # "good"

\* A new test that a good verdict leaves out was left out by a runner that says
\* all is well, or was behind something that failed on head and that the base's
\* own files report too.
LEMMA Accounted ==
  ASSUME Trusted, changed = {} \/ code = "zero" \/ Failing(head),
         NEW strict \in BOOLEAN, NEW note \in {FALSE, MissingReported}, NEW all \in BOOLEAN,
         \A i \in DOMAIN head : all \/ i \notin own => Judged(i, note) \notin Bad(strict),
         NEW t \in Test \ Old, FileOf[t] \in changed
  PROVE  \/ /\ t \in DOMAIN head /\ t \notin own
            /\ \/ Judged(t, note) = "OK"
               \/ Judged(t, note) = "NEW_SYMBOL" /\ ~strict /\ SymbolMissing(t)
         \/ /\ t \notin DOMAIN head
            /\ code = "zero" \/ \E i \in own \cap DOMAIN head : Failing(Restrict(head, {i}))
<1>1. t \notin own
  BY RedAssumption DEF Trusted, OwnIds
<1>2. CASE t \in DOMAIN head
  <2>1. Judged(t, note) \notin Bad(strict)
    BY <1>1, <1>2
  <2>2. \A k \in DOMAIN base : base[k].missing \in BOOLEAN
    BY DEF Trusted
  <2> QED  BY <1>1, <1>2, <2>1, <2>2, GoodMeans
<1>3. CASE t \notin DOMAIN head /\ code # "zero"
  <2>1. PICK i \in DOMAIN head : head[i].tag \in {"failure", "error"}
    BY <1>3 DEF Failing
  <2>2. i \in own
    BY <2>1, FailingIsBad
  <2>3. Failing(Restrict(head, {i}))
    BY <2>1 DEF Failing, Restrict
  <2> QED  BY <1>3, <2>1, <2>2, <2>3
<1> QED  BY <1>2, <1>3

\* Exit code 0 lets no new test slip through.
THEOREM NoneSlips == Spec => []NothingSlips
<1>1. Init => Trusted /\ NothingSlips
  BY DEF Init, Trusted, NothingSlips, NoReport
<1>2. Trusted /\ NothingSlips /\ [Next]_vars => Trusted' /\ NothingSlips'
  <2> SUFFICES ASSUME Trusted, NothingSlips, [Next]_vars PROVE Trusted' /\ NothingSlips'
    OBVIOUS
  <2>0. ASSUME UNCHANGED <<changed, options, verdict, head, code, base, own>>,
               exit' # "good" \/ UNCHANGED exit
        PROVE  NothingSlips'
    BY <2>0 DEF NothingSlips, SymbolMissing, MissingReported, Failing
  <2>a. ASSUME exit' # "good"
        PROVE  NothingSlips'
    BY <2>a DEF NothingSlips
  <2> USE DEF Trusted, GoTo, Block, inputs, reports, result, OwnIds, Failing
  <2>1. CASE Refuse
    BY <2>1, <2>a DEF Refuse
  <2>2. CASE Prepare
    BY <2>2, <2>0 DEF Prepare
  <2>3. CASE NoFiles
    BY <2>3, <2>0 DEF NoFiles
  <2>4. CASE CopyHead
    BY <2>4, <2>0 DEF CopyHead
  <2>5. CASE RunHead
    <3>1. exit' # "good" /\ UNCHANGED <<changed, own>> /\ pc' \in {"remove", "worktree"}
      BY <2>5 DEF RunHead
    <3>2. (pc' = "remove" /\ exit' = "block") \/ code' = "zero" \/ Failing(head)'
      BY <2>5 DEF RunHead
    <3> QED  BY <2>5, <2>a, <3>1, <3>2 DEF RunHead
  <2>6. CASE AddWorktree
    BY <2>6, <2>0 DEF AddWorktree
  <2>7. CASE RunOwn
    <3>1. exit' # "good" /\ UNCHANGED <<changed, head, code, base>> /\ (own' \in OwnReports \/ own' = own)
      BY <2>7 DEF RunOwn
    <3>2. pc' = "base" \/ (pc' = "remove" /\ exit' = "block")
      BY <2>7 DEF RunOwn
    <3>3. pc = "own"
      BY <2>7 DEF RunOwn
    <3> QED  BY <2>a, <3>1, <3>2, <3>3 DEF OwnReports
  <2>8. CASE RunBase
    <3>1. exit' # "good" /\ UNCHANGED <<changed, own, head, code>> /\ pc = "base" /\ pc' = "remove"
      BY <2>8 DEF RunBase
    <3>2. \A i \in DOMAIN base' : base'[i].missing \in BOOLEAN
      <4>1. CASE base' \in Reports("base")
        BY <4>1, ReportTyped, RedAssumption DEF Outcome
      <4>2. CASE UNCHANGED base
        BY <4>2
      <4> QED  BY <2>8, <4>1, <4>2 DEF RunBase
    <3> QED  BY <2>8, <2>a, <3>1, <3>2 DEF RunBase
  <2>9. CASE RemoveWorktree
    BY <2>9, <2>0 DEF RemoveWorktree
  <2>10. CASE Rmtree
    BY <2>10, <2>0 DEF Rmtree
  <2>11. CASE Prune
    BY <2>11, <2>0 DEF Prune
  <2>12. CASE \E o \in SUBSET Options : Finish(o)
    <3>1. PICK o \in SUBSET Options : Finish(o)
      BY <2>12
    <3> DEFINE judged == {i \in DOMAIN head : "all" \in o \/ i \notin own}
    <3>2. PICK note \in {FALSE, MissingReported} : verdict' = [i \in judged |-> Judged(i, note)]
      BY <3>1 DEF Finish
    <3>3. /\ pc = "judge" /\ pc' = "done" /\ options' = o
          /\ UNCHANGED <<changed, head, code, base, own>>
      BY <3>1 DEF Finish
    <3>4. exit' = "good" => \A i \in judged : verdict'[i] \notin Bad("strict" \in o)
      BY <3>1 DEF Finish
    <3>5. ASSUME exit' = "good", NEW t \in Test \ Old, FileOf[t] \in changed
          PROVE  \/ /\ t \in judged
                    /\ \/ verdict'[t] = "OK"
                       \/ verdict'[t] = "NEW_SYMBOL" /\ "strict" \notin o /\ SymbolMissing(t)
                 \/ /\ t \notin DOMAIN head
                    /\ code = "zero" \/ \E i \in own \cap DOMAIN head : Failing(Restrict(head, {i}))
      <4>1. \A i \in DOMAIN head : "all" \in o \/ i \notin own => Judged(i, note) \notin Bad("strict" \in o)
        BY <3>2, <3>4, <3>5
      <4>2. changed = {} \/ code = "zero" \/ Failing(head)
        BY <3>3
      <4>3. ("strict" \in o) \in BOOLEAN /\ ("all" \in o) \in BOOLEAN
        OBVIOUS
      <4> QED  BY <3>2, <3>5, <4>1, <4>2, <4>3, Accounted
    <3>6. NothingSlips'
      BY <3>2, <3>3, <3>5 DEF NothingSlips, SymbolMissing, MissingReported
    <3> QED  BY <3>3, <3>6
  <2>13. CASE UNCHANGED vars
    BY <2>13, <2>0 DEF vars
  <2> QED  BY <2>1, <2>2, <2>3, <2>4, <2>5, <2>6, <2>7, <2>8, <2>9, <2>10, <2>11, <2>12, <2>13 DEF Next
<1> QED  BY <1>1, <1>2, PTL DEF Spec
=============================================================================
