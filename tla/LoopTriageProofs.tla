-------------------------- MODULE LoopTriageProofs --------------------------
(***************************************************************************)
(* Proofs about LoopTriage, for any number of sessions and loops: types,   *)
(* that under the flock no write undoes another one, that the log tells    *)
(* what was applied and to which loop, and that the cap binds.             *)
(***************************************************************************)
EXTENDS LoopRefinement, SequenceTheorems, FiniteSetTheorems, TLAPS

\* A store as the code leaves it: ids are unique and below the next one.
Sound(s) ==
  /\ s \in Store
  /\ \A i \in DOMAIN s.loops : s.loops[i].id < s.next
  /\ \A i, k \in DOMAIN s.loops : s.loops[i].id = s.loops[k].id => i = k

\* A call that a triage session makes for one of its decisions.
OfDecision(c) == c.do \in Decision /\ c.on > 0 /\ c.who > 0

\* What a read has taken is a store as the code leaves it, too.
TypeInv ==
  /\ TypeOK
  /\ Sound(store)
  /\ \A p \in Proc : Sound(copy[p])
  /\ \A p \in Proc : pc[p] \in {"wait", "write"} => call[p].do = "add" \/ OfDecision(call[p])
  /\ \A p \in Proc : pc[p] = "log" => OfDecision(call[p])

\* A call between its read and its write has read what is still there.
CopyInv ==
  /\ TypeInv
  /\ \A p \in Proc : pc[p] = "write" => copy[p] = store

-----------------------------------------------------------------------------
(* Lemmas about the store *)

LEMMA EmptySound == Sound(EmptyStore)
  BY DEF Sound, EmptyStore, Store

LEMMA BackfilledType ==
  ASSUME NEW loops \in Seq(Loop), NEW m \in Nat
  PROVE  /\ Backfilled(loops, m) \in Seq(Loop)
         /\ DOMAIN Backfilled(loops, m) = DOMAIN loops
         /\ Len(Backfilled(loops, m)) = Len(loops)
         /\ \A i \in DOMAIN loops :
              /\ Backfilled(loops, m)[i].id = loops[i].id
              /\ Backfilled(loops, m)[i].who = loops[i].who
              /\ Backfilled(loops, m)[i].status = loops[i].status
              /\ loops[i].uuid # NoUuid => Backfilled(loops, m)[i].uuid = loops[i].uuid
<1>1. DOMAIN loops = 1 .. Len(loops) /\ Len(loops) \in Nat
  OBVIOUS
<1>2. ASSUME NEW i \in 1 .. Len(loops)
      PROVE  /\ Backfilled(loops, m)[i] \in Loop
             /\ Backfilled(loops, m)[i].id = loops[i].id
             /\ Backfilled(loops, m)[i].who = loops[i].who
             /\ Backfilled(loops, m)[i].status = loops[i].status
             /\ loops[i].uuid # NoUuid => Backfilled(loops, m)[i].uuid = loops[i].uuid
  <2>1. loops[i] \in Loop /\ m + i \in Nat
    OBVIOUS
  <2> QED BY <2>1, <1>1 DEF Backfilled, Loop
<1>3. Backfilled(loops, m) \in [1 .. Len(loops) -> Loop]
  BY <1>1, <1>2 DEF Backfilled
<1> QED BY <1>1, <1>2, <1>3

LEMMA ChangedType ==
  ASSUME NEW l \in Loop, NEW c \in Call
  PROVE  /\ Changed(l, c) \in Loop
         /\ Changed(l, c).id = l.id
         /\ Changed(l, c).who = l.who
         /\ Changed(l, c).uuid = l.uuid
         /\ l.status = "closed" => Changed(l, c).status = "closed"
  BY DEF Changed, Closed, Counted, NewCount, Loop, Call

\* The store as a decision leaves it, and as an added loop leaves it.
LEMMA DecisionSound ==
  ASSUME NEW s, Sound(s), NEW m \in Nat, NEW c \in Call, NEW i \in DOMAIN s.loops,
         NEW t, t = [loops |-> Backfilled([s.loops EXCEPT ![i] = Changed(@, c)], m),
                     next |-> s.next]
  PROVE  Sound(t) /\ Keeps(s, t)
<1> DEFINE mid == [s.loops EXCEPT ![i] = Changed(@, c)]
<1>1. s.loops \in Seq(Loop) /\ s.next \in Nat \ {0} /\ s = [loops |-> s.loops, next |-> s.next]
  BY DEF Sound, Store
<1>2. s.loops[i] \in Loop
  BY <1>1
<1>3. /\ mid \in Seq(Loop)
      /\ DOMAIN mid = DOMAIN s.loops
      /\ \A k \in DOMAIN s.loops :
           /\ mid[k].who = s.loops[k].who
           /\ mid[k].id = s.loops[k].id
           /\ mid[k].uuid = s.loops[k].uuid
           /\ s.loops[k].status = "closed" => mid[k].status = "closed"
  BY <1>1, <1>2, ChangedType
<1>4. t = [loops |-> Backfilled(mid, m), next |-> s.next]
  BY <1>1
<1> HIDE DEF mid
<1>5. /\ Backfilled(mid, m) \in Seq(Loop)
      /\ DOMAIN Backfilled(mid, m) = DOMAIN mid
      /\ \A k \in DOMAIN mid :
           /\ Backfilled(mid, m)[k].id = mid[k].id
           /\ Backfilled(mid, m)[k].who = mid[k].who
           /\ Backfilled(mid, m)[k].status = mid[k].status
           /\ mid[k].uuid # NoUuid => Backfilled(mid, m)[k].uuid = mid[k].uuid
  BY <1>3, BackfilledType
<1>6. t.loops = Backfilled(mid, m) /\ t.next = s.next /\ t \in Store
  BY <1>1, <1>4, <1>5 DEF Store
<1>7. \A k \in DOMAIN t.loops : k \in DOMAIN s.loops /\ t.loops[k].id = s.loops[k].id
  BY <1>3, <1>5, <1>6
<1>8. Sound(t)
  BY <1>6, <1>7 DEF Sound
<1> QED BY <1>3, <1>5, <1>6, <1>8 DEF Keeps

LEMMA AddSound ==
  ASSUME NEW s, Sound(s), NEW m \in Nat, NEW l \in Loop, l.id = s.next,
         NEW t, t = [loops |-> Append(Backfilled(s.loops, m), l), next |-> s.next + 1]
  PROVE  Sound(t) /\ Keeps(s, t)
<1> DEFINE b == Backfilled(s.loops, m)
<1>1. s.loops \in Seq(Loop) /\ s.next \in Nat \ {0}
  BY DEF Sound, Store
<1>2. /\ b \in Seq(Loop)
      /\ DOMAIN b = DOMAIN s.loops
      /\ \A k \in DOMAIN s.loops :
           /\ b[k].id = s.loops[k].id
           /\ b[k].who = s.loops[k].who
           /\ b[k].status = s.loops[k].status
           /\ s.loops[k].uuid # NoUuid => b[k].uuid = s.loops[k].uuid
  BY <1>1, BackfilledType
<1> HIDE DEF b
<1>3. /\ Append(b, l) \in Seq(Loop)
      /\ DOMAIN Append(b, l) = 1 .. Len(b) + 1
      /\ DOMAIN b = 1 .. Len(b)
      /\ Append(b, l)[Len(b) + 1] = l
      /\ \A k \in DOMAIN b : k # Len(b) + 1 /\ Append(b, l)[k] = b[k]
  BY <1>2
<1>4. t.loops = Append(b, l) /\ t.next = s.next + 1 /\ t \in Store
  BY <1>1, <1>3 DEF Store, b
<1>5. \A k \in DOMAIN b : b[k].id < s.next /\ b[k].id \in Nat
  <2>1. \A k \in DOMAIN s.loops : s.loops[k].id < s.next
    BY DEF Sound
  <2>2. \A k \in DOMAIN b : b[k] \in Loop
    BY <1>2
  <2> QED BY <1>2, <2>1, <2>2 DEF Loop
<1>6. \A k \in DOMAIN t.loops : t.loops[k].id < t.next
  BY <1>1, <1>3, <1>4, <1>5
<1>7. ASSUME NEW i \in DOMAIN t.loops, NEW k \in DOMAIN t.loops, t.loops[i].id = t.loops[k].id
      PROVE  i = k
  <2>1. CASE i \in DOMAIN b /\ k \in DOMAIN b
    <3>1. s.loops[i].id = s.loops[k].id /\ i \in DOMAIN s.loops /\ k \in DOMAIN s.loops
      BY <1>2, <1>3, <1>4, <1>7, <2>1
    <3> QED BY <3>1 DEF Sound
  <2>2. CASE i = Len(b) + 1 /\ k \in DOMAIN b
    BY <1>1, <1>3, <1>4, <1>5, <1>7, <2>2
  <2>3. CASE i \in DOMAIN b /\ k = Len(b) + 1
    BY <1>1, <1>3, <1>4, <1>5, <1>7, <2>3
  <2> QED BY <1>3, <1>4, <2>1, <2>2, <2>3
<1>8. Sound(t)
  BY <1>4, <1>6, <1>7 DEF Sound
<1> QED BY <1>2, <1>3, <1>4, <1>8 DEF Keeps

-----------------------------------------------------------------------------
(* Types *)

LEMMA InitType == ASSUME Init PROVE TypeInv
<1> USE DEF Init, NoUuid
<1>1. Sound(store) /\ born \in Nat
  <2>1. CASE store = EmptyStore /\ born = 0
    BY <2>1, EmptySound
  <2>2. CASE \E d \in Decision \cup {"none"} :
               /\ store = [loops |-> <<[id |-> 1, uuid |-> NoUuid, who |-> 1,
                      status |-> IF d = "not-a-defect" THEN "closed" ELSE "open",
                      count |-> IF d = "still-unclear" THEN 1 ELSE 0]>>, next |-> 2]
               /\ born = 1
    BY <2>2 DEF Sound, Store, Loop
  <2> QED BY <2>1, <2>2
<1>2. log \in Seq(LogRecord)
  <2>1. CASE log = <<>>
    BY <2>1
  <2>2. ASSUME NEW d \in Decision, log = <<[id |-> 1, uuid |-> NoUuid, who |-> 1, dec |-> d]>>
        PROVE  log \in Seq(LogRecord)
    <3>1. [id |-> 1, uuid |-> NoUuid, who |-> 1, dec |-> d] \in LogRecord
      BY <2>2 DEF LogRecord
    <3> QED BY <2>2, <3>1
  <2> QED BY <2>1, <2>2
<1>3. \A l \in Loops(store) : l.id < store.next
  BY <1>1 DEF Sound, Loops
<1>4. TypeOK
  BY <1>1, <1>2, <1>3, EmptySound, LoopAssumption DEF TypeOK, Sound, Call, NoCall
<1> QED BY <1>1, <1>4, EmptySound DEF TypeInv

LEMMA TypeStep ==
  ASSUME TypeInv, [Next]_vars
  PROVE  TypeInv'
<1> USE DEF TypeInv, TypeOK
<1>a. \A l \in Loops(store') : Sound(store') => l.id < store'.next
  BY DEF Loops, Sound
<1>b. NoCall \in Call /\ [NoCall EXCEPT !.do = "add"] \in Call /\ [NoCall EXCEPT !.do = "add"].do = "add"
  BY DEF NoCall, Call, NoUuid
<1>1. ASSUME NEW p \in Proc, BeginAdd(p) PROVE TypeInv'
  BY <1>1, <1>b DEF BeginAdd
<1>2. ASSUME NEW p \in Proc, Acquire(p) PROVE TypeInv'
  <2>1. \A q \in Proc : Flock => pc[q] # "write"
    BY <1>2, LoopAssumption DEF Acquire
  <2>2. TypeOK'
    BY <1>2, <2>1 DEF Acquire, Sound
  <2>3. Sound(store)' /\ \A q \in Proc : Sound(copy[q])'
    BY <1>2 DEF Acquire
  <2>4. \A q \in Proc : /\ pc'[q] \in {"wait", "write"} => call'[q].do = "add" \/ OfDecision(call'[q])
                        /\ pc'[q] = "log" => OfDecision(call'[q])
    BY <1>2 DEF Acquire
  <2> QED BY <2>2, <2>3, <2>4
<1>3. ASSUME NEW p \in Proc, AddLoop(p) PROVE TypeInv'
  <2> DEFINE m == minted + Spent(copy[p].loops)
             l == [id |-> copy[p].next, uuid |-> m + 1, who |-> born + 1,
                   status |-> "open", count |-> 0]
  <2>1. minted \in Nat /\ born \in Nat /\ Spent(copy[p].loops) \in Nat /\ m \in Nat
    BY DEF Spent, Sound, Store
  <2>2. l \in Loop /\ l.id = copy[p].next
    BY <2>1 DEF Loop, Sound, Store
  <2>3. store' = [loops |-> Append(Backfilled(copy[p].loops, minted), l), next |-> copy[p].next + 1]
    BY <1>3 DEF AddLoop
  <2> HIDE DEF l, m
  <2>4. Sound(store')
    BY <2>1, <2>2, <2>3, AddSound
  <2>5. minted' \in Nat /\ born' \in Nat
    BY <1>3, <2>1 DEF AddLoop, m
  <2>6. TypeOK'
    BY <1>3, <1>a, <1>b, <2>4, <2>5, EmptySound, LoopAssumption DEF AddLoop, Release, Sound
  <2>7. \A q \in Proc : Sound(copy'[q])
    BY <1>3, EmptySound DEF AddLoop, Release
  <2> QED BY <1>3, <2>4, <2>6, <2>7 DEF AddLoop, Release
<1>4. ASSUME NEW p \in Proc, ApplyDecision(p) PROVE TypeInv'
  <2>1. Sound(store') /\ minted' \in Nat
    <3>1. CASE UNCHANGED <<store, minted>>
      BY <3>1
    <3>2. ASSUME NEW i \in First(copy[p], call[p].on),
                 store' = [loops |-> Backfilled(
                              [copy[p].loops EXCEPT ![i] = Changed(@, call[p])], minted),
                            next |-> copy[p].next],
                 minted' = minted + Spent(copy[p].loops)
          PROVE  Sound(store') /\ minted' \in Nat
      <4>1. i \in DOMAIN copy[p].loops /\ call[p] \in Call /\ minted \in Nat
        BY DEF First
      <4>2. Spent(copy[p].loops) \in Nat
        BY DEF Spent, Sound, Store
      <4> QED BY <3>2, <4>1, <4>2, DecisionSound
    <3> QED BY <1>4, <3>1, <3>2 DEF ApplyDecision
  <2>2. TypeOK'
    BY <1>4, <1>a, <2>1, EmptySound, LoopAssumption DEF ApplyDecision, Release, Sound
  <2>3. \A q \in Proc : Sound(copy'[q])
    BY <1>4, EmptySound DEF ApplyDecision, Release
  <2> QED BY <1>4, <2>1, <2>2, <2>3 DEF ApplyDecision, Release
<1>5. ASSUME NEW p \in Proc, Survey(p) PROVE TypeInv'
  <2>1. {l \in Loops(store) : l.status = "open"} \subseteq Loop
    BY DEF Loops, Sound, Store
  <2> QED BY <1>5, <2>1 DEF Survey
<1>6. ASSUME NEW p \in Proc, NEW l \in seen[p], NEW d \in Decision, Decide(p, l, d)
      PROVE  TypeInv'
  <2> DEFINE c == [do |-> d, on |-> l.id, uuid |-> l.uuid, who |-> l.who, count |-> l.count]
  <2>1. l \in Loop
    OBVIOUS
  <2>2. c \in Call /\ OfDecision(c)
    BY <2>1 DEF Call, Loop, OfDecision
  <2>3. /\ call' = [call EXCEPT ![p] = c]
        /\ pc' = [pc EXCEPT ![p] = IF d = "real-defect" THEN "log" ELSE "wait"]
        /\ seen' = [seen EXCEPT ![p] = @ \ {l}]
        /\ UNCHANGED <<store, log, torn, lock, copy, born, minted, resets>>
    BY <1>6 DEF Decide
  <2> HIDE DEF c
  <2> QED BY <2>2, <2>3
<1>7. ASSUME NEW p \in Proc, LogDecision(p) PROVE TypeInv'
  <2>1. log' \in Seq(LogRecord)
    <3>1. ASSUME NEW u \in Uuids(call[p])
          PROVE  [id |-> call[p].on, uuid |-> u, who |-> call[p].who, dec |-> call[p].do] \in LogRecord
      <4>1. u \in Nat
        <5>1. CASE u = call[p].uuid
          BY <5>1 DEF Call
        <5>2. ASSUME NEW i \in First(store, call[p].on), u = store.loops[i].uuid PROVE u \in Nat
          <6>1. i \in DOMAIN store.loops /\ store.loops \in Seq(Loop)
            BY DEF First, Sound, Store
          <6>2. store.loops[i] \in Loop
            BY <6>1
          <6> QED BY <5>2, <6>2 DEF Loop
        <5> QED BY <5>1, <5>2 DEF Uuids
      <4>2. OfDecision(call[p]) /\ call[p] \in Call
        BY <1>7 DEF LogDecision
      <4> QED BY <4>1, <4>2 DEF OfDecision, Call, LogRecord
    <3>2. CASE UNCHANGED log
      BY <3>2
    <3>3. ASSUME NEW u \in Uuids(call[p]),
                 log' = Append(log, [id |-> call[p].on, uuid |-> u, who |-> call[p].who,
                                     dec |-> call[p].do])
          PROVE  log' \in Seq(LogRecord)
      <4> DEFINE r == [id |-> call[p].on, uuid |-> u, who |-> call[p].who, dec |-> call[p].do]
      <4>1. r \in LogRecord
        BY <3>1
      <4> HIDE DEF r
      <4>2. Append(log, r) \in Seq(LogRecord)
        BY <4>1
      <4> QED BY <3>3, <4>2 DEF r
    <3> QED BY <1>7, <3>2, <3>3 DEF LogDecision
  <2> QED BY <1>7, <1>b, <2>1 DEF LogDecision
<1>8. ASSUME NEW p \in Proc, Quit(p) PROVE TypeInv'
  BY <1>8 DEF Quit
<1>9. ASSUME NEW p \in Proc, Crash(p) PROVE TypeInv'
  <2>1. \A q \in Proc : Sound(copy'[q])
    BY <1>9, EmptySound DEF Crash, Release
  <2>2. torn' \in BOOLEAN
    BY <1>9 DEF Crash
  <2>3. TypeOK'
    BY <1>9, <1>b, <2>2, EmptySound, LoopAssumption DEF Crash, Release, Sound
  <2> QED BY <1>9, <2>1, <2>3 DEF Crash, Release
<1>10. CASE Reset
  BY <1>10, <1>a, EmptySound DEF Reset, Sound
<1>11. CASE UNCHANGED vars
  BY <1>11 DEF vars, Loops
<1> QED BY <1>1, <1>2, <1>3, <1>4, <1>5, <1>6, <1>7, <1>8, <1>9, <1>10, <1>11 DEF Next, Step

\* The store, the log and the calls keep their types, ids stay unique, and a
\* call that is about to write holds the lock, with any number of sessions.
THEOREM Typing == Spec => []TypeOK
<1>1. Init => TypeInv
  BY InitType
<1>2. TypeInv /\ [Next]_vars => TypeInv'
  BY TypeStep
<1>3. TypeInv => TypeOK
  BY DEF TypeInv
<1> QED BY <1>1, <1>2, <1>3, PTL DEF Spec

-----------------------------------------------------------------------------
(* No write is lost *)

LEMMA CopyStep ==
  ASSUME Flock, CopyInv, [Next]_vars
  PROVE  CopyInv'
<1>1. TypeInv'
  BY TypeStep DEF CopyInv
<1> USE DEF CopyInv, TypeInv, TypeOK
<1>2. ASSUME NEW p \in Proc, BeginAdd(p) \/ Survey(p) \/ LogDecision(p) \/ Quit(p)
      PROVE  CopyInv'
  BY <1>1, <1>2 DEF BeginAdd, Survey, LogDecision, Quit
<1>3. ASSUME NEW p \in Proc, NEW l \in seen[p], NEW d \in Decision, Decide(p, l, d)
      PROVE  CopyInv'
  BY <1>1, <1>3 DEF Decide
<1>4. ASSUME NEW p \in Proc, Acquire(p) PROVE CopyInv'
  BY <1>1, <1>4 DEF Acquire
<1>5. ASSUME NEW p \in Proc, AddLoop(p) \/ ApplyDecision(p) PROVE CopyInv'
  \* The writer holds the lock, so no other call is between its read and write.
  <2>1. \A q \in Proc \ {p} : pc[q] # "write"
    BY <1>5, LoopAssumption DEF AddLoop, ApplyDecision
  <2>2. \A q \in Proc : pc'[q] # "write"
    BY <1>5, <2>1 DEF AddLoop, ApplyDecision, Release
  <2> QED BY <1>1, <2>2
<1>6. ASSUME NEW p \in Proc, Crash(p) PROVE CopyInv'
  <2>1. \A q \in Proc : pc'[q] = "write" => pc[q] = "write" /\ copy'[q] = copy[q]
    BY <1>6 DEF Crash, Release
  <2> QED BY <1>1, <1>6, <2>1 DEF Crash
<1>7. CASE Reset
  BY <1>1, <1>7 DEF Reset
<1>8. CASE UNCHANGED vars
  BY <1>1, <1>8 DEF vars
<1> QED BY <1>2, <1>3, <1>4, <1>5, <1>6, <1>7, <1>8 DEF Next, Step

LEMMA KeptWhenUnchanged == ASSUME UNCHANGED store PROVE KeptStep
  BY DEF KeptStep, Keeps

LEMMA WriteKeeps ==
  ASSUME CopyInv, [Next]_vars
  PROVE  KeptStep
<1> USE DEF CopyInv, TypeInv, TypeOK
<1>1. ASSUME NEW p \in Proc, AddLoop(p) PROVE KeptStep
  <2> DEFINE m == minted + Spent(copy[p].loops)
             l == [id |-> copy[p].next, uuid |-> m + 1, who |-> born + 1,
                   status |-> "open", count |-> 0]
  <2>1. minted \in Nat /\ born \in Nat /\ m \in Nat /\ copy[p] = store /\ Sound(store)
    BY <1>1 DEF AddLoop, Spent, Sound, Store
  <2>2. l \in Loop /\ l.id = store.next
    BY <2>1 DEF Loop, Sound, Store
  <2>3. store' = [loops |-> Append(Backfilled(store.loops, minted), l), next |-> store.next + 1]
    BY <1>1, <2>1 DEF AddLoop
  <2> HIDE DEF l, m
  <2> QED BY <2>1, <2>2, <2>3, AddSound DEF KeptStep
<1>2. ASSUME NEW p \in Proc, ApplyDecision(p) PROVE KeptStep
  <2>1. copy[p] = store /\ Sound(store) /\ minted \in Nat /\ call[p] \in Call
    BY <1>2 DEF ApplyDecision
  <2>2. ASSUME NEW i \in First(store, call[p].on),
               store' = [loops |-> Backfilled(
                            [store.loops EXCEPT ![i] = Changed(@, call[p])], minted),
                          next |-> store.next]
        PROVE  KeptStep
    <3>1. i \in DOMAIN store.loops
      BY DEF First
    <3> QED BY <2>1, <2>2, <3>1, DecisionSound DEF KeptStep
  <2> QED BY <1>2, <2>1, <2>2, KeptWhenUnchanged DEF ApplyDecision
<1>3. CASE Reset
  BY <1>3 DEF Reset, KeptStep
<1>4. ASSUME NEW p \in Proc,
             \/ BeginAdd(p) \/ Acquire(p) \/ Survey(p) \/ LogDecision(p) \/ Quit(p) \/ Crash(p)
             \/ \E l \in seen[p], d \in Decision : Decide(p, l, d)
      PROVE  KeptStep
  BY <1>4, KeptWhenUnchanged
     DEF BeginAdd, Acquire, Survey, LogDecision, Quit, Crash, Decide
<1>5. CASE UNCHANGED vars
  BY <1>5, KeptWhenUnchanged DEF vars
<1> QED BY <1>1, <1>2, <1>3, <1>4, <1>5 DEF Next, Step

\* Under the flock no session's write undoes another's, however many there are
\* and whenever they die: until somebody deletes loops.json, loops, uuids and
\* closings stay.
THEOREM NoLostUpdate == Flock => (Spec => NothingLost)
<1> SUFFICES ASSUME Flock PROVE Spec => NothingLost
  OBVIOUS
<1>1. Init => CopyInv
  BY InitType DEF CopyInv, Init
<1>2. CopyInv /\ [Next]_vars => CopyInv'
  BY CopyStep
<1>3. CopyInv /\ [Next]_vars => [KeptStep]_vars
  BY WriteKeeps
<1> QED BY <1>1, <1>2, <1>3, PTL DEF Spec, NothingLost

-----------------------------------------------------------------------------
(* Who is who *)

\* The loop itself is in the store under that id, with that uuid if it had one.
There(id, w, u) ==
  \E i \in DOMAIN store.loops :
    /\ store.loops[i].id = id /\ store.loops[i].who = w
    /\ u # NoUuid => store.loops[i].uuid = u

\* No two loops share an identity or a uuid, and none has one still to come.
Distinct ==
  /\ \A i \in DOMAIN store.loops : store.loops[i].who <= born /\ store.loops[i].uuid <= minted
  /\ \A i, k \in DOMAIN store.loops :
       \/ store.loops[i].who = store.loops[k].who
       \/ store.loops[i].uuid = store.loops[k].uuid /\ store.loops[i].uuid # NoUuid
       => i = k

\* A record has the id of the loop it is about and no other loop's uuid.
Spoken ==
  \A j \in DOMAIN log :
    /\ log[j].who <= born /\ log[j].uuid <= minted
    /\ \A i \in DOMAIN store.loops :
         /\ log[j].who = store.loops[i].who =>
              /\ log[j].id = store.loops[i].id
              /\ log[j].uuid # NoUuid => log[j].uuid = store.loops[i].uuid
              /\ log[j].dec = "not-a-defect" => store.loops[i].status = "closed"
         /\ log[j].uuid # NoUuid /\ log[j].uuid = store.loops[i].uuid =>
              log[j].who = store.loops[i].who

\* What a session has surveyed or decided on is there, since nobody deletes
\* loops.json under a session; what it is about to log as closed is closed.
PendingAt(p) ==
  /\ pc[p] = "idle" \/ call[p].do = "add" => seen[p] = {}
  /\ pc[p] \in {"idle", "triage"} => call[p].do = "none"
  /\ \A l \in seen[p] : There(l.id, l.who, l.uuid)
  /\ call[p].do \in Decision => There(call[p].on, call[p].who, call[p].uuid)
  /\ pc[p] = "log" /\ call[p].do = "not-a-defect" =>
       \A i \in DOMAIN store.loops :
         store.loops[i].who = call[p].who => store.loops[i].status = "closed"

Pending == \A p \in Proc : PendingAt(p)

\* What a write does to the store: loops stay, at most one is new, and new uuids
\* are all different.
Grows ==
  /\ Keeps(store, store')
  /\ born <= born' /\ minted <= minted'
  /\ \A i \in DOMAIN store'.loops :
       /\ store'.loops[i].uuid <= minted'
       /\ \/ /\ i \in DOMAIN store.loops
             /\ store'.loops[i].uuid = store.loops[i].uuid \/ minted < store'.loops[i].uuid
          \/ /\ i \notin DOMAIN store.loops
             /\ store'.loops[i].who = born + 1 /\ born' = born + 1
             /\ minted < store'.loops[i].uuid
  /\ \A i, k \in DOMAIN store'.loops :
       /\ i \notin DOMAIN store.loops /\ k \notin DOMAIN store.loops => i = k
       /\ store'.loops[i].uuid = store'.loops[k].uuid /\ minted < store'.loops[i].uuid => i = k

LEMMA SameSummand == \A m, i, k \in Nat : m + i = m + k => i = k
OBVIOUS

LEMMA BackfilledFresh ==
  ASSUME NEW loops \in Seq(Loop), NEW m \in Nat
  PROVE  /\ Spent(loops) \in Nat
         /\ \A i \in DOMAIN loops :
              /\ i \in Nat \ {0} /\ loops[i].uuid \in Nat
              /\ Backfilled(loops, m)[i].count = loops[i].count
              /\ \/ loops[i].uuid # NoUuid /\ Backfilled(loops, m)[i].uuid = loops[i].uuid
                 \/ /\ loops[i].uuid = NoUuid /\ Backfilled(loops, m)[i].uuid = m + i
                    /\ i <= Spent(loops)
<1>1. DOMAIN loops = 1 .. Len(loops) /\ Len(loops) \in Nat /\ \A i \in DOMAIN loops : loops[i] \in Loop
  OBVIOUS
<1>2. Spent(loops) \in Nat
  BY <1>1 DEF Spent
<1>3. ASSUME NEW i \in DOMAIN loops
      PROVE  /\ i \in Nat \ {0} /\ loops[i].uuid \in Nat
             /\ Backfilled(loops, m)[i].count = loops[i].count
             /\ \/ loops[i].uuid # NoUuid /\ Backfilled(loops, m)[i].uuid = loops[i].uuid
                \/ /\ loops[i].uuid = NoUuid /\ Backfilled(loops, m)[i].uuid = m + i
                   /\ i <= Spent(loops)
  <2>1. loops[i] \in Loop /\ i \in Nat \ {0} /\ i <= Len(loops)
    BY <1>1, <1>3
  <2>2. loops[i].uuid = NoUuid => Spent(loops) = Len(loops)
    BY <1>3 DEF Spent
  <2>3. CASE loops[i].uuid = NoUuid
    <3>1. Backfilled(loops, m)[i] = [loops[i] EXCEPT !.uuid = m + i]
      BY <1>3, <2>3 DEF Backfilled
    <3> QED  BY <2>1, <2>2, <2>3, <3>1 DEF Loop
  <2>4. CASE loops[i].uuid # NoUuid
    <3>1. Backfilled(loops, m)[i] = loops[i]
      BY <1>3, <2>4 DEF Backfilled
    <3> QED  BY <2>1, <2>4, <3>1 DEF Loop
  <2> QED  BY <2>3, <2>4
<1> QED  BY <1>2, <1>3

LEMMA StillGrows ==
  ASSUME TypeInv, Distinct, UNCHANGED <<store, born, minted>>
  PROVE  Grows
<1>1. born \in Nat /\ minted \in Nat /\ \A i \in DOMAIN store.loops : store.loops[i].uuid \in Nat
  <2>1. store.loops \in Seq(Loop)
    BY DEF TypeInv, Sound, Store
  <2>2. \A i \in DOMAIN store.loops : store.loops[i] \in Loop
    BY <2>1
  <2> QED  BY <2>2 DEF TypeInv, TypeOK, Loop
<1> QED  BY <1>1 DEF Grows, Keeps, Distinct

\* The loop a decision is about is the first with its id, and stays in its place.
LEMMA DecisionGrows ==
  ASSUME CopyInv, Distinct, Pending, NEW p \in Proc, ApplyDecision(p)
  PROVE  /\ Grows /\ UNCHANGED born /\ DOMAIN store'.loops = DOMAIN store.loops
         /\ \E i \in DOMAIN store.loops :
              /\ store.loops[i].who = call[p].who
              /\ store'.loops[i].status = Changed(store.loops[i], call[p]).status
              /\ store'.loops[i].count = Changed(store.loops[i], call[p]).count
              /\ \A k \in DOMAIN store.loops \ {i} : store'.loops[k].count = store.loops[k].count
<1> DEFINE c == call[p]
<1>1. /\ store \in Store /\ Sound(store) /\ c \in Call /\ minted \in Nat /\ born \in Nat
      /\ copy[p] = store /\ pc[p] = "write" /\ c.do \in Decision
  BY DEF CopyInv, TypeInv, TypeOK, ApplyDecision, OfDecision
<1>2. store.loops \in Seq(Loop) /\ \A k \in DOMAIN store.loops : store.loops[k] \in Loop
  BY <1>1 DEF Store
<1>3. PICK w \in DOMAIN store.loops : store.loops[w].id = c.on /\ store.loops[w].who = c.who
  BY <1>1 DEF Pending, PendingAt, There
<1>4. First(store, c.on) = {w}
  <2>1. \A k \in DOMAIN store.loops : store.loops[k].id = c.on => k = w
    BY <1>1, <1>3 DEF Sound
  <2>2. \A k \in 1 .. w - 1 : k \in DOMAIN store.loops /\ k # w
    BY <1>2, <1>3
  <2>3. w \in First(store, c.on)
    BY <1>3, <2>1, <2>2 DEF First
  <2> QED  BY <2>1, <2>3 DEF First
<1> DEFINE mid == [store.loops EXCEPT ![w] = Changed(@, c)]
<1>5. /\ store' = [loops |-> Backfilled(mid, minted), next |-> store.next]
      /\ minted' = minted + Spent(store.loops) /\ born' = born
  BY <1>1, <1>4 DEF ApplyDecision
<1>6. Keeps(store, store')
  BY <1>1, <1>3, <1>5, DecisionSound
<1>7. /\ mid \in Seq(Loop) /\ DOMAIN mid = DOMAIN store.loops /\ Len(mid) = Len(store.loops)
      /\ \A k \in DOMAIN store.loops : mid[k].uuid = store.loops[k].uuid
      /\ mid[w] = Changed(store.loops[w], c)
      /\ \A k \in DOMAIN store.loops \ {w} : mid[k] = store.loops[k]
  BY <1>1, <1>2, <1>3, ChangedType
<1> HIDE DEF mid, c
<1>8. Spent(mid) = Spent(store.loops)
  BY <1>7 DEF Spent
<1>9. /\ DOMAIN store'.loops = DOMAIN store.loops
      /\ \A k \in DOMAIN store.loops :
           /\ store'.loops[k].status = mid[k].status
           /\ store'.loops[k].count = mid[k].count
           /\ k \in Nat \ {0} /\ store.loops[k].uuid \in Nat
           /\ \/ store.loops[k].uuid # NoUuid /\ store'.loops[k].uuid = store.loops[k].uuid
              \/ store'.loops[k].uuid = minted + k /\ k <= Spent(store.loops)
      /\ Spent(store.loops) \in Nat
  <2> DEFINE b == Backfilled(mid, minted)
  <2>1. DOMAIN b = DOMAIN mid /\ \A k \in DOMAIN mid : b[k].status = mid[k].status
    BY <1>1, <1>7, BackfilledType
  <2>2. /\ Spent(mid) \in Nat
        /\ \A k \in DOMAIN mid :
             /\ k \in Nat \ {0} /\ mid[k].uuid \in Nat /\ b[k].count = mid[k].count
             /\ \/ mid[k].uuid # NoUuid /\ b[k].uuid = mid[k].uuid
                \/ b[k].uuid = minted + k /\ k <= Spent(mid)
    <3>1. /\ Spent(mid) \in Nat
          /\ \A k \in DOMAIN mid :
               /\ k \in Nat \ {0} /\ mid[k].uuid \in Nat
               /\ Backfilled(mid, minted)[k].count = mid[k].count
               /\ \/ mid[k].uuid # NoUuid /\ Backfilled(mid, minted)[k].uuid = mid[k].uuid
                  \/ /\ mid[k].uuid = NoUuid /\ Backfilled(mid, minted)[k].uuid = minted + k
                     /\ k <= Spent(mid)
      BY <1>1, <1>7, BackfilledFresh, Zenon
    <3> QED BY <3>1
  <2> HIDE DEF b
  <2>3. store'.loops = b
    BY <1>5 DEF b
  <2> QED  BY <1>7, <1>8, <2>1, <2>2, <2>3
<1>10. Grows
  BY <1>1, <1>5, <1>6, <1>9 DEF Grows, Distinct
<1> QED  BY <1>3, <1>5, <1>7, <1>9, <1>10 DEF c

LEMMA AddGrows ==
  ASSUME CopyInv, Distinct, NEW p \in Proc, AddLoop(p)
  PROVE  /\ Grows
         /\ \A i \in DOMAIN store'.loops :
              \/ i \in DOMAIN store.loops /\ store'.loops[i].count = store.loops[i].count
              \/ i \notin DOMAIN store.loops /\ store'.loops[i].count = 0
<1>1. /\ store \in Store /\ Sound(store) /\ minted \in Nat /\ born \in Nat /\ copy[p] = store
  BY DEF CopyInv, TypeInv, TypeOK, AddLoop
<1>2. store.loops \in Seq(Loop) /\ store.next \in Nat \ {0} /\ Len(store.loops) \in Nat
  BY <1>1 DEF Store
<1> DEFINE m == minted + Spent(store.loops)
           l == [id |-> store.next, uuid |-> m + 1, who |-> born + 1, status |-> "open", count |-> 0]
           b == Backfilled(store.loops, minted)
           n == Len(store.loops) + 1
<1>3. /\ store' = [loops |-> Append(b, l), next |-> store.next + 1]
      /\ minted' = m + 1 /\ born' = born + 1
  BY <1>1 DEF AddLoop
<1>4. /\ b \in Seq(Loop) /\ Len(b) = Len(store.loops) /\ DOMAIN store.loops = 1 .. Len(store.loops)
      /\ Spent(store.loops) \in Nat
      /\ \A k \in DOMAIN store.loops :
           /\ k \in Nat \ {0} /\ store.loops[k].uuid \in Nat
           /\ b[k].count = store.loops[k].count
           /\ \/ store.loops[k].uuid # NoUuid /\ b[k].uuid = store.loops[k].uuid
              \/ b[k].uuid = minted + k /\ k <= Spent(store.loops)
  <2>1. DOMAIN store.loops = 1 .. Len(store.loops)
    BY <1>2
  <2>2. b \in Seq(Loop) /\ Len(b) = Len(store.loops)
    BY <1>1, <1>2, BackfilledType
  <2>3. /\ Spent(store.loops) \in Nat
        /\ \A k \in DOMAIN store.loops :
             /\ k \in Nat \ {0} /\ store.loops[k].uuid \in Nat
             /\ b[k].count = store.loops[k].count
             /\ \/ store.loops[k].uuid # NoUuid /\ b[k].uuid = store.loops[k].uuid
                \/ b[k].uuid = minted + k /\ k <= Spent(store.loops)
    BY <1>1, <1>2, BackfilledFresh
  <2> HIDE DEF b
  <2> QED  BY <2>1, <2>2, <2>3
<1>5. l \in Loop /\ l.uuid = m + 1 /\ l.who = born + 1 /\ l.count = 0 /\ l.id = store.next
  BY <1>1, <1>2, <1>4 DEF Loop
<1>6. Keeps(store, store')
  BY <1>1, <1>3, <1>5, AddSound
<1> HIDE DEF l, b
<1>7. /\ DOMAIN store'.loops = DOMAIN store.loops \cup {n} /\ n \notin DOMAIN store.loops
      /\ store'.loops[n] = l
      /\ \A k \in DOMAIN store.loops : store'.loops[k] = b[k]
  BY <1>2, <1>3, <1>4, <1>5
<1>8. \A i \in DOMAIN store'.loops : i \in DOMAIN store.loops \/ i = n
  BY <1>7
<1>9. \A i \in DOMAIN store'.loops :
        /\ store'.loops[i].uuid <= minted'
        /\ i \notin DOMAIN store.loops => store'.loops[i].uuid = m + 1
        /\ i \in DOMAIN store.loops => \/ store'.loops[i].uuid = store.loops[i].uuid
                                       \/ store'.loops[i].uuid = minted + i /\ i <= Spent(store.loops)
  BY <1>1, <1>3, <1>4, <1>5, <1>7, <1>8 DEF Distinct
<1>10. \A i, k \in DOMAIN store'.loops :
         /\ i \notin DOMAIN store.loops /\ k \notin DOMAIN store.loops => i = k
         /\ store'.loops[i].uuid = store'.loops[k].uuid /\ minted < store'.loops[i].uuid => i = k
  <2>1. \A i \in DOMAIN store.loops : store.loops[i].uuid <= minted /\ i \in Nat /\ store.loops[i].uuid \in Nat
    BY <1>4 DEF Distinct
  <2> SUFFICES ASSUME NEW i \in DOMAIN store'.loops, NEW k \in DOMAIN store'.loops
               PROVE  /\ i \notin DOMAIN store.loops /\ k \notin DOMAIN store.loops => i = k
                      /\ store'.loops[i].uuid = store'.loops[k].uuid /\ minted < store'.loops[i].uuid => i = k
    OBVIOUS
  <2>2. CASE i \in DOMAIN store.loops /\ k \in DOMAIN store.loops
    <3> SUFFICES ASSUME store'.loops[i].uuid = store'.loops[k].uuid, minted < store'.loops[i].uuid
                 PROVE  i = k
      BY <2>2
    <3>1. store'.loops[i].uuid # store.loops[i].uuid /\ store'.loops[k].uuid # store.loops[k].uuid
      BY <1>1, <2>1, <2>2
    <3>2. store'.loops[i].uuid = minted + i /\ store'.loops[k].uuid = minted + k
      BY <1>9, <2>2, <3>1
    <3>3. i \in Nat /\ k \in Nat /\ minted \in Nat
      BY <1>1, <2>1, <2>2
    <3>4. minted + i = minted + k
      BY <3>2
    <3> QED BY <3>3, <3>4, SameSummand, Zenon
  <2>3. CASE i \notin DOMAIN store.loops /\ k \notin DOMAIN store.loops
    BY <1>8, <2>3
  <2>4. CASE i \in DOMAIN store.loops /\ k \notin DOMAIN store.loops
    BY <1>1, <1>4, <1>9, <2>1, <2>4
  <2>5. CASE i \notin DOMAIN store.loops /\ k \in DOMAIN store.loops
    BY <1>1, <1>4, <1>9, <2>1, <2>5
  <2> QED  BY <2>2, <2>3, <2>4, <2>5
<1>11. Grows
  BY <1>1, <1>3, <1>4, <1>5, <1>6, <1>7, <1>8, <1>9, <1>10 DEF Grows
<1> QED  BY <1>4, <1>5, <1>7, <1>8, <1>11

LEMMA Numbers ==
  ASSUME TypeInv
  PROVE  /\ born \in Nat /\ minted \in Nat
         /\ \A i \in DOMAIN store.loops : /\ store.loops[i].uuid \in Nat /\ store.loops[i].who \in Nat
                                          /\ store.loops[i].count \in Nat
         /\ \A j \in DOMAIN log : log[j] \in LogRecord /\ log[j].uuid \in Nat /\ log[j].who \in Nat
<1>1. store.loops \in Seq(Loop) /\ log \in Seq(LogRecord) /\ born \in Nat /\ minted \in Nat
  BY DEF TypeInv, TypeOK, Sound, Store
<1>2. /\ \A i \in DOMAIN store.loops : store.loops[i] \in Loop
      /\ \A j \in DOMAIN log : log[j] \in LogRecord
  BY <1>1
<1> QED  BY <1>1, <1>2 DEF Loop, LogRecord

LEMMA DistinctKept ==
  ASSUME TypeInv, TypeInv', Distinct, Grows
  PROVE  Distinct'
<1>1. /\ born \in Nat /\ minted \in Nat /\ born' \in Nat /\ minted' \in Nat
      /\ \A i \in DOMAIN store.loops : store.loops[i].uuid \in Nat /\ store.loops[i].who \in Nat
      /\ \A i \in DOMAIN store'.loops : store'.loops[i].uuid \in Nat /\ store'.loops[i].who \in Nat
  <2>1. store'.loops \in Seq(Loop) /\ born' \in Nat /\ minted' \in Nat
    BY DEF TypeInv, TypeOK, Sound, Store
  <2>2. \A i \in DOMAIN store'.loops : store'.loops[i] \in Loop
    BY <2>1
  <2> QED  BY <2>1, <2>2, Numbers DEF Loop
<1>2. \A i \in DOMAIN store.loops : store'.loops[i].who = store.loops[i].who /\ store.loops[i].who <= born
  BY DEF Grows, Keeps, Distinct
<1>3. \A i \in DOMAIN store'.loops : store'.loops[i].who <= born' /\ store'.loops[i].uuid <= minted'
  BY <1>1, <1>2 DEF Grows
<1>4. ASSUME NEW i \in DOMAIN store'.loops, NEW k \in DOMAIN store'.loops,
             store'.loops[i].who = store'.loops[k].who
      PROVE  i = k
  <2>1. CASE i \in DOMAIN store.loops /\ k \in DOMAIN store.loops
    BY <1>2, <1>4, <2>1 DEF Distinct
  <2>2. CASE ~(i \in DOMAIN store.loops /\ k \in DOMAIN store.loops)
    BY <1>1, <1>2, <1>4, <2>2 DEF Grows
  <2> QED  BY <2>1, <2>2
<1>5. ASSUME NEW i \in DOMAIN store'.loops, NEW k \in DOMAIN store'.loops,
             store'.loops[i].uuid = store'.loops[k].uuid, store'.loops[i].uuid # NoUuid
      PROVE  i = k
  <2>1. CASE minted < store'.loops[i].uuid
    BY <1>5, <2>1 DEF Grows
  <2>2. CASE ~(minted < store'.loops[i].uuid)
    BY <1>5, <2>2 DEF Grows, Distinct
  <2> QED  BY <2>1, <2>2
<1> QED  BY <1>3, <1>4, <1>5 DEF Distinct

LEMMA SpokenKept ==
  ASSUME TypeInv, TypeInv', Spoken, Grows, log' = log
  PROVE  Spoken'
<1>1. /\ born \in Nat /\ minted \in Nat /\ born' \in Nat /\ minted' \in Nat
      /\ \A i \in DOMAIN store.loops : store.loops[i].uuid \in Nat /\ store.loops[i].who \in Nat
      /\ \A j \in DOMAIN log : log[j].uuid \in Nat /\ log[j].who \in Nat
      /\ born <= born' /\ minted <= minted'
  BY Numbers DEF TypeInv, TypeOK, Grows
<1>2. ASSUME NEW j \in DOMAIN log
      PROVE  log[j].who <= born /\ log[j].uuid <= minted /\ log[j].who <= born' /\ log[j].uuid <= minted'
  BY <1>1, <1>2 DEF Spoken
<1>3. ASSUME NEW j \in DOMAIN log, NEW i \in DOMAIN store'.loops
      PROVE  /\ log[j].who = store'.loops[i].who =>
                  /\ log[j].id = store'.loops[i].id
                  /\ log[j].uuid # NoUuid => log[j].uuid = store'.loops[i].uuid
                  /\ log[j].dec = "not-a-defect" => store'.loops[i].status = "closed"
             /\ log[j].uuid # NoUuid /\ log[j].uuid = store'.loops[i].uuid =>
                  log[j].who = store'.loops[i].who
  <2>1. CASE i \in DOMAIN store.loops
    <3>1. /\ store'.loops[i].who = store.loops[i].who /\ store'.loops[i].id = store.loops[i].id
          /\ store.loops[i].uuid # NoUuid => store'.loops[i].uuid = store.loops[i].uuid
          /\ store.loops[i].status = "closed" => store'.loops[i].status = "closed"
          /\ store'.loops[i].uuid = store.loops[i].uuid \/ minted < store'.loops[i].uuid
      BY <1>3, <2>1 DEF Grows, Keeps
    <3>2. minted < store'.loops[i].uuid => log[j].uuid # store'.loops[i].uuid
      BY <1>1, <1>2, <1>3
    <3> QED  BY <1>3, <2>1, <3>1, <3>2 DEF Spoken
  <2>2. CASE i \notin DOMAIN store.loops
    <3>1. store'.loops[i].who = born + 1 /\ minted < store'.loops[i].uuid
      BY <1>3, <2>2 DEF Grows
    <3> QED  BY <1>1, <1>2, <1>3, <3>1
  <2> QED  BY <2>1, <2>2
<1> QED  BY <1>2, <1>3 DEF Spoken

LEMMA ThereKept ==
  ASSUME Grows, NEW id, NEW w, NEW u, There(id, w, u)
  PROVE  There(id, w, u)'
BY DEF There, Grows, Keeps

\* A loop that has been closed for good.
LEMMA ClosedKept ==
  ASSUME TypeInv, Distinct, Grows, NEW w \in Nat, w <= born,
         \A i \in DOMAIN store.loops : store.loops[i].who = w => store.loops[i].status = "closed"
  PROVE  \A i \in DOMAIN store'.loops : store'.loops[i].who = w => store'.loops[i].status = "closed"
<1> SUFFICES ASSUME NEW i \in DOMAIN store'.loops, store'.loops[i].who = w
             PROVE  store'.loops[i].status = "closed"
  OBVIOUS
<1>1. born \in Nat
  BY Numbers
<1>2. CASE i \in DOMAIN store.loops
  BY <1>2 DEF Grows, Keeps
<1>3. CASE i \notin DOMAIN store.loops
  BY <1>1, <1>3 DEF Grows
<1> QED  BY <1>2, <1>3

Identity == CopyInv /\ Distinct /\ Spoken /\ Pending


\* What a session knows stays true when the store grows.
LEMMA PendingKept ==
  ASSUME TypeInv, Distinct, Grows, NEW p \in Proc, PendingAt(p),
         pc'[p] = pc[p], seen'[p] = seen[p], call'[p] = call[p]
  PROVE  PendingAt(p)'
<1>1. ASSUME NEW l \in seen[p] PROVE There(l.id, l.who, l.uuid)'
  <2> DEFINE i == l.id  w == l.who  u == l.uuid
  <2>1. There(i, w, u)
    BY <1>1 DEF PendingAt
  <2> HIDE DEF i, w, u
  <2>2. There(i, w, u)'
    BY <2>1, ThereKept
  <2> QED  BY <2>2 DEF There, i, w, u
<1>2. ASSUME call[p].do \in Decision PROVE There(call[p].on, call[p].who, call[p].uuid)'
  <2> DEFINE i == call[p].on  w == call[p].who  u == call[p].uuid
  <2>1. There(i, w, u) /\ i = call'[p].on /\ w = call'[p].who /\ u = call'[p].uuid
    BY <1>2 DEF PendingAt
  <2>2. \E k \in DOMAIN store'.loops :
          /\ store'.loops[k].id = i /\ store'.loops[k].who = w
          /\ u # NoUuid => store'.loops[k].uuid = u
    BY <2>1 DEF There, Grows, Keeps
  <2> HIDE DEF i, w, u
  <2> QED  BY <2>1, <2>2 DEF There
<1>3. ASSUME pc[p] = "log", call[p].do = "not-a-defect"
      PROVE  \A i \in DOMAIN store'.loops :
               store'.loops[i].who = call[p].who => store'.loops[i].status = "closed"
  <2> DEFINE w == call[p].who
  <2>1. \A i \in DOMAIN store.loops : store.loops[i].who = w => store.loops[i].status = "closed"
    BY <1>3 DEF PendingAt
  <2>2. There(call[p].on, w, call[p].uuid)
    BY <1>3 DEF PendingAt, Decision
  <2>3. w \in Nat /\ w <= born
    BY <2>2 DEF There, Distinct, TypeInv, TypeOK, Call
  <2> HIDE DEF w
  <2>4. \A i \in DOMAIN store'.loops : store'.loops[i].who = w => store'.loops[i].status = "closed"
    BY <2>1, <2>3, ClosedKept
  <2> QED  BY <2>4 DEF w
<1> QED  BY <1>1, <1>2, <1>3 DEF PendingAt, There

LEMMA IdentityKept ==
  ASSUME Flock, Identity, [Next]_vars
  PROVE  Identity'
<1> USE DEF Identity
<1>0. CopyInv' /\ TypeInv' /\ TypeInv
  BY CopyStep DEF CopyInv
<1>1. /\ born \in Nat /\ minted \in Nat /\ log \in Seq(LogRecord)
      /\ DOMAIN pc = Proc /\ DOMAIN call = Proc /\ DOMAIN seen = Proc
      /\ \A p \in Proc : call[p] \in Call /\ seen[p] \subseteq Loop
      /\ NoCall.do = "none" /\ [NoCall EXCEPT !.do = "add"].do = "add"
      /\ "none" \notin Decision /\ "add" \notin Decision
  BY <1>0, Numbers DEF TypeInv, TypeOK, NoCall, Decision
\* One session's step: the store grows, and the other sessions know what they knew.
<1>2. ASSUME Grows, Spoken', NEW p \in Proc, PendingAt(p)',
             \A q \in Proc \ {p} : pc'[q] = pc[q] /\ seen'[q] = seen[q] /\ call'[q] = call[q]
      PROVE  Identity'
  <2>1. Distinct'
    BY <1>0, <1>2, DistinctKept
  <2>2. ASSUME NEW q \in Proc PROVE PendingAt(q)'
    <3>1. CASE q = p
      BY <1>2, <3>1
    <3>2. CASE q # p
      <4>1. pc'[q] = pc[q] /\ seen'[q] = seen[q] /\ call'[q] = call[q] /\ PendingAt(q)
        BY <1>2, <2>2, <3>2 DEF Pending
      <4> QED  BY <1>0, <1>2, <2>2, <4>1, PendingKept
    <3> QED  BY <3>1, <3>2
  <2> QED  BY <1>0, <1>2, <2>1, <2>2 DEF Pending
\* If the store and the log stay as they are, only what the session knows matters.
<1>3. ASSUME UNCHANGED <<store, log, born, minted>>, NEW p \in Proc, PendingAt(p)',
             \A q \in Proc \ {p} : pc'[q] = pc[q] /\ seen'[q] = seen[q] /\ call'[q] = call[q]
      PROVE  Identity'
  <2>1. Grows /\ Spoken'
    BY <1>0, <1>3, StillGrows DEF Spoken
  <2> QED  BY <1>2, <1>3, <2>1
<1>4. ASSUME NEW p \in Proc, BeginAdd(p) PROVE Identity'
  <2>1. /\ UNCHANGED <<store, log, born, minted, seen>> /\ pc'[p] = "wait" /\ call'[p].do = "add"
        /\ \A q \in Proc \ {p} : pc'[q] = pc[q] /\ seen'[q] = seen[q] /\ call'[q] = call[q]
    BY <1>1, <1>4 DEF BeginAdd
  <2>2. seen[p] = {}
    BY <1>4 DEF BeginAdd, Pending, PendingAt
  <2>3. PendingAt(p)'
    BY <1>1, <2>1, <2>2 DEF PendingAt
  <2> QED  BY <1>3, <2>1, <2>3
<1>5. ASSUME NEW p \in Proc, Acquire(p) PROVE Identity'
  <2>1. /\ UNCHANGED <<store, log, born, minted, seen, call>> /\ pc'[p] = "write"
        /\ \A q \in Proc \ {p} : pc'[q] = pc[q] /\ seen'[q] = seen[q] /\ call'[q] = call[q]
    BY <1>1, <1>5 DEF Acquire
  <2>2. PendingAt(p)'
    BY <2>1 DEF Pending, PendingAt, There
  <2> QED  BY <1>3, <2>1, <2>2
<1>6. ASSUME NEW p \in Proc, Survey(p) PROVE Identity'
  <2>1. /\ UNCHANGED <<store, log, born, minted, call>> /\ pc[p] = "idle" /\ pc'[p] = "triage"
        /\ \A q \in Proc \ {p} : pc'[q] = pc[q] /\ seen'[q] = seen[q] /\ call'[q] = call[q]
        /\ seen'[p] \subseteq Loops(store)
    BY <1>1, <1>6 DEF Survey
  <2>2. call[p].do = "none"
    BY <1>6 DEF Survey, Pending, PendingAt
  <2>3. PendingAt(p)'
    BY <1>1, <2>1, <2>2 DEF PendingAt, There, Loops
  <2> QED  BY <1>3, <2>1, <2>3
<1>7. ASSUME NEW p \in Proc, Quit(p) PROVE Identity'
  <2>1. /\ UNCHANGED <<store, log, born, minted, call>> /\ pc[p] = "triage" /\ pc'[p] = "idle"
        /\ \A q \in Proc \ {p} : pc'[q] = pc[q] /\ seen'[q] = seen[q] /\ call'[q] = call[q]
        /\ seen'[p] = {}
    BY <1>1, <1>7 DEF Quit
  <2>2. PendingAt(p)'
    BY <2>1 DEF Pending, PendingAt, There
  <2> QED  BY <1>3, <2>1, <2>2
<1>8. ASSUME NEW p \in Proc, Crash(p) PROVE Identity'
  <2>1. /\ UNCHANGED <<store, log, born, minted>> /\ pc'[p] = "idle" /\ call'[p] = NoCall
        /\ \A q \in Proc \ {p} : pc'[q] = pc[q] /\ seen'[q] = seen[q] /\ call'[q] = call[q]
        /\ seen'[p] = {}
    BY <1>1, <1>8 DEF Crash, Release
  <2>2. PendingAt(p)'
    BY <1>1, <2>1 DEF PendingAt
  <2> QED  BY <1>3, <2>1, <2>2
<1>9. ASSUME NEW p \in Proc, NEW l \in seen[p], NEW d \in Decision, Decide(p, l, d) PROVE Identity'
  <2> DEFINE c == [do |-> d, on |-> l.id, uuid |-> l.uuid, who |-> l.who, count |-> l.count]
  <2>1. /\ UNCHANGED <<store, log, born, minted>> /\ pc[p] = "triage"
        /\ pc'[p] = (IF d = "real-defect" THEN "log" ELSE "wait") /\ call'[p] = c
        /\ \A q \in Proc \ {p} : pc'[q] = pc[q] /\ seen'[q] = seen[q] /\ call'[q] = call[q]
        /\ seen'[p] \subseteq seen[p]
    BY <1>1, <1>9 DEF Decide
  <2>2. There(l.id, l.who, l.uuid) /\ \A m \in seen'[p] : There(m.id, m.who, m.uuid)
    BY <2>1 DEF Pending, PendingAt
  <2>3. c.do # "add" /\ (pc'[p] = "log" => c.do # "not-a-defect")
    BY <1>1, <2>1
  <2>4. PendingAt(p)'
    BY <2>1, <2>2, <2>3 DEF PendingAt, There
  <2> QED  BY <1>3, <2>1, <2>4
<1>10. ASSUME NEW p \in Proc, AddLoop(p) PROVE Identity'
  <2>1. /\ log' = log /\ pc'[p] = "idle" /\ call'[p] = NoCall /\ seen' = seen /\ call[p].do = "add"
        /\ \A q \in Proc \ {p} : pc'[q] = pc[q] /\ seen'[q] = seen[q] /\ call'[q] = call[q]
    BY <1>1, <1>10 DEF AddLoop, Release
  <2>2. Grows
    BY <1>10, AddGrows
  <2>3. Spoken'
    BY <1>0, <2>1, <2>2, SpokenKept
  <2>4. PendingAt(p)'
    BY <1>1, <2>1 DEF Pending, PendingAt
  <2> QED  BY <1>2, <2>1, <2>2, <2>3, <2>4
<1>11. ASSUME NEW p \in Proc, ApplyDecision(p) PROVE Identity'
  <2>1. /\ log' = log /\ pc'[p] = "log" /\ call' = call /\ seen' = seen /\ call[p].do \in Decision
        /\ \A q \in Proc \ {p} : pc'[q] = pc[q] /\ seen'[q] = seen[q] /\ call'[q] = call[q]
    BY <1>0, <1>1, <1>11 DEF ApplyDecision, Release, TypeInv, OfDecision
  <2>2. Grows /\ DOMAIN store'.loops = DOMAIN store.loops
    BY <1>11, DecisionGrows
  <2>3. Spoken'
    BY <1>0, <2>1, <2>2, SpokenKept
  <2>4. call[p].do = "not-a-defect" =>
          \A i \in DOMAIN store'.loops : store'.loops[i].who = call[p].who => store'.loops[i].status = "closed"
    <3>1. PICK k \in DOMAIN store.loops :
            /\ store.loops[k].who = call[p].who
            /\ store'.loops[k].status = Changed(store.loops[k], call[p]).status
      BY <1>11, DecisionGrows
    <3>2. store.loops[k] \in Loop
      BY <1>0, <3>1 DEF TypeInv, Sound, Store
    <3>3. call[p].do = "not-a-defect" => store'.loops[k].status = "closed"
      BY <3>1, <3>2 DEF Changed, Closed, Loop
    <3>4. \A i \in DOMAIN store'.loops : store'.loops[i].who = call[p].who => i = k
      BY <2>2, <3>1 DEF Grows, Keeps, Distinct
    <3> QED  BY <3>3, <3>4
  <2>5. There(call[p].on, call[p].who, call[p].uuid) /\ \A l \in seen[p] : There(l.id, l.who, l.uuid)
    BY <2>1 DEF Pending, PendingAt
  <2>6. /\ There(call[p].on, call[p].who, call[p].uuid)'
        /\ \A l \in seen'[p] : There(l.id, l.who, l.uuid)'
    BY <2>1, <2>2, <2>5 DEF There, Grows, Keeps
  <2>7. call[p].do # "add"
    BY <1>1, <2>1
  <2>8. PendingAt(p)'
    BY <2>1, <2>4, <2>6, <2>7 DEF PendingAt
  <2> QED  BY <1>2, <2>1, <2>2, <2>3, <2>8
<1>12. ASSUME NEW p \in Proc, LogDecision(p) PROVE Identity'
  <2>1. /\ UNCHANGED <<store, born, minted, seen>> /\ pc[p] = "log" /\ pc'[p] = "triage"
        /\ call'[p] = NoCall
        /\ \A q \in Proc \ {p} : pc'[q] = pc[q] /\ seen'[q] = seen[q] /\ call'[q] = call[q]
    BY <1>1, <1>12 DEF LogDecision
  <2>2. Grows
    BY <1>0, <2>1, StillGrows
  <2>3. PendingAt(p)'
    BY <1>1, <2>1 DEF Pending, PendingAt, There
  <2>4. Spoken'
    <3>1. CASE log' = log
      BY <2>1, <3>1 DEF Spoken
    <3>2. CASE \E u \in Uuids(call[p]) :
                 log' = Append(log, [id |-> call[p].on, uuid |-> u, who |-> call[p].who, dec |-> call[p].do])
      <4>1. PICK u \in Uuids(call[p]) :
              log' = Append(log, [id |-> call[p].on, uuid |-> u, who |-> call[p].who, dec |-> call[p].do])
        BY <3>2
      <4> DEFINE r == [id |-> call[p].on, uuid |-> u, who |-> call[p].who, dec |-> call[p].do]
      <4>2. OfDecision(call[p]) /\ call[p] \in Call
        BY <1>0, <2>1 DEF TypeInv, TypeOK
      <4>3. PICK w \in DOMAIN store.loops :
              /\ store.loops[w].id = call[p].on /\ store.loops[w].who = call[p].who
              /\ call[p].uuid # NoUuid => store.loops[w].uuid = call[p].uuid
        BY <4>2 DEF Pending, PendingAt, There, OfDecision
      <4>4. u # NoUuid => u = store.loops[w].uuid
        <5>1. \A i \in First(store, call[p].on) : i = w
          BY <1>0, <4>3 DEF First, TypeInv, Sound
        <5> QED  BY <4>3, <5>1 DEF Uuids
      <4>5. store.loops[w].uuid \in Nat /\ store.loops[w].uuid <= minted /\ store.loops[w].who <= born
        BY <1>0, Numbers DEF Distinct
      <4>6. r.who <= born /\ r.uuid <= minted
        BY <1>1, <4>3, <4>4, <4>5 DEF NoUuid
      <4>7. \A i \in DOMAIN store.loops :
              /\ r.who = store.loops[i].who =>
                   /\ r.id = store.loops[i].id
                   /\ r.uuid # NoUuid => r.uuid = store.loops[i].uuid
                   /\ r.dec = "not-a-defect" => store.loops[i].status = "closed"
              /\ r.uuid # NoUuid /\ r.uuid = store.loops[i].uuid => r.who = store.loops[i].who
        <5>1. \A i \in DOMAIN store.loops : r.who = store.loops[i].who => i = w
          BY <4>3 DEF Distinct
        <5>2. \A i \in DOMAIN store.loops : r.uuid # NoUuid /\ r.uuid = store.loops[i].uuid => i = w
          BY <4>4 DEF Distinct
        <5>3. r.dec = "not-a-defect" => store.loops[w].status = "closed"
          BY <2>1, <4>3 DEF Pending, PendingAt
        <5> QED  BY <4>3, <4>4, <5>1, <5>2, <5>3
      <4>8. r \in LogRecord
        <5>1. u \in Nat
          BY <4>4, <4>5 DEF NoUuid
        <5> QED  BY <4>2, <5>1 DEF OfDecision, Call, LogRecord
      <4> HIDE DEF r
      <4>9. log' = Append(log, r)
        BY <4>1 DEF r
      <4>10. \A j \in DOMAIN log' : \/ j \in DOMAIN log /\ log'[j] = log[j]
                                    \/ log'[j] = r
        BY <1>1, <4>8, <4>9
      <4> QED  BY <2>1, <4>6, <4>7, <4>10 DEF Spoken
    <3> QED  BY <1>12, <3>1, <3>2 DEF LogDecision
  <2> QED  BY <1>2, <2>1, <2>2, <2>3, <2>4
<1>13. CASE Reset
  <2>1. /\ UNCHANGED <<log, pc, call, seen, born, minted>> /\ store'.loops = <<>>
        /\ \A p \in Proc : pc[p] = "idle"
    BY <1>13 DEF Reset, EmptyStore
  <2>2. DOMAIN store'.loops = {}
    BY <2>1
  <2>3. Distinct' /\ Spoken'
    BY <2>1, <2>2 DEF Distinct, Spoken
  <2>4. Pending'
    <3> SUFFICES ASSUME NEW p \in Proc PROVE PendingAt(p)'
      BY DEF Pending
    <3>1. pc'[p] = "idle" /\ seen'[p] = {} /\ call'[p].do = "none"
      BY <2>1 DEF Pending, PendingAt
    <3> QED  BY <1>1, <3>1 DEF PendingAt
  <2> QED  BY <1>0, <2>3, <2>4
<1>14. CASE UNCHANGED vars
  <2>1. Distinct' /\ Spoken' /\ Pending'
    BY <1>14 DEF vars, Distinct, Spoken, Pending, PendingAt, There
  <2> QED  BY <1>0, <2>1
<1> QED  BY <1>4, <1>5, <1>6, <1>7, <1>8, <1>9, <1>10, <1>11, <1>12, <1>13, <1>14 DEF Next, Step

LEMMA Identities == Flock => (Spec => []Identity)
<1> SUFFICES ASSUME Flock PROVE Spec => []Identity
  OBVIOUS
<1>1. Init => Identity
  <2> SUFFICES ASSUME Init PROVE Identity
    OBVIOUS
  <2>1. CopyInv
    BY InitType DEF CopyInv, Init
  <2>2. PICK d \in Decision \cup {"none"} :
          LET legacy == [id |-> 1, uuid |-> NoUuid, who |-> 1,
                         status |-> IF d = "not-a-defect" THEN "closed" ELSE "open",
                         count |-> IF d = "still-unclear" THEN 1 ELSE 0]
          IN \/ /\ store = [loops |-> <<legacy>>, next |-> 2]
                /\ log = IF d = "none" THEN <<>>
                         ELSE <<[id |-> 1, uuid |-> NoUuid, who |-> 1, dec |-> d]>>
                /\ born = 1
             \/ d = "none" /\ store = EmptyStore /\ log = <<>> /\ born = 0
    BY DEF Init
  <2>3. minted = 0 /\ born \in {0, 1}
    BY <2>2 DEF Init
  <2>4. Distinct
    BY <2>2, <2>3 DEF Distinct, EmptyStore, NoUuid
  <2>5. Spoken
    BY <2>2, <2>3 DEF Spoken, EmptyStore, NoUuid
  <2>6. Pending
    BY DEF Init, Pending, PendingAt, NoCall, Decision
  <2> QED  BY <2>1, <2>4, <2>5, <2>6 DEF Identity
<1>2. Identity /\ [Next]_vars => Identity'
  BY IdentityKept
<1> QED  BY <1>1, <1>2, PTL DEF Spec

\* A loop whose record says that it is no defect is closed, whatever sessions write,
\* die and delete in between: with the flock a session that has decided finds the
\* loop it decided on, and an identity is never given twice.
THEOREM Applied == Flock => (Spec => []LoggedIsApplied)
<1>1. Identity => LoggedIsApplied
  BY DEF Identity, Spoken, LoggedIsApplied, Loops
<1> QED  BY <1>1, Identities, PTL

\* The decision a loop is credited with is its own latest one, or stands in a record
\* without a uuid: a uuid is one loop's only, and a record of the loop is always among
\* those that reach it.
THEOREM OwnLatest == Flock => (Spec => []JoinOwnLatest)
<1>1. Identity => JoinOwnLatest
  <2> SUFFICES ASSUME Identity, NEW m \in DOMAIN store.loops, NEW i \in Attributed(store.loops[m])
               PROVE  \/ log[i].who # store.loops[m].who /\ log[i].uuid = NoUuid
                      \/ /\ log[i].who = store.loops[m].who
                         /\ \A k \in DOMAIN log : log[k].who = store.loops[m].who => k <= i
    BY DEF JoinOwnLatest, Loops
  <2>1. i \in Joined(store.loops[m]) /\ \A k \in Joined(store.loops[m]) : k <= i
    BY DEF Attributed
  <2>2. \A k \in DOMAIN log : log[k].who = store.loops[m].who => k \in Joined(store.loops[m])
    BY DEF Identity, Spoken, Joined
  <2>3. log[i].uuid = NoUuid \/ log[i].who = store.loops[m].who
    BY <2>1 DEF Identity, Spoken, Joined
  <2> QED  BY <2>1, <2>2, <2>3
<1> QED  BY <1>1, Identities, PTL

-----------------------------------------------------------------------------
(* How often a loop was left undecided *)

\* Each unclear decision on record has been counted.
CountedAt(i) ==
  /\ store.loops[i].count <= HardCap
  /\ Cardinality(Unclear(store.loops[i].who)) <= store.loops[i].count

\* What a session knows of the counts is what they are; it has a row of its own for
\* each loop and none for the one it decides on.  A decision that is applied and
\* not yet on record is one count ahead of the log.
SessionAt(p) ==
  /\ p \notin Triagers => seen[p] = {} /\ call[p].do \notin Decision
  /\ \A l, m \in seen[p] : l.who = m.who => l = m
  /\ call[p].do \in Decision => \A l \in seen[p] : l.who # call[p].who
  /\ pc[p] \in {"wait", "write"} =>
       call[p].do # "real-defect" /\ (call[p].do = "still-unclear" => call[p].count < HardCap)
  /\ \A i \in DOMAIN store.loops :
       /\ \A l \in seen[p] : l.who = store.loops[i].who => l.count = store.loops[i].count
       /\ pc[p] \in {"wait", "write"} /\ call[p].do \in Decision
            /\ call[p].who = store.loops[i].who => call[p].count = store.loops[i].count
       /\ pc[p] = "log" /\ call[p].do = "still-unclear" /\ call[p].who = store.loops[i].who =>
            Cardinality(Unclear(store.loops[i].who)) < store.loops[i].count

Counts == (\A i \in DOMAIN store.loops : CountedAt(i)) /\ (\A p \in Proc : SessionAt(p))

LEMMA UnclearFinite ==
  ASSUME TypeInv, NEW w
  PROVE  IsFiniteSet(Unclear(w)) /\ Cardinality(Unclear(w)) \in Nat
<1>1. log \in Seq(LogRecord) /\ Len(log) \in Nat /\ DOMAIN log = 1 .. Len(log)
  BY DEF TypeInv, TypeOK
<1>2. IsFiniteSet(1 .. Len(log))
  BY <1>1, FS_Interval
<1>3. IsFiniteSet(Unclear(w))
  BY <1>1, <1>2, FS_Subset DEF Unclear
<1> QED  BY <1>3, FS_CardinalityType

\* A record more is at most one unclear decision more.
LEMMA OneMore ==
  ASSUME TypeInv, NEW r, log' = Append(log, r), NEW w
  PROVE  /\ r.who = w /\ r.dec = "still-unclear" =>
              Cardinality(Unclear(w)') = Cardinality(Unclear(w)) + 1
         /\ ~(r.who = w /\ r.dec = "still-unclear") => Unclear(w)' = Unclear(w)
<1>1. log \in Seq(LogRecord) /\ Len(log) \in Nat /\ DOMAIN log = 1 .. Len(log)
  BY DEF TypeInv, TypeOK
<1> DEFINE n == Len(log) + 1
<1>2. /\ DOMAIN log' = DOMAIN log \cup {n} /\ n \notin DOMAIN log /\ log'[n] = r
      /\ \A i \in DOMAIN log : log'[i] = log[i]
  <2>1. log \in Seq(LogRecord \cup {r}) /\ r \in LogRecord \cup {r}
    BY <1>1
  <2> QED  BY <1>1, <2>1
<1> HIDE DEF n
<1>3. Unclear(w)' = Unclear(w) \cup (IF r.who = w /\ r.dec = "still-unclear" THEN {n} ELSE {})
  BY <1>2 DEF Unclear
<1>4. n \notin Unclear(w)
  BY <1>2 DEF Unclear
<1> QED  BY <1>3, <1>4, UnclearFinite, FS_AddElement

LEMMA CountsKept ==
  ASSUME Flock, Identity, Counts, [Next]_vars, \A p, q \in Triagers : p = q
  PROVE  Counts'
<1>0. /\ CopyInv /\ TypeInv /\ TypeInv' /\ Distinct /\ Spoken /\ Pending
  BY CopyStep DEF Identity, CopyInv
<1>1. /\ born \in Nat /\ minted \in Nat /\ store.loops \in Seq(Loop)
      /\ DOMAIN pc = Proc /\ DOMAIN call = Proc /\ DOMAIN seen = Proc
      /\ \A p \in Proc : call[p] \in Call /\ seen[p] \subseteq Loop
      /\ NoCall.do = "none" /\ [NoCall EXCEPT !.do = "add"].do = "add"
      /\ "none" \notin Decision /\ "add" \notin Decision /\ "still-unclear" \in Decision
      /\ \A i \in DOMAIN store.loops : store.loops[i] \in Loop
      /\ HardCap = 3
  <2>1. store.loops \in Seq(Loop) /\ \A i \in DOMAIN store.loops : store.loops[i] \in Loop
    BY <1>0 DEF TypeInv, Sound, Store
  <2> QED  BY <1>0, <2>1, Numbers DEF TypeInv, TypeOK, NoCall, Decision, HardCap
\* One session's step that leaves the counts and the log.
<1>2. ASSUME UNCHANGED <<store, log>>, NEW p \in Proc, SessionAt(p)',
             \A q \in Proc \ {p} : pc'[q] = pc[q] /\ seen'[q] = seen[q] /\ call'[q] = call[q]
      PROVE  Counts'
  <2>1. \A i \in DOMAIN store'.loops : CountedAt(i)'
    BY <1>2 DEF Counts, CountedAt, Unclear
  <2>2. ASSUME NEW q \in Proc PROVE SessionAt(q)'
    <3>1. CASE q = p
      BY <1>2, <3>1
    <3>2. CASE q # p
      BY <1>2, <2>2, <3>2 DEF Counts, SessionAt, Unclear
    <3> QED  BY <3>1, <3>2
  <2> QED  BY <2>1, <2>2 DEF Counts
\* A step of the one session that triages: the others have nothing to lose.
<1>3. ASSUME NEW p \in Proc, call[p].do \in Decision, SessionAt(p)',
             \A i \in DOMAIN store'.loops : CountedAt(i)',
             \A q \in Proc \ {p} : pc'[q] = pc[q] /\ seen'[q] = seen[q] /\ call'[q] = call[q]
      PROVE  Counts'
  <2>1. p \in Triagers
    BY <1>3 DEF Counts, SessionAt
  <2>2. ASSUME NEW q \in Proc PROVE SessionAt(q)'
    <3>1. CASE q = p
      BY <1>3, <3>1
    <3>2. CASE q # p
      <4>1. q \notin Triagers
        BY <2>1, <3>2
      <4>2. seen'[q] = {} /\ call'[q].do \notin Decision /\ pc'[q] = pc[q] /\ SessionAt(q)
        BY <1>3, <2>2, <3>2, <4>1 DEF Counts, SessionAt
      <4>3. pc'[q] \in {"wait", "write"} => call'[q].do # "real-defect" /\ call'[q].do # "still-unclear"
        BY <4>2 DEF Decision
      <4> QED  BY <1>1, <4>2, <4>3 DEF SessionAt
    <3> QED  BY <3>1, <3>2
  <2> QED  BY <1>3, <2>2 DEF Counts
<1>4. ASSUME NEW p \in Proc, BeginAdd(p) PROVE Counts'
  <2>1. /\ UNCHANGED <<store, log, seen>> /\ call'[p].do = "add" /\ pc'[p] = "wait"
        /\ \A q \in Proc \ {p} : pc'[q] = pc[q] /\ seen'[q] = seen[q] /\ call'[q] = call[q]
    BY <1>1, <1>4 DEF BeginAdd
  <2>2. seen[p] = {}
    BY <1>0, <1>4 DEF BeginAdd, Pending, PendingAt
  <2>3. SessionAt(p)'
    BY <1>1, <2>1, <2>2 DEF SessionAt
  <2> QED  BY <1>2, <2>1, <2>3
<1>5. ASSUME NEW p \in Proc, Acquire(p) PROVE Counts'
  <2>1. /\ UNCHANGED <<store, log, seen, call>> /\ pc[p] = "wait" /\ pc'[p] = "write"
        /\ \A q \in Proc \ {p} : pc'[q] = pc[q] /\ seen'[q] = seen[q] /\ call'[q] = call[q]
    BY <1>1, <1>5 DEF Acquire
  <2>2. SessionAt(p)'
    BY <2>1 DEF Counts, SessionAt
  <2> QED  BY <1>2, <2>1, <2>2
<1>6. ASSUME NEW p \in Proc, Survey(p) PROVE Counts'
  <2>1. /\ UNCHANGED <<store, log, call>> /\ pc'[p] = "triage" /\ p \in Triagers
        /\ \A q \in Proc \ {p} : pc'[q] = pc[q] /\ seen'[q] = seen[q] /\ call'[q] = call[q]
        /\ seen'[p] \subseteq Loops(store)
    BY <1>1, <1>6 DEF Survey
  <2>2. call[p].do = "none"
    BY <1>0, <1>6 DEF Survey, Pending, PendingAt
  <2>3. \A l \in seen'[p] : \E i \in DOMAIN store.loops : l = store.loops[i]
    BY <2>1 DEF Loops
  <2>4. /\ \A l, m \in seen'[p] : l.who = m.who => l = m
        /\ \A i \in DOMAIN store.loops, l \in seen'[p] : l.who = store.loops[i].who =>
             l.count = store.loops[i].count
    BY <1>0, <2>3 DEF Distinct
  <2>5. SessionAt(p)'
    BY <1>1, <2>1, <2>2, <2>4 DEF SessionAt
  <2> QED  BY <1>2, <2>1, <2>5
<1>7. ASSUME NEW p \in Proc, Quit(p) \/ Crash(p) PROVE Counts'
  <2>1. /\ UNCHANGED <<store, log>> /\ pc'[p] = "idle" /\ seen'[p] = {}
        /\ \A q \in Proc \ {p} : pc'[q] = pc[q] /\ seen'[q] = seen[q] /\ call'[q] = call[q]
    BY <1>1, <1>7 DEF Quit, Crash, Release
  <2>2. call'[p].do = "none"
    <3>1. CASE Quit(p)
      BY <1>0, <3>1 DEF Quit, Pending, PendingAt
    <3>2. CASE Crash(p)
      BY <1>1, <3>2 DEF Crash
    <3> QED  BY <1>7, <3>1, <3>2
  <2>3. SessionAt(p)'
    BY <1>1, <2>1, <2>2 DEF SessionAt
  <2> QED  BY <1>2, <2>1, <2>3
<1>8. ASSUME NEW p \in Proc, NEW l \in seen[p], NEW d \in Decision, Decide(p, l, d) PROVE Counts'
  <2> DEFINE c == [do |-> d, on |-> l.id, uuid |-> l.uuid, who |-> l.who, count |-> l.count]
  <2>1. /\ UNCHANGED <<store, log>>
        /\ pc'[p] = (IF d = "real-defect" THEN "log" ELSE "wait") /\ call'[p] = c
        /\ \A q \in Proc \ {p} : pc'[q] = pc[q] /\ seen'[q] = seen[q] /\ call'[q] = call[q]
        /\ seen'[p] = seen[p] \ {l}
        /\ l.count >= HardCap => d # "still-unclear"
    BY <1>1, <1>8 DEF Decide, MustDecide
  <2>2. l \in Loop /\ l.count \in Nat
    BY <1>1 DEF Loop
  <2>3. /\ c.do = d /\ c.who = l.who /\ c.count = l.count
        /\ d = "still-unclear" => l.count < HardCap
    BY <1>1, <2>1, <2>2
  <2>4. p \in Triagers /\ SessionAt(p)
    BY DEF Counts, SessionAt
  <2> HIDE DEF c
  <2>5. SessionAt(p)'
    BY <1>1, <2>1, <2>3, <2>4 DEF SessionAt
  <2> QED  BY <1>2, <2>1, <2>5
<1>9. ASSUME NEW p \in Proc, AddLoop(p) PROVE Counts'
  <2>1. /\ log' = log /\ pc'[p] = "idle" /\ call'[p].do = "none" /\ seen' = seen
        /\ \A q \in Proc \ {p} : pc'[q] = pc[q] /\ seen'[q] = seen[q] /\ call'[q] = call[q]
        /\ call[p].do = "add"
    BY <1>1, <1>9 DEF AddLoop, Release
  <2>2. seen[p] = {}
    BY <1>0, <2>1 DEF Pending, PendingAt
  <2>3. \A i \in DOMAIN store'.loops :
          \/ /\ i \in DOMAIN store.loops /\ store'.loops[i].count = store.loops[i].count
             /\ store'.loops[i].who = store.loops[i].who
          \/ store'.loops[i].count = 0 /\ store'.loops[i].who = born + 1
    BY <1>0, <1>9, AddGrows DEF Grows, Keeps
  <2>4. Unclear(born + 1) = {} /\ \A w : Unclear(w)' = Unclear(w)
    <3>1. \A j \in DOMAIN log : log[j].who # born + 1
      BY <1>0, <1>1, Numbers DEF Spoken
    <3> QED  BY <2>1, <3>1 DEF Unclear
  <2>5. \A w : Cardinality(Unclear(w)') = Cardinality(Unclear(w))
    BY <2>4
  <2>6. ASSUME NEW i \in DOMAIN store'.loops PROVE CountedAt(i)'
    <3>1. CASE store'.loops[i].count = 0 /\ store'.loops[i].who = born + 1
      <4>1. Cardinality(Unclear(store.loops[i].who)') = 0
        BY <2>1, <2>4, <3>1, FS_EmptySet DEF Unclear
      <4> QED  BY <1>1, <3>1, <4>1 DEF CountedAt
    <3>2. CASE /\ i \in DOMAIN store.loops /\ store'.loops[i].count = store.loops[i].count
               /\ store'.loops[i].who = store.loops[i].who
      BY <2>1, <3>2 DEF Counts, CountedAt, Unclear
    <3> QED  BY <2>3, <2>6, <3>1, <3>2
  <2>7. ASSUME NEW q \in Proc \ {p} PROVE SessionAt(q)'
    <3>1. \A l \in seen[q] : l.who # born + 1
      BY <1>0, <1>1, Numbers DEF Pending, PendingAt, There, Distinct
    <3>2. call[q].do \in Decision => call[q].who # born + 1
      BY <1>0, <1>1, Numbers DEF Pending, PendingAt, There, Distinct
    <3>3. SessionAt(q) /\ pc'[q] = pc[q] /\ seen'[q] = seen[q] /\ call'[q] = call[q]
      BY <2>1 DEF Counts
    <3>4. ASSUME NEW i \in DOMAIN store'.loops
          PROVE  /\ \A l \in seen[q] : l.who = store'.loops[i].who => l.count = store'.loops[i].count
                 /\ pc[q] \in {"wait", "write"} /\ call[q].do \in Decision
                      /\ call[q].who = store'.loops[i].who => call[q].count = store'.loops[i].count
                 /\ pc[q] = "log" /\ call[q].do = "still-unclear" /\ call[q].who = store'.loops[i].who =>
                      Cardinality(Unclear(store.loops[i].who)') < store'.loops[i].count
      <4>1. CASE /\ i \in DOMAIN store.loops /\ store'.loops[i].count = store.loops[i].count
                 /\ store'.loops[i].who = store.loops[i].who
        <5>1. Unclear(store.loops[i].who)' = Unclear(store.loops[i].who)
          BY <2>1, <4>1 DEF Unclear
        <5> QED  BY <3>3, <4>1, <5>1 DEF SessionAt
      <4>2. CASE store'.loops[i].who = born + 1
        BY <1>1, <3>1, <3>2, <4>2
      <4> QED  BY <2>3, <3>4, <4>1, <4>2
    <3> QED  BY <3>3, <3>4 DEF SessionAt
  <2>8. SessionAt(p)'
    BY <1>1, <2>1, <2>2 DEF SessionAt
  <2> QED  BY <2>6, <2>7, <2>8 DEF Counts
<1>10. ASSUME NEW p \in Proc, ApplyDecision(p) PROVE Counts'
  <2>1. /\ log' = log /\ pc[p] = "write" /\ pc'[p] = "log" /\ call' = call /\ seen' = seen
        /\ call[p].do \in Decision
        /\ \A q \in Proc \ {p} : pc'[q] = pc[q] /\ seen'[q] = seen[q] /\ call'[q] = call[q]
    BY <1>0, <1>1, <1>10 DEF ApplyDecision, Release, TypeInv, OfDecision
  <2>2. PICK w \in DOMAIN store.loops :
          /\ store.loops[w].who = call[p].who
          /\ store'.loops[w].count = Changed(store.loops[w], call[p]).count
          /\ \A k \in DOMAIN store.loops \ {w} : store'.loops[k].count = store.loops[k].count
    BY <1>0, <1>10, DecisionGrows
  <2>3. /\ DOMAIN store'.loops = DOMAIN store.loops
        /\ \A k \in DOMAIN store.loops : store'.loops[k].who = store.loops[k].who
    BY <1>0, <1>10, DecisionGrows DEF Grows, Keeps
  <2>4. SessionAt(p) /\ \A k \in DOMAIN store.loops : CountedAt(k)
    BY DEF Counts
  <2>5. call[p].count = store.loops[w].count /\ store.loops[w].count \in Nat
    BY <1>1, <2>1, <2>2, <2>4 DEF SessionAt, Loop
  <2>6. call[p].do = "still-unclear" =>
          store'.loops[w].count = store.loops[w].count + 1 /\ store.loops[w].count < HardCap
    <3>1. store.loops[w] \in Loop
      BY <1>1
    <3>2. call[p].do = "still-unclear" => Changed(store.loops[w], call[p]).count = call[p].count + 1
      BY <3>1 DEF Changed, Counted, NewCount, Loop
    <3> QED  BY <2>1, <2>2, <2>4, <2>5, <3>2 DEF SessionAt
  <2>7. call[p].do # "still-unclear" => store'.loops[w].count = store.loops[w].count
    <3>1. store.loops[w] \in Loop
      BY <1>1
    <3>2. call[p].do # "still-unclear" => call[p].do = "not-a-defect"
      BY <2>1, <2>4 DEF SessionAt, Decision
    <3> QED  BY <2>2, <3>1, <3>2 DEF Changed, Closed, Loop
  <2>8. \A v : Cardinality(Unclear(v)) \in Nat
    BY <1>0, UnclearFinite
  <2>9. ASSUME NEW i \in DOMAIN store'.loops PROVE CountedAt(i)'
    <3>1. CountedAt(i) /\ store.loops[i].count \in Nat /\ Cardinality(Unclear(store.loops[i].who)) \in Nat
      BY <1>1, <2>3, <2>4, <2>8, <2>9 DEF Loop
    <3>2. store'.loops[i].count \in {store.loops[i].count, store.loops[i].count + 1}
          /\ store'.loops[i].count <= HardCap
      BY <1>1, <2>2, <2>3, <2>6, <2>7, <2>9, <3>1 DEF CountedAt
    <3>3. Unclear(store.loops[i].who)' = Unclear(store.loops[i].who)
      BY <2>1, <2>3, <2>9 DEF Unclear
    <3> QED  BY <2>3, <2>9, <3>1, <3>2, <3>3 DEF CountedAt
  <2>10. \A k \in DOMAIN store.loops : store.loops[k].who = call[p].who => k = w
    BY <1>0, <2>2 DEF Distinct
  <2>11. ASSUME NEW i \in DOMAIN store'.loops
         PROVE  /\ \A l \in seen[p] : l.who = store'.loops[i].who => l.count = store'.loops[i].count
                /\ call[p].do = "still-unclear" /\ call[p].who = store'.loops[i].who =>
                     Cardinality(Unclear(store.loops[i].who)') < store'.loops[i].count
    <3>1. CASE i = w
      <4>1. \A l \in seen[p] : l.who # store'.loops[i].who
        BY <2>1, <2>2, <2>3, <2>4, <3>1 DEF SessionAt
      <4>2. Cardinality(Unclear(store.loops[i].who)) <= store.loops[i].count
        BY <2>4, <3>1 DEF CountedAt
      <4>3. Unclear(store.loops[i].who)' = Unclear(store.loops[i].who)
        BY <2>1, <2>3, <2>11 DEF Unclear
      <4> QED  BY <2>5, <2>6, <2>8, <3>1, <4>1, <4>2, <4>3
    <3>2. CASE i # w
      <4>1. i \in DOMAIN store.loops /\ store'.loops[i].who # call[p].who
        BY <2>3, <2>10, <2>11, <3>2
      <4> QED  BY <2>2, <2>3, <2>4, <3>2, <4>1 DEF SessionAt
    <3> QED  BY <3>1, <3>2
  <2>12. SessionAt(p)'
    BY <2>1, <2>4, <2>11 DEF SessionAt
  <2> QED  BY <1>3, <2>1, <2>9, <2>12
<1>11. ASSUME NEW p \in Proc, LogDecision(p) PROVE Counts'
  <2>1. /\ UNCHANGED <<store, seen>> /\ pc[p] = "log" /\ pc'[p] = "triage" /\ call'[p].do = "none"
        /\ \A q \in Proc \ {p} : pc'[q] = pc[q] /\ seen'[q] = seen[q] /\ call'[q] = call[q]
    BY <1>1, <1>11 DEF LogDecision
  <2>2. call[p].do \in Decision
    BY <1>0, <2>1 DEF TypeInv, OfDecision
  <2>3. SessionAt(p) /\ \A k \in DOMAIN store.loops : CountedAt(k)
    BY DEF Counts
  <2>4. SessionAt(p)'
    BY <1>1, <2>1, <2>2, <2>3 DEF SessionAt
  <2>5. ASSUME NEW i \in DOMAIN store'.loops PROVE CountedAt(i)'
    <3>1. i \in DOMAIN store.loops /\ CountedAt(i) /\ store.loops[i].count \in Nat
      BY <1>1, <2>1, <2>3, <2>5 DEF Loop
    <3>2. CASE log' = log
      BY <2>1, <3>1, <3>2 DEF CountedAt, Unclear
    <3>3. CASE \E u \in Uuids(call[p]) :
                 log' = Append(log, [id |-> call[p].on, uuid |-> u, who |-> call[p].who, dec |-> call[p].do])
      <4>1. PICK r : /\ log' = Append(log, r) /\ r.who = call[p].who /\ r.dec = call[p].do
        BY <3>3
      <4>2. PICK w : w = store.loops[i].who /\ w = store'.loops[i].who
        BY <2>1
      <4>3. Cardinality(Unclear(w)) \in Nat
        BY <1>0, UnclearFinite
      <4>4. CASE r.who = w /\ r.dec = "still-unclear"
        <5>1. Cardinality(Unclear(w)) < store.loops[i].count
          BY <2>1, <2>3, <3>1, <4>1, <4>2, <4>4 DEF SessionAt
        <5>2. Cardinality(Unclear(w)') = Cardinality(Unclear(w)) + 1
          BY <1>0, <4>1, <4>4, OneMore
        <5>3. Cardinality(Unclear(w)') <= store.loops[i].count
          BY <3>1, <4>3, <5>1, <5>2
        <5>4. Unclear(store.loops[i].who)' = Unclear(w)'
          BY <4>2 DEF Unclear
        <5> QED  BY <2>1, <3>1, <5>3, <5>4 DEF CountedAt
      <4>5. CASE ~(r.who = w /\ r.dec = "still-unclear")
        <5>1. Unclear(w)' = Unclear(w)
          BY <1>0, <4>1, <4>5, OneMore
        <5>2. Unclear(store.loops[i].who)' = Unclear(w)'
          BY <4>2 DEF Unclear
        <5> QED  BY <2>1, <3>1, <4>2, <5>1, <5>2 DEF CountedAt
      <4> QED  BY <4>4, <4>5
    <3> QED  BY <1>11, <3>2, <3>3 DEF LogDecision
  <2> QED  BY <1>3, <2>1, <2>2, <2>4, <2>5
<1>12. CASE Reset
  <2>1. /\ UNCHANGED <<pc, call, seen>> /\ store'.loops = <<>> /\ \A p \in Proc : pc[p] = "idle"
    BY <1>12 DEF Reset, EmptyStore
  <2>2. \A p \in Proc : pc'[p] = "idle" /\ seen'[p] = {} /\ call'[p].do = "none"
    BY <1>0, <2>1 DEF Pending, PendingAt
  <2>3. DOMAIN store'.loops = {}
    BY <2>1
  <2> QED  BY <1>1, <2>2, <2>3 DEF Counts, SessionAt
<1>13. CASE UNCHANGED vars
  BY <1>13 DEF vars, Counts, CountedAt, SessionAt, Unclear
<1> QED  BY <1>4, <1>5, <1>6, <1>7, <1>8, <1>9, <1>10, <1>11, <1>12, <1>13 DEF Next, Step

\* With the flock and one session triaging at a time every unclear decision on
\* record has been counted, and nobody is asked more often than the cap allows,
\* however many sessions add loops meanwhile and wherever the session dies.
THEOREM Capped == Flock /\ (\A p, q \in Triagers : p = q) => (Spec => []UnclearCounted)
<1> SUFFICES ASSUME Flock, \A p, q \in Triagers : p = q PROVE Spec => []UnclearCounted
  OBVIOUS
<1>1. Init => Counts
  <2> SUFFICES ASSUME Init PROVE Counts
    OBVIOUS
  <2>1. PICK d \in Decision \cup {"none"} :
          LET legacy == [id |-> 1, uuid |-> NoUuid, who |-> 1,
                         status |-> IF d = "not-a-defect" THEN "closed" ELSE "open",
                         count |-> IF d = "still-unclear" THEN 1 ELSE 0]
          IN \/ /\ store = [loops |-> <<legacy>>, next |-> 2]
                /\ log = IF d = "none" THEN <<>>
                         ELSE <<[id |-> 1, uuid |-> NoUuid, who |-> 1, dec |-> d]>>
             \/ d = "none" /\ store = EmptyStore /\ log = <<>>
    BY DEF Init
  <2>2. \A i \in DOMAIN store.loops :
          i = 1 /\ store.loops[i].who = 1 /\ store.loops[i].count = IF d = "still-unclear" THEN 1 ELSE 0
    BY <2>1 DEF EmptyStore
  <2>3. Unclear(1) \subseteq (IF d = "still-unclear" THEN {1} ELSE {})
    BY <2>1 DEF Unclear
  <2>4. Cardinality(Unclear(1)) <= IF d = "still-unclear" THEN 1 ELSE 0
    <3>1. Cardinality({}) = 0 /\ Cardinality({1}) = 1
      BY FS_EmptySet, FS_Singleton
    <3>2. Unclear(1) = {} \/ (d = "still-unclear" /\ Unclear(1) = {1})
      BY <2>3
    <3> QED  BY <3>1, <3>2
  <2>5. \A i \in DOMAIN store.loops : CountedAt(i)
    BY <2>2, <2>4 DEF CountedAt, HardCap
  <2>6. \A p \in Proc : SessionAt(p)
    BY DEF Init, SessionAt, NoCall, Decision
  <2> QED  BY <2>5, <2>6 DEF Counts
<1>2. Identity /\ Counts /\ [Next]_vars => Counts'
  BY CountsKept
<1>3. Counts => UnclearCounted
  BY DEF Counts, CountedAt, UnclearCounted, Loops
<1> QED  BY <1>1, <1>2, <1>3, Identities, PTL DEF Spec
-----------------------------------------------------------------------------
(* The store implements the ledger *)

\* A write gives each loop that lacks one a uuid of its own, never given before, and
\* leaves everything else of the loops alone.
LEMMA BackfilledNames ==
  ASSUME NEW loops \in Seq(Loop), NEW m \in Nat,
         \A i \in DOMAIN loops : loops[i].uuid <= m,
         \A i, k \in DOMAIN loops :
           loops[i].uuid = loops[k].uuid /\ loops[i].uuid # NoUuid => i = k
  PROVE  /\ Spent(loops) \in Nat
         /\ DOMAIN Backfilled(loops, m) = DOMAIN loops
         /\ \A i \in DOMAIN loops :
              /\ Backfilled(loops, m)[i] =
                   [loops[i] EXCEPT !.uuid = Backfilled(loops, m)[i].uuid]
              /\ Backfilled(loops, m)[i].uuid \in 1 .. m + Spent(loops)
              /\ IF loops[i].uuid = NoUuid
                   THEN Backfilled(loops, m)[i].uuid \notin 1 .. m
                   ELSE Backfilled(loops, m)[i].uuid = loops[i].uuid
         /\ \A i, k \in DOMAIN loops :
              Backfilled(loops, m)[i].uuid = Backfilled(loops, m)[k].uuid => i = k
<1> DEFINE b == Backfilled(loops, m)
<1>1. \A i \in DOMAIN loops : loops[i] \in Loop
  OBVIOUS
<1>2. /\ Spent(loops) \in Nat
      /\ \A i \in DOMAIN loops :
           /\ i \in Nat \ {0} /\ loops[i].uuid \in Nat
           /\ \/ loops[i].uuid # NoUuid /\ b[i].uuid = loops[i].uuid
              \/ loops[i].uuid = NoUuid /\ b[i].uuid = m + i /\ i <= Spent(loops)
  BY BackfilledFresh
<1>3. DOMAIN b = DOMAIN loops
  BY DEF Backfilled
<1>4. ASSUME NEW i \in DOMAIN loops PROVE b[i] = [loops[i] EXCEPT !.uuid = b[i].uuid]
  <2>1. CASE loops[i].uuid = NoUuid
    <3>1. b[i] = [loops[i] EXCEPT !.uuid = m + i]
      BY <2>1 DEF Backfilled
    <3> QED BY <1>1, <3>1 DEF Loop
  <2>2. CASE loops[i].uuid # NoUuid
    <3>1. b[i] = loops[i]
      BY <2>2 DEF Backfilled
    <3> QED BY <1>1, <3>1 DEF Loop
  <2> QED BY <2>1, <2>2
<1> HIDE DEF b
<1>5. ASSUME NEW i \in DOMAIN loops
      PROVE  /\ b[i].uuid \in 1 .. m + Spent(loops)
             /\ IF loops[i].uuid = NoUuid THEN b[i].uuid \notin 1 .. m ELSE b[i].uuid = loops[i].uuid
  BY <1>2 DEF NoUuid
<1>6. \A i, k \in DOMAIN loops : b[i].uuid = b[k].uuid => i = k
  BY <1>2
<1> QED BY <1>2, <1>3, <1>4, <1>5, <1>6 DEF b

LEMMA AddIsAdd ==
  ASSUME CopyInv, Distinct, NEW p \in Proc, AddLoop(p)
  PROVE  Ledger!Next
<1> DEFINE old == store.loops
           b == Backfilled(old, minted)
           m == minted + Spent(old)
           n == Len(old) + 1
           new == [id |-> store.next, uuid |-> m + 1, who |-> born + 1,
                   status |-> "open", count |-> 0]
           l == [new EXCEPT !.uuid = NoUuid]
<1>1. /\ Sound(store) /\ minted \in Nat /\ born \in Nat /\ copy[p] = store
      /\ old \in Seq(Loop) /\ store.next \in Nat \ {0}
  BY DEF CopyInv, TypeInv, TypeOK, Sound, Store, AddLoop
<1>2. /\ Spent(old) \in Nat /\ DOMAIN b = DOMAIN old
      /\ \A i \in DOMAIN old :
           /\ b[i] = [old[i] EXCEPT !.uuid = b[i].uuid]
           /\ b[i].uuid \in 1 .. m
           /\ IF old[i].uuid = NoUuid THEN b[i].uuid \notin 1 .. minted ELSE b[i].uuid = old[i].uuid
      /\ \A i, k \in DOMAIN old : b[i].uuid = b[k].uuid => i = k
  BY <1>1, BackfilledNames DEF Distinct
<1>3. store'.loops = Append(b, new) /\ minted' = m + 1 /\ resets' = resets
  BY <1>1 DEF AddLoop
<1>4. b \in Seq(Loop) /\ Len(b) = Len(old) /\ DOMAIN old = 1 .. Len(old) /\ Len(old) \in Nat
  BY <1>1, BackfilledType
<1>5. /\ new.id = store.next /\ new.uuid = m + 1 /\ l.id = store.next /\ l.status = "open"
      /\ l.count = 0 /\ l.uuid = NoUuid /\ new = [l EXCEPT !.uuid = new.uuid]
  OBVIOUS
<1> HIDE DEF b, new, m
<1>6. /\ DOMAIN store'.loops = 1 .. n /\ Len(store'.loops) = n /\ store'.loops[n] = new
      /\ \A i \in 1 .. n - 1 : store'.loops[i] = b[i]
  BY <1>3, <1>4
<1> HIDE DEF l
<1>7. /\ DOMAIN Append(old, l) = 1 .. n /\ Append(old, l)[n] = l
      /\ \A i \in 1 .. n - 1 : Append(old, l)[i] = old[i]
  BY <1>1, <1>4
<1>8. m \in Nat /\ minted <= m
  BY <1>1, <1>2 DEF m
<1>9. \A i \in 1 .. n : Ledger!Named(Append(old, l)[i], store'.loops[i])
  <2>1. ASSUME NEW i \in 1 .. n - 1 PROVE Ledger!Named(old[i], b[i])
    BY <1>1, <1>2, <1>3, <1>4, <1>8, <2>1 DEF Ledger!Named
  <2>2. Ledger!Named(l, new)
    BY <1>1, <1>3, <1>5, <1>8 DEF Ledger!Named
  <2> QED BY <1>4, <1>6, <1>7, <2>1, <2>2
<1>10. \A i, k \in 1 .. n : store'.loops[i].uuid = store'.loops[k].uuid => i = k
  <2>1. \A i \in 1 .. n :
          \/ i \in DOMAIN old /\ store'.loops[i].uuid = b[i].uuid
          \/ i = n /\ store'.loops[i].uuid = m + 1
    BY <1>4, <1>5, <1>6
  <2>2. \A i \in DOMAIN old : b[i].uuid # m + 1
    <3>1. \A i \in DOMAIN old : b[i].uuid \in 1 .. m
      BY <1>2
    <3> QED BY <1>8, <3>1
  <2>3. \A i, k \in DOMAIN old : b[i].uuid = b[k].uuid => i = k
    BY <1>2
  <2> QED BY <2>1, <2>2, <2>3
<1>11. Ledger!Becomes(Append(old, l))
  BY <1>1, <1>3, <1>6, <1>7, <1>8, <1>9, <1>10 DEF Ledger!Becomes
<1>12. \A i \in DOMAIN old : old[i].id < l.id
  BY <1>1, <1>5 DEF Sound
<1>13. Ledger!Add(l)
  BY <1>5, <1>11, <1>12 DEF Ledger!Add
<1>14. store'.loops # <<>> /\ [store'.loops[Len(store'.loops)] EXCEPT !.uuid = NoUuid] = l
  BY <1>4, <1>6 DEF l
<1> QED BY <1>13, <1>14 DEF Ledger!Next, Ledger!Newest

LEMMA DecisionIsOne ==
  ASSUME CopyInv, Distinct, NEW p \in Proc, ApplyDecision(p)
  PROVE  Ledger!Next \/ UNCHANGED Ledger!vars
<1> DEFINE old == store.loops
           c == call[p]
<1>1. /\ Sound(store) /\ minted \in Nat /\ copy[p] = store /\ c \in Call /\ old \in Seq(Loop)
      /\ resets' = resets
  BY DEF CopyInv, TypeInv, TypeOK, Sound, Store, ApplyDecision
<1>2. CASE UNCHANGED <<store, minted>>
  BY <1>1, <1>2 DEF Ledger!vars
<1>3. ASSUME NEW w \in First(store, c.on),
             store' = [loops |-> Backfilled([old EXCEPT ![w] = Changed(@, c)], minted),
                       next |-> store.next],
             minted' = minted + Spent(old)
      PROVE  Ledger!Next
  <2> DEFINE mid == [old EXCEPT ![w] = Changed(@, c)]
             b == Backfilled(mid, minted)
  <2>1. w \in DOMAIN old
    BY DEF First
  <2>2. /\ mid \in Seq(Loop) /\ DOMAIN mid = DOMAIN old
        /\ \A k \in DOMAIN old : mid[k].uuid = old[k].uuid
    BY <1>1, <2>1, ChangedType
  <2>3. Spent(mid) = Spent(old)
    <3> HIDE DEF mid
    <3>1. Len(mid) = Len(old)
      BY <1>1, <2>2
    <3> QED BY <2>2, <3>1 DEF Spent
  <2>4. \/ mid = [old EXCEPT ![w].status = "closed"]
        \/ \E x \in Nat : mid = [old EXCEPT ![w].count = x] /\ mid[w].count = x
    <3>1. old[w] \in Loop
      BY <1>1, <2>1
    <3>2. CASE c.do = "not-a-defect"
      BY <2>1, <3>2 DEF Changed, Closed
    <3>3. CASE c.do # "not-a-defect"
      <4>1. NewCount(c) \in Nat
        BY <1>1 DEF NewCount, Call
      <4>2. mid = [old EXCEPT ![w].count = NewCount(c)] /\ mid[w].count = NewCount(c)
        BY <2>1, <3>1, <3>3 DEF Changed, Counted, Loop
      <4> QED BY <4>1, <4>2
    <3> QED BY <3>2, <3>3
  <2> HIDE DEF mid
  <2>5. /\ Spent(mid) \in Nat /\ DOMAIN b = DOMAIN mid
        /\ \A i \in DOMAIN mid :
             /\ b[i] = [mid[i] EXCEPT !.uuid = b[i].uuid]
             /\ b[i].uuid \in 1 .. minted + Spent(mid)
             /\ IF mid[i].uuid = NoUuid THEN b[i].uuid \notin 1 .. minted
                ELSE b[i].uuid = mid[i].uuid
        /\ \A i, k \in DOMAIN mid : b[i].uuid = b[k].uuid => i = k
    BY <1>1, <2>2, BackfilledNames DEF Distinct
  <2> HIDE DEF b
  <2>6. store'.loops = b /\ minted' = minted + Spent(mid)
    BY <1>3, <2>3 DEF b, mid
  <2>7. \A i \in DOMAIN mid : Ledger!Named(mid[i], b[i])
    BY <1>1, <2>5, <2>6 DEF Ledger!Named
  <2>8. Ledger!Becomes(mid)
    BY <1>1, <2>5, <2>6, <2>7 DEF Ledger!Becomes
  <2>9. b[w].count = mid[w].count
    <3>1. mid[w] \in Loop
      BY <2>1, <2>2
    <3> QED BY <2>1, <2>2, <2>5, <3>1 DEF Loop
  <2>10. CASE mid = [old EXCEPT ![w].status = "closed"]
    <3>1. Ledger!Close(w)
      BY <2>8, <2>10 DEF Ledger!Close
    <3> QED BY <2>1, <3>1 DEF Ledger!Next
  <2>11. ASSUME NEW x \in Nat, mid = [old EXCEPT ![w].count = x], mid[w].count = x
         PROVE  Ledger!Next
    <3>1. w \in DOMAIN store'.loops /\ store'.loops[w].count = x
      BY <2>1, <2>2, <2>5, <2>6, <2>9, <2>11
    <3>2. Ledger!Count(w, x)
      BY <2>8, <2>11 DEF Ledger!Count
    <3> QED BY <2>1, <3>1, <3>2 DEF Ledger!Next
  <2> QED BY <2>4, <2>10, <2>11
<1> QED BY <1>1, <1>2, <1>3 DEF ApplyDecision

\* Where there is a flock the store is one list that commands change one at a time,
\* each adding or changing one loop, however many sessions read it, write it back
\* and die in between; a uuid is never given twice, not even across resets.
THEOREM OneLedger == Flock => (Spec => ImplementsLedger)
<1> SUFFICES ASSUME Flock PROVE Spec => ImplementsLedger
  OBVIOUS
<1>1. Init => Ledger!Init
  BY DEF Init, EmptyStore, Ledger!Init, Ledger!Increasing
<1>2. ASSUME Identity, [Next]_vars PROVE [Ledger!Next]_(Ledger!vars)
  <2> USE DEF Identity
  <2>1. ASSUME NEW p \in Proc, AddLoop(p) PROVE Ledger!Next
    BY <1>2, <2>1, AddIsAdd
  <2>2. ASSUME NEW p \in Proc, ApplyDecision(p) PROVE Ledger!Next \/ UNCHANGED Ledger!vars
    BY <1>2, <2>2, DecisionIsOne
  <2>3. CASE Reset
    BY <2>3 DEF Reset, EmptyStore, Ledger!Next, Ledger!Delete
  <2>4. ASSUME NEW p \in Proc,
               \/ BeginAdd(p) \/ Acquire(p) \/ Survey(p) \/ LogDecision(p) \/ Quit(p) \/ Crash(p)
               \/ \E l \in seen[p], d \in Decision : Decide(p, l, d)
        PROVE  UNCHANGED Ledger!vars
    BY <2>4 DEF BeginAdd, Acquire, Survey, LogDecision, Quit, Crash, Decide, Ledger!vars
  <2>5. CASE UNCHANGED vars
    BY <2>5 DEF vars, Ledger!vars
  <2> QED BY <1>2, <2>1, <2>2, <2>3, <2>4, <2>5 DEF Next, Step
<1> QED BY <1>1, <1>2, Identities, PTL DEF Spec, ImplementsLedger
=============================================================================
