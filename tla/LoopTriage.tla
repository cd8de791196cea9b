----------------------------- MODULE LoopTriage -----------------------------
(***************************************************************************)
(* Follow-up loops and their triage: the loop store (scripts/loop_store.py,*)
(* a read-modify-write of loops.json under a flock), the triage sessions   *)
(* that survey it without the lock, decide and then write back             *)
(* (skills/triage, scripts/triage_helper.py), the append-only triage log,  *)
(* and the join of both that lens_tuning.py reports on.                    *)
(*                                                                         *)
(* uuid4 is taken never to repeat.  A loop's own identity, which the code  *)
(* does not have before it mints a uuid, is the ghost field who.           *)
(***************************************************************************)
EXTENDS Integers, Sequences, FiniteSets

CONSTANTS
  Proc,        \* sessions that use the plugin at the same time
  Triagers,    \* those of them that run the triage skill
  NoProc,
  Flock,       \* fcntl exists
  MaxLoops,    \* bound: loops ever added, the legacy one included
  MaxResets,   \* bound: how often loops.json is deleted
  MaxRecords   \* bound: complete lines of triage-log.jsonl

Decision == {"real-defect", "not-a-defect", "still-unclear"}
NoUuid == 0
HardCap == 3

Loop == [id : Nat \ {0}, uuid : Nat, who : Nat \ {0}, status : {"open", "closed"},
         count : Nat]
Store == [loops : Seq(Loop), next : Nat \ {0}]
LogRecord == [id : Nat \ {0}, uuid : Nat, who : Nat \ {0}, dec : Decision]

EmptyStore == [loops |-> <<>>, next |-> 1]
NoCall == [do |-> "none", on |-> 0, uuid |-> NoUuid, who |-> 0, count |-> 0]
Call == [do : Decision \cup {"add", "none"}, on : Nat, uuid : Nat, who : Nat,
         count : Nat]

ASSUME LoopAssumption ==
  /\ NoProc \notin Proc
  /\ Triagers \subseteq Proc
  /\ Flock \in BOOLEAN
  /\ MaxLoops \in Nat /\ MaxResets \in Nat /\ MaxRecords \in Nat

VARIABLES
  store,    \* loops.json
  log,      \* the lines of triage-log.jsonl that parse
  torn,     \* the last line of triage-log.jsonl lacks its end
  lock,     \* who holds loops.lock
  pc,
  copy,     \* the store as a call has read it
  call,     \* the call each session is making
  seen,     \* the open loops as a triage session has read them
  born, minted, resets   \* loops, uuids and resets so far

vars == <<store, log, torn, lock, pc, copy, call, seen, born, minted, resets>>

-----------------------------------------------------------------------------
(* The store *)

Loops(s) == {s.loops[i] : i \in DOMAIN s.loops}

\* _ensure_uuids: loops without a uuid get fresh ones, the i-th the m+i-th.
Backfilled(loops, m) ==
  [i \in DOMAIN loops |->
     IF loops[i].uuid = NoUuid THEN [loops[i] EXCEPT !.uuid = m + i] ELSE loops[i]]

Spent(loops) == IF \E i \in DOMAIN loops : loops[i].uuid = NoUuid THEN Len(loops) ELSE 0

\* close_loop and update_triage change the first loop with the id.
First(s, id) ==
  {i \in DOMAIN s.loops : s.loops[i].id = id /\ \A k \in 1 .. i - 1 : s.loops[k].id # id}

Closed(l) == [l EXCEPT !.status = "closed"]
Counted(l, n) == [l EXCEPT !.count = n]

Init ==
  /\ \E d \in Decision \cup {"none"} :
       \* A store and a log from before uuids: one loop, triaged or not.
       LET legacy == [id |-> 1, uuid |-> NoUuid, who |-> 1,
                      status |-> IF d = "not-a-defect" THEN "closed" ELSE "open",
                      count |-> IF d = "still-unclear" THEN 1 ELSE 0]
       IN \/ /\ store = [loops |-> <<legacy>>, next |-> 2]
             /\ log = IF d = "none" THEN <<>>
                      ELSE <<[id |-> 1, uuid |-> NoUuid, who |-> 1, dec |-> d]>>
             /\ born = 1
          \/ d = "none" /\ store = EmptyStore /\ log = <<>> /\ born = 0
  /\ torn = FALSE
  /\ lock = NoProc
  /\ pc = [p \in Proc |-> "idle"]
  /\ copy = [p \in Proc |-> EmptyStore]
  /\ call = [p \in Proc |-> NoCall]
  /\ seen = [p \in Proc |-> {}]
  /\ minted = 0
  /\ resets = 0

\* A session asks for add_loop.
BeginAdd(p) ==
  /\ pc[p] = "idle" /\ born < MaxLoops
  /\ pc' = [pc EXCEPT ![p] = "wait"]
  /\ call' = [call EXCEPT ![p] = [NoCall EXCEPT !.do = "add"]]
  /\ UNCHANGED <<store, log, torn, lock, copy, seen, born, minted, resets>>

\* Bug: nobody waits for the lock.
Acquire_Unlocked(p) ==
  /\ pc[p] = "wait"
  /\ lock' = IF Flock THEN p ELSE lock
  /\ copy' = [copy EXCEPT ![p] = store]
  /\ pc' = [pc EXCEPT ![p] = "write"]
  /\ UNCHANGED <<store, log, torn, call, seen, born, minted, resets>>

\* _locked, and the read that opens every call.
Acquire(p) ==
  /\ pc[p] = "wait"
  /\ Flock => lock = NoProc
  /\ lock' = IF Flock THEN p ELSE lock
  /\ copy' = [copy EXCEPT ![p] = store]
  /\ pc' = [pc EXCEPT ![p] = "write"]
  /\ UNCHANGED <<store, log, torn, call, seen, born, minted, resets>>

\* The call is over: the lock is released.
Release(p, to) ==
  /\ lock' = IF lock = p THEN NoProc ELSE lock
  /\ pc' = [pc EXCEPT ![p] = to]
  /\ copy' = [copy EXCEPT ![p] = EmptyStore]

AddLoop(p) ==
  /\ pc[p] = "write" /\ call[p].do = "add"
  /\ born < MaxLoops
  /\ LET old == copy[p]
         m   == minted + Spent(old.loops)
         new == [id |-> old.next, uuid |-> m + 1, who |-> born + 1,
                 status |-> "open", count |-> 0]
     IN /\ store' = [loops |-> Append(Backfilled(old.loops, minted), new),
                     next |-> old.next + 1]
        /\ minted' = m + 1
  /\ born' = born + 1
  /\ call' = [call EXCEPT ![p] = NoCall]
  /\ Release(p, "idle")
  /\ UNCHANGED <<log, torn, seen, resets>>

\* Bug: the count is not advanced.
NewCount_Same(c) == c.count

\* "increment triage_count": update-triage <id> --count <N+1>, N as surveyed.
NewCount(c) == c.count + 1

Changed(l, c) == IF c.do = "not-a-defect" THEN Closed(l) ELSE Counted(l, NewCount(c))

\* close_loop and update_triage, for a decision of a triage session; nothing is
\* written when no loop has the id.
ApplyDecision(p) ==
  /\ pc[p] = "write" /\ call[p].do # "add"
  /\ IF First(copy[p], call[p].on) = {}
       THEN UNCHANGED <<store, minted>>
       ELSE \E i \in First(copy[p], call[p].on) :
              /\ store' = [loops |-> Backfilled(
                              [copy[p].loops EXCEPT ![i] = Changed(@, call[p])], minted),
                            next |-> copy[p].next]
              /\ minted' = minted + Spent(copy[p].loops)
  /\ Release(p, "log")
  /\ UNCHANGED <<log, torn, call, seen, born, resets>>

-----------------------------------------------------------------------------
(* A triage session *)

\* The session reads the open loops without the lock.
Survey(p) ==
  /\ p \in Triagers
  /\ pc[p] = "idle"
  /\ pc' = [pc EXCEPT ![p] = "triage"]
  /\ seen' = [seen EXCEPT ![p] = {l \in Loops(store) : l.status = "open"}]
  /\ UNCHANGED <<store, log, torn, lock, copy, call, born, minted, resets>>

MustDecide(l) == l.count >= HardCap

\* Bug: the decision goes to the log and not to the store.
Decide_LogOnly(p, l, d) ==
  /\ pc[p] = "triage"
  /\ l \in seen[p]
  /\ MustDecide(l) => d # "still-unclear"
  /\ seen' = [seen EXCEPT ![p] = @ \ {l}]
  /\ call' = [call EXCEPT ![p] =
       [do |-> d, on |-> l.id, uuid |-> l.uuid, who |-> l.who, count |-> l.count]]
  /\ pc' = [pc EXCEPT ![p] = "log"]
  /\ UNCHANGED <<store, log, torn, lock, copy, born, minted, resets>>

\* The operator confirms a decision about one of the loops surveyed.  A defect
\* found real leaves the store alone.
Decide(p, l, d) ==
  /\ pc[p] = "triage"
  /\ l \in seen[p]
  /\ MustDecide(l) => d # "still-unclear"
  /\ seen' = [seen EXCEPT ![p] = @ \ {l}]
  /\ call' = [call EXCEPT ![p] =
       [do |-> d, on |-> l.id, uuid |-> l.uuid, who |-> l.who, count |-> l.count]]
  /\ pc' = [pc EXCEPT ![p] = IF d = "real-defect" THEN "log" ELSE "wait"]
  /\ UNCHANGED <<store, log, torn, lock, copy, born, minted, resets>>

\* The uuid a record carries is copied from loops.json, as surveyed or as it is.
Uuids(c) == {c.uuid} \cup {store.loops[i].uuid : i \in First(store, c.on)}

\* log_decision.  A line appended to a torn one is lost with it.
LogDecision(p) ==
  /\ pc[p] = "log"
  /\ Len(log) < MaxRecords
  /\ IF torn
       THEN UNCHANGED log
       ELSE \E u \in Uuids(call[p]) :
              log' = Append(log, [id |-> call[p].on, uuid |-> u, who |-> call[p].who,
                                  dec |-> call[p].do])
  /\ torn' = FALSE
  /\ pc' = [pc EXCEPT ![p] = "triage"]
  /\ call' = [call EXCEPT ![p] = NoCall]
  /\ UNCHANGED <<store, lock, copy, seen, born, minted, resets>>

\* The rest of the rows is skipped.
Quit(p) ==
  /\ pc[p] = "triage"
  /\ pc' = [pc EXCEPT ![p] = "idle"]
  /\ seen' = [seen EXCEPT ![p] = {}]
  /\ UNCHANGED <<store, log, torn, lock, copy, call, born, minted, resets>>

\* A session dies, perhaps in the middle of the line it appends.
Crash(p) ==
  /\ pc[p] # "idle"
  /\ torn' \in IF pc[p] = "log" THEN {torn, TRUE} ELSE {torn}
  /\ Release(p, "idle")
  /\ call' = [call EXCEPT ![p] = NoCall]
  /\ seen' = [seen EXCEPT ![p] = {}]
  /\ UNCHANGED <<store, log, born, minted, resets>>

\* Somebody deletes loops.json between sessions; the log survives.
Reset ==
  /\ resets < MaxResets
  /\ \A p \in Proc : pc[p] = "idle"
  /\ store # EmptyStore
  /\ store' = EmptyStore
  /\ resets' = resets + 1
  /\ UNCHANGED <<log, torn, lock, pc, copy, call, seen, born, minted>>

Step(p) ==
  \/ BeginAdd(p) \/ Acquire(p) \/ AddLoop(p) \/ ApplyDecision(p)
  \/ Survey(p) \/ LogDecision(p) \/ Quit(p) \/ Crash(p)
  \/ \E l \in seen[p], d \in Decision : Decide(p, l, d)

Next == Reset \/ \E p \in Proc : Step(p)

Spec == Init /\ [][Next]_vars

-----------------------------------------------------------------------------
(* The join of lens_tuning *)

\* Bug: a record that carries a uuid is found by its integer id as well.
Joined_ById(l) ==
  {i \in DOMAIN log : \/ log[i].uuid # NoUuid /\ log[i].uuid = l.uuid
                      \/ log[i].id = l.id}

\* The records that reach a loop: by uuid, or by id when they carry none.
Joined(l) ==
  {i \in DOMAIN log : \/ log[i].uuid # NoUuid /\ log[i].uuid = l.uuid
                      \/ log[i].uuid = NoUuid /\ log[i].id = l.id}

\* The one appended last.
Attributed(l) == {i \in Joined(l) : \A k \in Joined(l) : k <= i}

-----------------------------------------------------------------------------
(* Properties *)

\* Types; ids are unique and below next; under flock a call that is about to
\* write holds the lock.
TypeOK ==
  /\ store \in Store
  /\ log \in Seq(LogRecord)
  /\ torn \in BOOLEAN
  /\ lock \in Proc \cup {NoProc}
  /\ pc \in [Proc -> {"idle", "wait", "write", "triage", "log"}]
  /\ copy \in [Proc -> Store]
  /\ call \in [Proc -> Call]
  /\ seen \in [Proc -> SUBSET Loop]
  /\ born \in Nat /\ minted \in Nat /\ resets \in Nat
  /\ \A l \in Loops(store) : l.id < store.next
  /\ \A i, k \in DOMAIN store.loops : store.loops[i].id = store.loops[k].id => i = k
  /\ Flock => \A p \in Proc : pc[p] = "write" => lock = p

\* What of a store stays in a later one.
Keeps(s, t) ==
  \A i \in DOMAIN s.loops :
    /\ i \in DOMAIN t.loops
    /\ t.loops[i].who = s.loops[i].who
    /\ t.loops[i].id = s.loops[i].id
    /\ s.loops[i].uuid # NoUuid => t.loops[i].uuid = s.loops[i].uuid
    /\ s.loops[i].status = "closed" => t.loops[i].status = "closed"

\* What two sessions write one after the other adds up: as long as loops.json
\* is there, no loop vanishes, a closed loop stays closed and a uuid once minted
\* never changes, whoever wrote last.
KeptStep == resets' = resets => Keeps(store, store')

NothingLost == [][KeptStep]_vars

\* A decision is on record only if the store reflects it: a crash between the
\* two may lose the record, never the effect.
LoggedIsApplied ==
  \A i \in DOMAIN log, l \in Loops(store) :
    log[i].who = l.who /\ log[i].dec = "not-a-defect" => l.status = "closed"

Unclear(w) == {i \in DOMAIN log : log[i].who = w /\ log[i].dec = "still-unclear"}

\* With one session triaging at a time every unclear decision is counted, so
\* the cap on them binds, crashes or not.
UnclearCounted ==
  \A l \in Loops(store) : Cardinality(Unclear(l.who)) <= l.count /\ l.count <= HardCap

\* The decision a loop is credited with is its own latest one, across the two
\* ways a record is found, unless a record without a uuid stands in its place.
JoinOwnLatest ==
  \A l \in Loops(store) : \A i \in Attributed(l) :
    \/ log[i].who # l.who /\ log[i].uuid = NoUuid
    \/ log[i].who = l.who /\ \A k \in DOMAIN log : log[k].who = l.who => k <= i
=============================================================================
