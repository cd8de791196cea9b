------------------------- MODULE MemoryStoreProofs -------------------------
(***************************************************************************)
(* Proofs about MemoryStore: type correctness with the lock discipline,    *)
(* the numbering of the journal, the invariants that let a reader trust    *)
(* MEMORY.md without the lock, and that no call holds the lock for ever.   *)
(***************************************************************************)
EXTENDS MemoryLegacy, SequenceTheorems, FiniteSetTheorems, TLAPS

-----------------------------------------------------------------------------
(* The journal is ordered, so its last record carries the greatest number *)

\* LastSeq is what it says it is.
LEMMA LastSeqOfSorted ==
  ASSUME NEW j \in Seq(JournalEntry), Sorted(j)
  PROVE  /\ LastSeq(j) \in Nat
         /\ \A e \in Entries(j) : e.seq <= LastSeq(j)
         /\ IF j = <<>> THEN LastSeq(j) = 0 ELSE LastSeq(j) = j[Len(j)].seq
<1>1. CASE j = <<>>
  BY <1>1 DEF LastSeq, Entries
<1>2. CASE j # <<>>
  <2> DEFINE S == {e.seq : e \in Entries(j)}
             P(s) == \A e \in Entries(j) : e.seq <= s
  <2>1. Len(j) \in DOMAIN j /\ DOMAIN j = 1 .. Len(j)
    BY <1>2
  <2>2. j[Len(j)].seq \in S
    BY <2>1 DEF Entries
  <2>3. P(j[Len(j)].seq)
    <3> SUFFICES ASSUME NEW i \in DOMAIN j
                 PROVE  j[i].seq <= j[Len(j)].seq
      BY DEF Entries
    <3>0. j[i] \in JournalEntry /\ j[Len(j)] \in JournalEntry
      BY <2>1
    <3>1. j[i].seq \in Nat /\ j[Len(j)].seq \in Nat
      BY <3>0 DEF JournalEntry
    <3>2. i = Len(j) \/ i < Len(j)
      BY <2>1
    <3> QED BY <2>1, <3>1, <3>2 DEF Sorted
  <2>4. LastSeq(j) \in S /\ P(LastSeq(j))
    BY <1>2, <2>2, <2>3 DEF LastSeq
  <2>5. S \subseteq Nat
    <3>1. \A i \in DOMAIN j : j[i] \in JournalEntry
      BY <2>1
    <3> QED BY <3>1 DEF Entries, JournalEntry
  <2>6. LastSeq(j) = j[Len(j)].seq
    <3>1. \A s \in S : s <= LastSeq(j) /\ s <= j[Len(j)].seq
      BY <2>3, <2>4
    <3>2. LastSeq(j) \in S /\ LastSeq(j) \in Nat /\ j[Len(j)].seq \in Nat
      BY <2>2, <2>4, <2>5
    <3> HIDE DEF S, P
    <3>3. LastSeq(j) <= j[Len(j)].seq /\ j[Len(j)].seq <= LastSeq(j)
      BY <2>2, <3>1, <3>2
    <3> QED BY <3>2, <3>3
  <2> QED BY <1>2, <2>4, <2>5, <2>6
<1> QED BY <1>1, <1>2

\* Retention keeps a journal a journal, in order.
LEMMA TruncatedSorted ==
  ASSUME NEW j \in Seq(JournalEntry), Sorted(j), NEW k \in Truncated(j)
  PROVE  k \in Seq(JournalEntry) /\ Sorted(k)
<1>1. PICK i \in DOMAIN j : k = SubSeq(j, i, Len(j))
  BY DEF Truncated
<1>2. i \in 1 .. Len(j) /\ Len(j) \in Nat
  BY <1>1
<1>3. /\ k \in Seq(JournalEntry)
      /\ Len(k) = Len(j) - i + 1
      /\ \A m \in 1 .. Len(k) : k[m] = j[i + m - 1]
  BY <1>1, <1>2
<1>4. Sorted(k)
  <2> SUFFICES ASSUME NEW a \in DOMAIN k, NEW b \in DOMAIN k, a < b
               PROVE  k[a].seq < k[b].seq
    BY DEF Sorted
  <2>1. a \in 1 .. Len(k) /\ b \in 1 .. Len(k)
    BY <1>3
  <2>2. i + a - 1 \in DOMAIN j /\ i + b - 1 \in DOMAIN j /\ i + a - 1 < i + b - 1
    BY <1>2, <1>3, <2>1
  <2> QED BY <1>3, <2>1, <2>2 DEF Sorted
<1> QED BY <1>3, <1>4

\* The commit flag changes no number.
LEMMA FlippedSorted ==
  ASSUME NEW j \in Seq(JournalEntry), Sorted(j), NEW s
  PROVE  Flipped(j, s) \in Seq(JournalEntry) /\ Sorted(Flipped(j, s))
<1> DEFINE f == Flipped(j, s)
<1>1. DOMAIN f = DOMAIN j /\ DOMAIN j = 1 .. Len(j) /\ Len(j) \in Nat
  BY DEF Flipped
<1>2. ASSUME NEW i \in DOMAIN j
      PROVE  f[i] \in JournalEntry /\ f[i].seq = j[i].seq
  <2>1. j[i] \in JournalEntry
    BY <1>1
  <2>2. f[i] = IF j[i].seq = s THEN [j[i] EXCEPT !.flag = "done"] ELSE j[i]
    BY DEF Flipped
  <2> QED BY <2>1, <2>2 DEF JournalEntry, Flag
<1>3. f \in Seq(JournalEntry)
  <2>1. f = [i \in 1 .. Len(j) |-> f[i]]
    BY <1>1 DEF Flipped
  <2>2. \A i \in 1 .. Len(j) : f[i] \in JournalEntry
    BY <1>1, <1>2
  <2> HIDE DEF f
  <2>3. f \in [1 .. Len(j) -> JournalEntry]
    BY <2>1, <2>2
  <2> QED BY <1>1, <2>3
<1> HIDE DEF f
<1>4. Sorted(f)
  BY <1>1, <1>2 DEF Sorted
<1> QED BY <1>3, <1>4 DEF f

\* A new record gets the next number.
LEMMA AppendSorted ==
  ASSUME NEW j \in Seq(JournalEntry), Sorted(j),
         NEW e \in JournalEntry, e.seq = LastSeq(j) + 1
  PROVE  Append(j, e) \in Seq(JournalEntry) /\ Sorted(Append(j, e))
<1> DEFINE a == Append(j, e)
<1>1. a \in Seq(JournalEntry) /\ Len(a) = Len(j) + 1 /\ Len(j) \in Nat
  OBVIOUS
<1>2. \A i \in 1 .. Len(j) : a[i] = j[i]
  OBVIOUS
<1>3. a[Len(j) + 1] = e
  OBVIOUS
<1>4. DOMAIN j = 1 .. Len(j) /\ DOMAIN a = 1 .. Len(j) + 1
  BY <1>1
<1> HIDE DEF a
<1>5. \A i \in 1 .. Len(j) : a[i].seq \in Nat /\ a[i].seq < e.seq
  <2> SUFFICES ASSUME NEW i \in 1 .. Len(j)
               PROVE  a[i].seq \in Nat /\ a[i].seq < e.seq
    OBVIOUS
  <2>1. j[i] \in JournalEntry /\ j[i] \in Entries(j)
    BY <1>4 DEF Entries
  <2>2. j[i].seq <= LastSeq(j) /\ LastSeq(j) \in Nat
    BY <2>1, LastSeqOfSorted
  <2> QED BY <1>2, <2>1, <2>2 DEF JournalEntry
<1>6. Sorted(a)
  <2> SUFFICES ASSUME NEW i \in DOMAIN a, NEW k \in DOMAIN a, i < k
               PROVE  a[i].seq < a[k].seq
    BY DEF Sorted
  <2>1. i \in 1 .. Len(j)
    BY <1>1, <1>4
  <2>2. CASE k = Len(j) + 1
    BY <1>3, <1>5, <2>1, <2>2
  <2>3. CASE k # Len(j) + 1
    <3>1. k \in 1 .. Len(j)
      BY <1>1, <1>4, <2>3
    <3> QED BY <1>2, <1>4, <2>1, <3>1 DEF Sorted
  <2> QED BY <2>2, <2>3
<1> QED BY <1>1, <1>6 DEF a

-----------------------------------------------------------------------------
(* Moves of the control state *)

\* The holder of the lock goes on with its call: nobody else is in the
\* critical section.
LEMMA MoveLocked ==
  ASSUME TypeOK, NEW p \in Proc, pc[p] \in LockedAt, NEW to \in LockedAt,
         pc' = [pc EXCEPT ![p] = to], lock' = lock, op' = op
  PROVE  /\ pc' \in [Proc -> LockedAt \cup FreeAt]
         /\ op' \in [Proc -> AllOps \cup {"none"}]
         /\ lock' \in Proc \cup {NoProc}
         /\ \A q \in Proc : pc'[q] \in LockedAt <=> lock' = q
         /\ pc'[p] = to
         /\ \A q \in Proc : q # p => pc'[q] \notin LockedAt
BY DEF TypeOK

\* The holder of the lock ends its call: nobody is in the critical section.
LEMMA MoveOut ==
  ASSUME TypeOK, NEW p \in Proc, pc[p] \in LockedAt, Release(p)
  PROVE  /\ pc' \in [Proc -> LockedAt \cup FreeAt]
         /\ op' \in [Proc -> AllOps \cup {"none"}]
         /\ lock' \in Proc \cup {NoProc}
         /\ \A q \in Proc : pc'[q] \in LockedAt <=> lock' = q
         /\ \A q \in Proc : pc'[q] \notin LockedAt
         /\ work' \in Work
BY ConstAssumption DEF TypeOK, Release, Return, NoWork, Work, FreeAt, LockedAt, ConstAssumption

\* A process without the lock moves between places where it needs none.
LEMMA MoveFree ==
  ASSUME TypeOK, NEW p \in Proc, pc[p] \in FreeAt, NEW to \in FreeAt,
         NEW o \in AllOps \cup {"none"},
         pc' = [pc EXCEPT ![p] = to], lock' = lock, op' = [op EXCEPT ![p] = o]
  PROVE  /\ pc' \in [Proc -> LockedAt \cup FreeAt]
         /\ op' \in [Proc -> AllOps \cup {"none"}]
         /\ lock' \in Proc \cup {NoProc}
         /\ \A q \in Proc : pc'[q] \in LockedAt <=> lock' = q
         /\ \A q \in Proc : pc'[q] \in LockedAt => pc'[q] = pc[q]
BY DEF TypeOK, FreeAt, LockedAt

\* A record is an entry of the journal, with the next number.
LEMMA RecordType ==
  ASSUME TypeOK, Sorted(journal),
         NEW o \in ForwardOps \cup {"rollback"}, NEW n \in Name, NEW pre \in Value,
         NEW post \in Value, NEW target \in Nat, NEW flag \in Flag,
         NEW restore \in Value \cup {NoRestore}
  PROVE  /\ Record(o, n, pre, post, target, flag, restore) \in JournalEntry
         /\ Record(o, n, pre, post, target, flag, restore).seq = LastSeq(journal) + 1
<1>1. LastSeq(journal) \in Nat
  BY LastSeqOfSorted DEF TypeOK
<1> QED BY <1>1 DEF Record, JournalEntry

\* A fact file changes to a value.
LEMMA SetFactType ==
  ASSUME TypeOK, NEW n \in Name, NEW v \in Value, SetFact(n, v)
  PROVE  facts' \in [Name -> Value] /\ newer' \subseteq Name
BY DEF TypeOK, SetFact

\* The dangling intents are entries of the journal, told apart by number.
LEMMA DanglersType ==
  ASSUME TypeOK, Sorted(journal)
  PROVE  /\ Danglers(journal) \subseteq JournalEntry
         /\ \A e, f \in Danglers(journal) : e.seq = f.seq => e = f
<1>1. DOMAIN journal = 1 .. Len(journal) /\ Len(journal) \in Nat
  BY DEF TypeOK
<1>2. \A i \in DOMAIN journal : journal[i] \in JournalEntry
  BY <1>1 DEF TypeOK
<1>3. \A i, k \in DOMAIN journal : journal[i].seq = journal[k].seq => i = k
  <2> SUFFICES ASSUME NEW i \in DOMAIN journal, NEW k \in DOMAIN journal,
                      journal[i].seq = journal[k].seq
               PROVE  i = k
    OBVIOUS
  <2>1. journal[i].seq \in Nat /\ journal[k].seq \in Nat
    BY <1>2 DEF JournalEntry
  <2>2. ~(i < k) /\ ~(k < i)
    BY <2>1 DEF Sorted
  <2> QED BY <1>1, <2>2
<1> QED BY <1>2, <1>3 DEF Danglers, Entries

\* Marking a record committed keeps the journal a journal.
LEMMA MarkCommittedSorted ==
  ASSUME TypeOK, Sorted(journal), NEW s, MarkCommitted(s)
  PROVE  journal' \in Seq(JournalEntry) /\ Sorted(journal')
<1>1. journal \in Seq(JournalEntry)
  BY DEF TypeOK
<1>2. Flipped(journal, s) \in Seq(JournalEntry) /\ Sorted(Flipped(journal, s))
  BY <1>1, FlippedSorted
<1>3. \/ journal' = Flipped(journal, s)
      \/ journal' \in Truncated(Flipped(journal, s))
  BY DEF MarkCommitted
<1>4. CASE journal' = Flipped(journal, s)
  BY <1>2, <1>4
<1>5. CASE journal' \in Truncated(Flipped(journal, s))
  BY <1>2, <1>5, TruncatedSorted
<1> QED BY <1>3, <1>4, <1>5

-----------------------------------------------------------------------------
(* Type correctness *)

\* What the locals of the lock holder satisfy beyond their types: an intent
\* about to be journaled has the next number.
HolderTyped(p) ==
  /\ pc[p] \in {"intent", "apply"} => work.intent \in JournalEntry
  /\ pc[p] = "intent" => work.intent.seq = LastSeq(journal) + 1

TodoUnique == \A e, f \in work.todo : e.seq = f.seq => e = f

TypeInv ==
  /\ TypeOK
  /\ Sorted(journal)
  /\ TodoUnique
  /\ \A p \in Proc : pc[p] \in LockedAt => HolderTyped(p)

LEMMA TypeInvInit == Init => TypeInv
<1> SUFFICES ASSUME Init PROVE TypeInv
  OBVIOUS
<1>1. TypeOK
  <2>0. facts \in [Name -> Value]
    BY DEF Init, Value
  <2>1. /\ index \in [Name -> Value] \cup {NoIndex}
        /\ newer \subseteq Name
        /\ lock \in Proc \cup {NoProc}
        /\ edits \in Nat
    BY DEF Init
  <2>5. dirty \in BOOLEAN /\ migrating \in BOOLEAN
    BY Zenon DEF Init
  <2>6. journal \in Seq(JournalEntry)
    BY EmptySeq DEF Init
  <2>2. pc \in [Proc -> LockedAt \cup FreeAt] /\ op \in [Proc -> AllOps \cup {"none"}]
    BY DEF Init, FreeAt
  <2>3. work \in Work
    BY DEF Init, NoWork, Work
  <2>4. \A p \in Proc : pc[p] \in LockedAt <=> lock = p
    BY ConstAssumption DEF Init, LockedAt, ConstAssumption
  <2> QED BY <2>0, <2>1, <2>2, <2>3, <2>4, <2>5, <2>6 DEF TypeOK
<1>2. Sorted(journal) /\ TodoUnique
  BY DEF Init, Sorted, TodoUnique, NoWork
<1>3. \A p \in Proc : pc[p] \notin LockedAt
  BY DEF Init, LockedAt
<1> QED BY <1>1, <1>2, <1>3 DEF TypeInv

\* What the single-phase version left is a journal of numbered mutations.
LEMMA LegacyJournal ==
  ASSUME NEW j \in LegacyJournals
  PROVE  /\ j \in Seq(JournalEntry) /\ Sorted(j) /\ Len(j) <= MaxLegacy
         /\ \A i \in DOMAIN j :
              /\ j[i].seq = i /\ j[i].op \in ForwardOps /\ j[i].flag = "none"
              /\ j[i].pre # j[i].post
<1>1. PICK k \in 0 .. MaxLegacy : j \in [1 .. k -> UNION {LegacyEntry(i) : i \in 1 .. k}]
  BY DEF LegacyJournals
<1>2. k \in Nat /\ k <= MaxLegacy /\ DOMAIN j = 1 .. k
  BY <1>1, LegacyAssumption, ConstAssumption DEF LegacyAssumption, ConstAssumption
<1>3. \A i \in DOMAIN j : j[i].seq = i
  BY DEF LegacyJournals
<1>4. ASSUME NEW i \in DOMAIN j
      PROVE  /\ j[i] \in JournalEntry /\ j[i].op \in ForwardOps /\ j[i].flag = "none"
             /\ j[i].pre # j[i].post
  <2>1. PICK s \in 1 .. k : j[i] \in LegacyEntry(s)
    BY <1>1, <1>2
  <2>2. j[i] \in [seq : {s}, op : ForwardOps, name : Name, pre : Value, post : Value,
                  target : {NoTarget}, flag : {"none"}, restore : {NoRestore}]
    BY <2>1 DEF LegacyEntry
  <2>3. s \in Nat /\ NoTarget \in Nat /\ "none" \in Flag
    BY <1>2 DEF NoTarget, Flag
  <2>4. j[i] \in JournalEntry
    BY <2>2, <2>3 DEF JournalEntry
  <2>5. j[i].pre # j[i].post
    <3>1. \/ j[i].pre = Absent /\ j[i].post # Absent
          \/ j[i].pre # Absent /\ j[i].post = Absent
          \/ /\ j[i].pre # Absent /\ j[i].pre.status = "pending"
             /\ j[i].post = [j[i].pre EXCEPT !.status = "confirmed"]
      BY <2>1 DEF LegacyEntry
    <3>2. CASE /\ j[i].pre # Absent /\ j[i].pre.status = "pending"
               /\ j[i].post = [j[i].pre EXCEPT !.status = "confirmed"]
      <4>1. j[i].pre \in Content
        BY <2>2, <3>2 DEF Value
      <4>2. [j[i].pre EXCEPT !.status = "confirmed"].status = "confirmed"
        BY <4>1 DEF Content
      <4> QED BY <3>2, <4>2
    <3> QED BY <3>1, <3>2
  <2> QED BY <2>2, <2>4, <2>5
<1>5. j \in Seq(JournalEntry) /\ Len(j) = k
  <2>1. j \in [1 .. k -> JournalEntry]
    BY <1>1, <1>2, <1>4
  <2> QED BY <1>2, <2>1, SeqDef, LenProperties
<1>6. Sorted(j)
  BY <1>2, <1>3 DEF Sorted
<1> QED BY <1>2, <1>3, <1>4, <1>5, <1>6

LEMMA LegacyTypeInvInit == LegacyInit => TypeInv
<1> SUFFICES ASSUME LegacyInit PROVE TypeInv
  OBVIOUS
<1>1. journal \in Seq(JournalEntry) /\ Sorted(journal)
  BY LegacyJournal DEF LegacyInit, AtRest
<1>2. /\ facts \in [Name -> Value]
      /\ index \in [Name -> Value] \cup {NoIndex}
      /\ newer \subseteq Name
      /\ lock \in Proc \cup {NoProc}
      /\ edits \in Nat
  BY DEF LegacyInit, AtRest
<1>3. dirty \in BOOLEAN /\ migrating \in BOOLEAN
  BY Zenon DEF LegacyInit, AtRest
<1>4. pc \in [Proc -> LockedAt \cup FreeAt] /\ op \in [Proc -> AllOps \cup {"none"}]
  BY DEF LegacyInit, AtRest, FreeAt
<1>5. work \in Work /\ TodoUnique
  BY DEF LegacyInit, AtRest, NoWork, Work, TodoUnique
<1>6. \A p \in Proc : pc[p] \notin LockedAt /\ lock # p
  BY ConstAssumption DEF LegacyInit, AtRest, LockedAt, ConstAssumption
<1> QED BY <1>1, <1>2, <1>3, <1>4, <1>5, <1>6 DEF TypeInv, TypeOK

DiskTyped ==
  /\ facts \in [Name -> Value]
  /\ index \in [Name -> Value] \cup {NoIndex}
  /\ newer \subseteq Name
  /\ dirty \in BOOLEAN
  /\ migrating \in BOOLEAN
  /\ journal \in Seq(JournalEntry)
  /\ Sorted(journal)

LEMMA TypeInvDisk == TypeInv => DiskTyped
BY DEF TypeInv, TypeOK, DiskTyped

LEMMA DiskUnchanged ==
  ASSUME TypeInv, UNCHANGED disk
  PROVE  DiskTyped'
BY TypeInvDisk DEF disk, DiskTyped, Sorted

\* A step of the lock holder that ends its call.
LEMMA ReleaseKeepsTypeInv ==
  ASSUME TypeInv, NEW p \in Proc, pc[p] \in LockedAt, Release(p),
         DiskTyped', edits' = edits
  PROVE  TypeInv'
<1>1. TypeOK'
  BY MoveOut DEF TypeInv, TypeOK, DiskTyped
<1>2. TodoUnique'
  BY DEF Release, NoWork, TodoUnique
<1> QED BY <1>1, <1>2, MoveOut DEF TypeInv, DiskTyped

\* A step of the lock holder that goes on.
LEMMA HolderKeepsTypeInv ==
  ASSUME TypeInv, NEW p \in Proc, pc[p] \in LockedAt, NEW to \in LockedAt,
         pc' = [pc EXCEPT ![p] = to], lock' = lock, op' = op,
         DiskTyped', edits' = edits,
         work' \in Work, TodoUnique',
         to \notin {"intent", "apply"} \/ HolderTyped(p)'
  PROVE  TypeInv'
<1>1. TypeOK'
  BY MoveLocked DEF TypeInv, TypeOK, DiskTyped
<1>2. pc'[p] = to
  BY MoveLocked DEF TypeInv
<1>3. HolderTyped(p)'
  BY <1>2 DEF HolderTyped
<1> QED BY <1>1, <1>3, MoveLocked DEF TypeInv, DiskTyped

\* A step of the lock holder that moves on and leaves the locals alone.
LEMMA HolderKeepsWork ==
  ASSUME TypeInv, NEW p \in Proc, pc[p] \in LockedAt,
         NEW to \in LockedAt \ {"intent", "apply"},
         pc' = [pc EXCEPT ![p] = to], lock' = lock, op' = op,
         DiskTyped', edits' = edits, work' = work
  PROVE  TypeInv'
<1>1. work' \in Work /\ TodoUnique'
  BY DEF TypeInv, TypeOK, TodoUnique
<1> QED BY <1>1, HolderKeepsTypeInv

\* A step outside the critical section that leaves the disk and the lock alone.
LEMMA FreeKeepsTypeInv ==
  ASSUME TypeInv, NEW p \in Proc, pc[p] \in FreeAt, NEW to \in FreeAt,
         NEW o \in AllOps \cup {"none"},
         pc' = [pc EXCEPT ![p] = to], op' = [op EXCEPT ![p] = o],
         UNCHANGED <<disk, lock, work, edits>>
  PROVE  TypeInv'
<1>1. TypeOK'
  BY MoveFree DEF TypeInv, TypeOK, disk
<1>2. Sorted(journal)' /\ TodoUnique'
  BY DEF TypeInv, Sorted, TodoUnique, disk
<1>3. ASSUME NEW q \in Proc, pc'[q] \in LockedAt PROVE HolderTyped(q)'
  <2>1. pc'[q] = pc[q] /\ HolderTyped(q)
    BY <1>3, MoveFree DEF TypeInv
  <2> QED BY <2>1 DEF HolderTyped, disk, Oldest, LastSeq, Entries
<1> QED BY <1>1, <1>2, <1>3 DEF TypeInv

\* The intents recovery works on are journal entries.
LEMMA TodoType ==
  ASSUME TypeInv, NEW e \in work.todo
  PROVE  /\ e \in JournalEntry
         /\ e.name \in Name /\ facts[e.name] \in Value
         /\ Resolve(e) \in Work
         /\ work' = Resolve(e) => TodoUnique'
<1>1. work \in Work /\ facts \in [Name -> Value]
  BY DEF TypeInv, TypeOK
<1>2. e \in JournalEntry
  BY <1>1 DEF Work
<1>3. e.name \in Name /\ e.target \in Nat
  BY <1>2 DEF JournalEntry
<1>4. Resolve(e) \in Work
  BY <1>1, <1>3 DEF Resolve, Work
<1>5. Resolve(e).todo \subseteq work.todo
  BY <1>1 DEF Resolve, Work
<1>6. work' = Resolve(e) => TodoUnique'
  BY <1>5 DEF TypeInv, TodoUnique
<1> QED BY <1>1, <1>2, <1>3, <1>4, <1>6

\* Journaling a record with the next number keeps the journal a journal.
LEMMA JournaledSorted ==
  ASSUME TypeOK, Sorted(journal), NEW e \in JournalEntry, e.seq = LastSeq(journal) + 1,
         journal' \in Truncated(Append(journal, e))
  PROVE  journal' \in Seq(JournalEntry) /\ Sorted(journal')
<1>1. journal \in Seq(JournalEntry)
  BY DEF TypeOK
<1>2. Append(journal, e) \in Seq(JournalEntry) /\ Sorted(Append(journal, e))
  BY <1>1, AppendSorted
<1> QED BY <1>2, TruncatedSorted

LEMMA RecoverKeepsTypeInv ==
  ASSUME TypeInv, NEW p \in Proc, RecoverStep(p)
  PROVE  TypeInv'
<1> USE DEF GoTo
<1>0. {"recover", "marker", "redo", "recommit", "auto", "choose", "render"} \subseteq LockedAt
  BY DEF LockedAt
<1>9. TypeOK /\ Sorted(journal) /\ TodoUnique
  BY DEF TypeInv
<1>10. pc \in [Proc -> LockedAt \cup FreeAt]
  BY <1>9 DEF TypeOK
<1>11. pc' = pc /\ pc[p] = "recover" => pc' = [pc EXCEPT ![p] = "recover"]
  BY <1>10
<1>12. UNCHANGED disk => DiskTyped'
  BY DiskUnchanged
<1>13. UNCHANGED <<facts, index, newer, dirty, migrating>>
         /\ journal' \in Seq(JournalEntry) /\ Sorted(journal') => DiskTyped'
  BY TypeInvDisk DEF DiskTyped
<1>14. UNCHANGED <<facts, index, newer, migrating, journal>> /\ MarkDirty => DiskTyped'
  BY TypeInvDisk DEF DiskTyped, Sorted, MarkDirty
<1>1. ASSUME NEW e \in work.todo, RollForward(p, e) PROVE TypeInv'
  <2>1. DiskTyped'
    BY <1>1, <1>9, <1>13, MarkCommittedSorted DEF RollForward
  <2>2. work' \in Work /\ TodoUnique'
    BY <1>1, TodoType DEF RollForward
  <2> QED BY <1>0, <1>1, <1>11, <2>1, <2>2, HolderKeepsTypeInv DEF RollForward
<1>2. ASSUME NEW e \in work.todo, RollBack(p, e) PROVE TypeInv'
  <2>1. DiskTyped'
    BY <1>2, <1>14 DEF RollBack
  <2> QED BY <1>0, <1>2, <2>1, HolderKeepsWork DEF RollBack
<1>3. ASSUME NEW e \in work.todo, WriteMarker(p, e) PROVE TypeInv'
  <2> DEFINE r == Record("rollback", e.name, facts[e.name], facts[e.name], e.seq,
                         "done", NoRestore)
  <2>1. e.name \in Name /\ facts[e.name] \in Value /\ e.seq \in Nat
    BY TodoType DEF JournalEntry
  <2>2. r \in JournalEntry /\ r.seq = LastSeq(journal) + 1
    BY <1>9, <2>1, RecordType DEF Flag
  <2>3. journal' \in Truncated(Append(journal, r))
    BY <1>3 DEF WriteMarker
  <2> HIDE DEF r
  <2>4. DiskTyped'
    BY <1>3, <1>9, <1>13, <2>2, <2>3, JournaledSorted DEF WriteMarker
  <2>5. work' \in Work /\ TodoUnique'
    BY <1>3, TodoType DEF WriteMarker
  <2> QED BY <1>0, <1>3, <2>4, <2>5, HolderKeepsTypeInv DEF WriteMarker
<1>4. ASSUME NEW e \in work.todo, Redo(p, e) PROVE TypeInv'
  <2>1. DiskTyped'
    BY <1>4, <1>14 DEF Redo
  <2> QED BY <1>0, <1>4, <2>1, HolderKeepsWork DEF Redo
<1>5. ASSUME NEW e \in work.todo, RedoFact(p, e) PROVE TypeInv'
  <2>1. e.post \in Value /\ e.name \in Name
    BY <1>5, TodoType DEF JournalEntry
  <2>2. facts' \in [Name -> Value] /\ newer' \subseteq Name
    BY <1>5, <1>9, <2>1, SetFactType DEF RedoFact
  <2>3. DiskTyped'
    BY <1>5, <2>2, TypeInvDisk DEF RedoFact, DiskTyped, Sorted
  <2> QED BY <1>0, <1>5, <2>3, HolderKeepsWork DEF RedoFact
<1>6. ASSUME NEW e \in work.todo, RedoCommit(p, e) PROVE TypeInv'
  <2>1. DiskTyped'
    BY <1>6, <1>9, <1>13, MarkCommittedSorted DEF RedoCommit
  <2>2. work' \in Work /\ TodoUnique'
    BY <1>6, TodoType DEF RedoCommit
  <2> QED BY <1>0, <1>6, <2>1, <2>2, HolderKeepsTypeInv DEF RedoCommit
<1>7. ASSUME NEW e \in work.todo, GiveUp(p, e) PROVE TypeInv'
  <2>1. e.seq \in Nat
    BY TodoType DEF JournalEntry
  <2>2. work' \in Work /\ work'.todo \subseteq work.todo
    BY <1>7, <1>9, <2>1 DEF GiveUp, TypeOK, Work
  <2>3. TodoUnique'
    BY <1>9, <2>2 DEF TodoUnique
  <2> QED BY <1>0, <1>7, <1>11, <1>12, <2>2, <2>3, HolderKeepsTypeInv DEF GiveUp
<1>8. ASSUME Proceed(p) \/ FailClosed(p) \/ Republish(p) \/ NothingToRecover(p)
      PROVE  TypeInv'
  <2>1. DiskTyped' /\ pc[p] = "recover"
    BY <1>8, <1>12 DEF Proceed, FailClosed, Republish, NothingToRecover, Recovered
  <2>2. CASE FailClosed(p) \/ NothingToRecover(p)
    BY <1>0, <2>1, <2>2, ReleaseKeepsTypeInv DEF FailClosed, NothingToRecover
  <2>3. CASE Proceed(p)
    BY <1>0, <2>1, <2>3, HolderKeepsWork DEF Proceed
  <2>4. CASE Republish(p)
    BY <1>0, <2>1, <2>4, HolderKeepsWork DEF Republish
  <2> QED BY <1>8, <2>2, <2>3, <2>4
<1> QED BY <1>1, <1>2, <1>3, <1>4, <1>5, <1>6, <1>7, <1>8 DEF RecoverStep

\* A chosen mutation is a journal entry with the next number.
LEMMA ChooseKeepsTypeInv ==
  ASSUME TypeInv, NEW p \in Proc, NEW e \in JournalEntry,
         e.seq = LastSeq(journal) + 1, Choose(p, e)
  PROVE  TypeInv'
<1>1. DiskTyped'
  BY TypeInvDisk DEF Choose, DiskTyped, Sorted, MarkDirty
<1>2. work' \in Work /\ work'.intent = e /\ work'.todo = work.todo
  BY DEF TypeInv, TypeOK, Work, Choose
<1>3. TodoUnique'
  BY <1>2 DEF TypeInv, TodoUnique
<1>4. pc[p] = "choose" /\ pc' = [pc EXCEPT ![p] = "intent"] /\ pc'[p] = "intent"
  BY DEF TypeInv, TypeOK, Choose, GoTo
<1>5. journal' = journal
  BY DEF Choose
<1>6. HolderTyped(p)'
  BY <1>2, <1>4, <1>5 DEF HolderTyped, LastSeq, Entries
<1>7. "choose" \in LockedAt /\ "intent" \in LockedAt
  BY DEF LockedAt
<1> QED BY <1>1, <1>2, <1>3, <1>4, <1>6, <1>7, HolderKeepsTypeInv DEF Choose

LEMMA MutateKeepsTypeInv ==
  ASSUME TypeInv, NEW p \in Proc, MutateStep(p)
  PROVE  TypeInv'
<1> USE DEF GoTo
<1>0. {"choose", "intent", "apply", "render", "publish", "unsentinel", "clean",
       "commit"} \subseteq LockedAt
  BY DEF LockedAt
<1>15. TypeOK /\ Sorted(journal) /\ TodoUnique
  BY DEF TypeInv
<1>16. facts \in [Name -> Value] /\ work \in Work /\ pc \in [Proc -> LockedAt \cup FreeAt]
  BY <1>15 DEF TypeOK
<1>17. ASSUME NEW n \in Present PROVE n \in Name /\ facts[n] \in Content
  BY <1>16 DEF Present, Value
<1>18. NoTarget \in Nat /\ "open" \in Flag /\ NoRestore \in Value \cup {NoRestore}
  BY DEF NoTarget, Flag
<1>19. "pending" \in Status /\ "confirmed" \in Status
  BY DEF Status
<1>1. CASE ChooseWrite(p)
  <2>1. PICK n \in Name, m \in Name, t \in Text, s \in Status :
          Choose(p, Record("write", m, Absent, [text |-> t, status |-> s, src |-> NoEntry],
                           NoTarget, "open", NoRestore))
    BY <1>1 DEF ChooseWrite
  <2>2. [text |-> t, status |-> s, src |-> NoEntry] \in Value /\ Absent \in Value
    BY DEF Value, Content
  <2>3. "write" \in ForwardOps \cup {"rollback"}
    BY DEF ForwardOps
  <2> QED BY <1>15, <1>18, <2>1, <2>2, <2>3, RecordType, ChooseKeepsTypeInv
<1>2. CASE ChoosePromote(p)
  <2>1. PICK n \in Present :
          Choose(p, Record("promote", n, facts[n], [facts[n] EXCEPT !.status = "confirmed"],
                           NoTarget, "open", NoRestore))
    BY <1>2 DEF ChoosePromote
  <2>2. [facts[n] EXCEPT !.status = "confirmed"] \in Value /\ facts[n] \in Value
    BY <1>17, <1>19 DEF Value, Content
  <2>3. "promote" \in ForwardOps \cup {"rollback"}
    BY DEF ForwardOps
  <2> QED BY <1>15, <1>17, <1>18, <2>1, <2>2, <2>3, RecordType, ChooseKeepsTypeInv
<1>3. CASE ChooseDelete(p)
  <2>1. PICK n \in Present :
          Choose(p, Record("delete", n, facts[n], Absent, NoTarget, "open", NoRestore))
    BY <1>3 DEF ChooseDelete
  <2>2. facts[n] \in Value /\ Absent \in Value
    BY <1>17 DEF Value
  <2>3. "delete" \in ForwardOps \cup {"rollback"}
    BY DEF ForwardOps
  <2> QED BY <1>15, <1>17, <1>18, <2>1, <2>2, <2>3, RecordType, ChooseKeepsTypeInv
<1>4. CASE ChooseRollback(p)
  <2>1. PICK e \in Entries(journal) :
          Choose(p, Record("rollback", e.name, facts[e.name], e.pre, e.seq, "open", e.pre))
    BY <1>4 DEF ChooseRollback
  <2>2. e \in JournalEntry
    BY <1>15 DEF TypeOK, Entries
  <2>3. e.name \in Name /\ e.pre \in Value /\ e.seq \in Nat
    BY <2>2 DEF JournalEntry
  <2>4. facts[e.name] \in Value
    BY <1>16, <2>3
  <2>5. "rollback" \in ForwardOps \cup {"rollback"} /\ e.pre \in Value \cup {NoRestore}
    BY <2>3
  <2>6. ASSUME NEW r, r = Record("rollback", e.name, facts[e.name], e.pre, e.seq, "open", e.pre)
        PROVE  r \in JournalEntry /\ r.seq = LastSeq(journal) + 1
    <3>1. /\ Record("rollback", e.name, facts[e.name], e.pre, e.seq, "open", e.pre) \in JournalEntry
          /\ Record("rollback", e.name, facts[e.name], e.pre, e.seq, "open", e.pre).seq
               = LastSeq(journal) + 1
      <4>1. LastSeq(journal) \in Nat
        BY <1>15, LastSeqOfSorted DEF TypeOK
      <4> QED BY <1>18, <2>3, <2>4, <2>5, <4>1 DEF Record, JournalEntry
    <3> QED BY <2>6, <3>1
  <2> QED BY <2>1, <2>6, ChooseKeepsTypeInv
<1>5. CASE Decline(p)
  <2>1. DiskTyped' /\ pc[p] \in LockedAt
    BY <1>0, <1>5, DiskUnchanged DEF Decline
  <2> QED BY <1>5, <2>1, ReleaseKeepsTypeInv DEF Decline
<1>6. CASE JournalIntent(p)
  <2>1. pc[p] = "intent" /\ pc' = [pc EXCEPT ![p] = "apply"] /\ pc'[p] = "apply"
    BY <1>6, <1>16 DEF JournalIntent
  <2>2. work.intent \in JournalEntry /\ work.intent.seq = LastSeq(journal) + 1
    BY <1>0, <2>1 DEF TypeInv, HolderTyped
  <2>3. DiskTyped'
    BY <1>6, <1>15, <2>2, JournaledSorted, TypeInvDisk DEF JournalIntent, DiskTyped
  <2>4. HolderTyped(p)' /\ work' \in Work /\ TodoUnique'
    BY <1>6, <1>15, <1>16, <2>1, <2>2 DEF JournalIntent, HolderTyped, TodoUnique
  <2> QED BY <1>0, <1>6, <2>1, <2>3, <2>4, HolderKeepsTypeInv DEF JournalIntent
<1>7. CASE Apply(p)
  <2>1. work.intent \in JournalEntry
    BY <1>0, <1>7 DEF Apply, TypeInv, HolderTyped
  <2>2. work.intent.name \in Name /\ work.intent.post \in Value
    BY <2>1 DEF JournalEntry
  <2>3. facts' \in [Name -> Value] /\ newer' \subseteq Name
    BY <1>7, <1>15, <2>2, SetFactType DEF Apply
  <2>4. DiskTyped'
    BY <1>7, <2>3, TypeInvDisk DEF Apply, DiskTyped, Sorted
  <2> QED BY <1>0, <1>7, <2>4, HolderKeepsWork DEF Apply
<1>8. CASE Render(p)
  <2>1. DiskTyped'
    BY <1>8, DiskUnchanged DEF Render
  <2>2. work' \in Work /\ work'.todo = work.todo
    BY <1>8, <1>16 DEF Render, Work
  <2>3. TodoUnique'
    BY <1>15, <2>2 DEF TodoUnique
  <2> QED BY <1>0, <1>8, <2>1, <2>2, <2>3, HolderKeepsTypeInv DEF Render
<1>9. CASE Publish(p)
  <2>1. work.view \in [Name -> Value] \cup {NoIndex}
    BY <1>16 DEF Work
  <2>2. DiskTyped'
    BY <1>9, <2>1, TypeInvDisk DEF Publish, DiskTyped, Sorted
  <2> QED BY <1>0, <1>9, <2>2, HolderKeepsWork DEF Publish
<1>10. CASE Clean(p)
  <2>1. DiskTyped' /\ pc[p] \in LockedAt
    BY <1>0, <1>10, TypeInvDisk DEF Clean, DiskTyped, Sorted
  <2>2. CASE work.intent = NoIntent
    BY <1>10, <2>1, <2>2, ReleaseKeepsTypeInv DEF Clean
  <2>3. CASE work.intent # NoIntent
    BY <1>0, <1>10, <2>1, <2>3, HolderKeepsWork DEF Clean
  <2> QED BY <2>2, <2>3
<1>11. CASE Commit(p)
  <2>1. DiskTyped' /\ pc[p] \in LockedAt
    BY <1>0, <1>11, <1>15, MarkCommittedSorted, TypeInvDisk DEF Commit, DiskTyped
  <2> QED BY <1>11, <2>1, ReleaseKeepsTypeInv DEF Commit
<1>12. CASE RegenerateFails(p)
  <2>1. DiskTyped' /\ pc[p] \in LockedAt
    BY <1>0, <1>12, TypeInvDisk DEF RegenerateFails, DiskTyped, Sorted, MarkDirty
  <2> QED BY <1>12, <2>1, ReleaseKeepsTypeInv DEF RegenerateFails
<1> QED BY <1>1, <1>2, <1>3, <1>4, <1>5, <1>6, <1>7, <1>8, <1>9, <1>10, <1>11, <1>12
        DEF MutateStep

LEMMA MigrateKeepsTypeInv ==
  ASSUME TypeInv, NEW p \in Proc, MigrateStep(p)
  PROVE  TypeInv'
<1> USE DEF GoTo
<1>0. {"auto", "sentinel", "choose", "convert", "render", "unsentinel"} \subseteq LockedAt
  BY DEF LockedAt
<1>6. TypeOK /\ Sorted(journal) /\ TodoUnique
  BY DEF TypeInv
<1>1. CASE AutoMigrate(p)
  BY <1>0, <1>1, DiskUnchanged, HolderKeepsWork DEF AutoMigrate
<1>2. CASE Sentinel(p)
  <2>1. DiskTyped'
    BY <1>2, TypeInvDisk DEF Sentinel, DiskTyped, Sorted
  <2> QED BY <1>0, <1>2, <2>1, HolderKeepsWork DEF Sentinel
<1>3. CASE ConvertDone(p)
  BY <1>0, <1>3, DiskUnchanged, HolderKeepsWork DEF ConvertDone
<1>4. CASE Unsentinel(p)
  <2>1. DiskTyped' /\ pc[p] \in LockedAt
    BY <1>0, <1>4, TypeInvDisk DEF Unsentinel, DiskTyped, Sorted
  <2>2. CASE op[p] = "write"
    <3>1. work' \in Work /\ work'.todo = work.todo
      BY <1>4, <1>6, <2>2 DEF Unsentinel, TypeOK, Work
    <3>2. TodoUnique'
      BY <1>6, <3>1 DEF TodoUnique
    <3> QED BY <1>0, <1>4, <2>1, <2>2, <3>1, <3>2, HolderKeepsTypeInv DEF Unsentinel
  <2>3. CASE op[p] # "write"
    BY <1>4, <2>1, <2>3, ReleaseKeepsTypeInv DEF Unsentinel
  <2> QED BY <2>2, <2>3
<1>5. ASSUME NEW e \in Entry, Convert(p, e) PROVE TypeInv'
  <2>1. PICK m \in Name : SetFact(m, Converted(e))
    BY <1>5 DEF Convert
  <2>2. Converted(e) \in Value
    BY ConstAssumption DEF Converted, Value, Content, ConstAssumption
  <2>3. facts' \in [Name -> Value] /\ newer' \subseteq Name
    BY <1>6, <2>1, <2>2, SetFactType
  <2>4. DiskTyped'
    BY <1>5, <2>3, TypeInvDisk DEF Convert, DiskTyped, Sorted
  <2>5. pc' = [pc EXCEPT ![p] = "convert"] /\ pc[p] = "convert"
    BY <1>5, <1>6 DEF Convert, TypeOK
  <2> QED BY <1>0, <1>5, <2>4, <2>5, HolderKeepsWork DEF Convert
<1> QED BY <1>1, <1>2, <1>3, <1>4, <1>5 DEF MigrateStep

LEMMA ReadKeepsTypeInv ==
  ASSUME TypeInv, NEW p \in Proc, ReadStep(p)
  PROVE  TypeInv'
<1> USE DEF GoTo
<1>6. TypeOK /\ Sorted(journal) /\ TodoUnique
  BY DEF TypeInv
<1>7. /\ {"idle", "wait", "probe", "exists", "stale", "load"} \subseteq FreeAt
      /\ "recheck" \in LockedAt /\ "recover" \in LockedAt
  BY DEF FreeAt, LockedAt
<1>8. op[p] \in AllOps \cup {"none"} /\ op = [op EXCEPT ![p] = op[p]]
  BY <1>6 DEF TypeOK
<1>9. ASSUME pc[p] \in FreeAt, ReturnUnlocked(p) PROVE TypeInv'
  BY <1>7, <1>9, FreeKeepsTypeInv DEF ReturnUnlocked, Return
<1>10. ASSUME NEW from \in FreeAt, NEW to \in FreeAt, LookAt(p, from, to) PROVE TypeInv'
  <2>1. op' = [op EXCEPT ![p] = op[p]]
    BY <1>8, <1>10 DEF LookAt
  <2> QED BY <1>8, <1>10, <2>1, FreeKeepsTypeInv DEF LookAt
<1>1. CASE ReadSentinel(p)
  BY <1>1, <1>7, <1>9, <1>10 DEF ReadSentinel
<1>2. CASE ReadEmpty(p)
  BY <1>2, <1>7, <1>9, <1>10 DEF ReadEmpty
<1>3. CASE ReadStale(p)
  BY <1>3, <1>7, <1>10 DEF ReadStale
<1>4. CASE ReadLoad(p)
  BY <1>4, <1>7, <1>9 DEF ReadLoad
<1>5. CASE Recheck(p)
  <2>1. DiskTyped' /\ pc[p] = "recheck"
    BY <1>5, DiskUnchanged DEF Recheck
  <2>2. CASE migrating \/ Fresh
    BY <1>5, <1>7, <2>1, <2>2, ReleaseKeepsTypeInv DEF Recheck
  <2>3. CASE ~(migrating \/ Fresh)
    <3>1. work' = [NoWork EXCEPT !.todo = Danglers(journal)]
      BY <1>5, <2>3 DEF Recheck
    <3>2. work' \in Work /\ TodoUnique'
      BY <1>6, <3>1, DanglersType DEF NoWork, Work, TodoUnique
    <3> QED BY <1>5, <1>7, <2>1, <2>3, <3>2, HolderKeepsTypeInv DEF Recheck
  <2> QED BY <2>2, <2>3
<1> QED BY <1>1, <1>2, <1>3, <1>4, <1>5 DEF ReadStep

LEMMA BeginKeepsTypeInv ==
  ASSUME TypeInv, NEW p \in Proc, NEW o \in Ops, Begin(p, o)
  PROVE  TypeInv'
<1>1. o \in AllOps
  BY ConstAssumption DEF ConstAssumption
<1>2. {"idle", "probe", "wait"} \subseteq FreeAt
  BY DEF FreeAt
<1> QED BY <1>1, <1>2, FreeKeepsTypeInv DEF Begin, GoTo

LEMMA AcquireKeepsTypeInv ==
  ASSUME TypeInv, NEW p \in Proc, Acquire(p)
  PROVE  TypeInv'
<1> DEFINE to == Dispatch(op[p])
<1>1. TypeOK /\ Sorted(journal)
  BY DEF TypeInv
<1>2. to \in LockedAt /\ to \notin {"intent", "apply"}
  BY DEF Dispatch, LockedAt
<1>3. \A q \in Proc : pc[q] \notin LockedAt
  BY <1>1, ConstAssumption DEF Acquire, TypeOK, ConstAssumption
<1>4. pc' = [pc EXCEPT ![p] = to]
  BY DEF Acquire, GoTo
<1> HIDE DEF to
<1>5. /\ pc' \in [Proc -> LockedAt \cup FreeAt]
      /\ pc'[p] = to
      /\ \A q \in Proc : q # p => pc'[q] = pc[q]
  BY <1>1, <1>2, <1>4 DEF TypeOK
<1>6. lock' = p
  BY DEF Acquire
<1>7. \A q \in Proc : pc'[q] \in LockedAt <=> lock' = q
  BY <1>2, <1>3, <1>5, <1>6
<1>8. work' = NoWork \/ work' = [NoWork EXCEPT !.todo = Danglers(journal)]
  BY DEF Acquire
<1>9. work' \in Work /\ TodoUnique'
  <2>1. CASE work' = NoWork
    BY <2>1 DEF NoWork, Work, TodoUnique
  <2>2. CASE work' = [NoWork EXCEPT !.todo = Danglers(journal)]
    BY <1>1, <2>2, DanglersType DEF NoWork, Work, TodoUnique
  <2> QED BY <1>8, <2>1, <2>2
<1>10. UNCHANGED <<disk, op, edits>>
  BY DEF Acquire
<1>11. TypeOK'
  BY <1>1, <1>5, <1>6, <1>7, <1>9, <1>10 DEF TypeOK, disk
<1>12. \A q \in Proc : pc'[q] \in LockedAt => HolderTyped(q)'
  BY <1>2, <1>3, <1>5 DEF HolderTyped
<1>13. Sorted(journal)'
  BY <1>1, <1>10 DEF disk, Sorted
<1> QED BY <1>9, <1>11, <1>12, <1>13 DEF TypeInv

LEMMA CrashKeepsTypeInv ==
  ASSUME TypeInv, NEW p \in Proc, Crash(p)
  PROVE  TypeInv'
<1>1. TypeOK /\ Sorted(journal)
  BY DEF TypeInv
<1>2. CASE lock = p
  <2>1. Release(p) /\ pc[p] \in LockedAt
    BY <1>1, <1>2 DEF Crash, Release, TypeOK
  <2>2. DiskTyped' /\ edits' = edits
    BY DiskUnchanged DEF Crash
  <2> QED BY <2>1, <2>2, ReleaseKeepsTypeInv
<1>3. CASE lock # p
  <2>1. pc[p] \in FreeAt
    BY <1>1, <1>3 DEF TypeOK
  <2>2. "idle" \in FreeAt
    BY DEF FreeAt
  <2> QED BY <1>3, <2>1, <2>2, FreeKeepsTypeInv DEF Crash, Return
<1> QED BY <1>2, <1>3

LEMMA EditKeepsTypeInv ==
  ASSUME TypeInv, NEW n \in Name, NEW v \in Content, Edit(n, v)
  PROVE  TypeInv'
<1>1. TypeOK /\ v \in Value
  BY DEF TypeInv, Value
<1>2. facts' \in [Name -> Value] /\ newer' \subseteq Name
  BY <1>1, SetFactType DEF Edit
<1>3. edits' \in Nat /\ UNCHANGED <<index, dirty, migrating, journal, lock, pc, op, work>>
  BY <1>1 DEF Edit, TypeOK
<1>4. TypeOK'
  BY <1>1, <1>2, <1>3 DEF TypeOK
<1>5. Sorted(journal)' /\ TodoUnique'
  BY <1>3 DEF TypeInv, Sorted, TodoUnique
<1>6. \A q \in Proc : HolderTyped(q) => HolderTyped(q)'
  BY <1>3 DEF HolderTyped, Oldest, LastSeq, Entries
<1> QED BY <1>3, <1>4, <1>5, <1>6 DEF TypeInv

LEMMA StutterKeepsTypeInv ==
  ASSUME TypeInv, UNCHANGED vars
  PROVE  TypeInv'
<1>1. TypeOK'
  BY DEF TypeInv, TypeOK, vars
<1>2. Sorted(journal)' /\ TodoUnique'
  BY DEF TypeInv, Sorted, TodoUnique, vars
<1>3. \A q \in Proc : HolderTyped(q) => HolderTyped(q)'
  BY DEF HolderTyped, Oldest, LastSeq, Entries, vars
<1> QED BY <1>1, <1>2, <1>3 DEF TypeInv, vars

LEMMA NextKeepsTypeInv == TypeInv /\ [Next]_vars => TypeInv'
<1> SUFFICES ASSUME TypeInv, [Next]_vars PROVE TypeInv'
  OBVIOUS
<1>1. ASSUME NEW p \in Proc, Step(p) PROVE TypeInv'
  BY <1>1, RecoverKeepsTypeInv, MutateKeepsTypeInv, MigrateKeepsTypeInv, ReadKeepsTypeInv
     DEF Step
<1>2. ASSUME NEW p \in Proc, Acquire(p) PROVE TypeInv'
  BY <1>2, AcquireKeepsTypeInv
<1>3. ASSUME NEW p \in Proc, Crash(p) PROVE TypeInv'
  BY <1>3, CrashKeepsTypeInv
<1>4. ASSUME NEW p \in Proc, NEW o \in Ops, Begin(p, o) PROVE TypeInv'
  BY <1>4, BeginKeepsTypeInv
<1>5. ASSUME NEW n \in Name, NEW v \in Content, Edit(n, v) PROVE TypeInv'
  BY <1>5, EditKeepsTypeInv
<1>6. CASE UNCHANGED vars
  BY <1>6, StutterKeepsTypeInv
<1> QED BY <1>1, <1>2, <1>3, <1>4, <1>5, <1>6 DEF Next

\* Every variable has its type and the lock is held by exactly the process in
\* its critical section, for any number of processes, facts and retained records.
THEOREM Typing == Spec \/ LegacySpec => []TypeOK
<1>1. Spec \/ LegacySpec => []TypeInv
  BY TypeInvInit, LegacyTypeInvInit, NextKeepsTypeInv, PTL DEF Spec, LegacySpec
<1>2. TypeInv => TypeOK
  BY DEF TypeInv
<1> QED BY <1>1, <1>2, PTL

-----------------------------------------------------------------------------
(* Sequence numbers *)

\* Retention keeps the newest record.
LEMMA TruncatedKeepsLast ==
  ASSUME NEW j \in Seq(JournalEntry), Sorted(j), NEW k \in Truncated(j)
  PROVE  LastSeq(k) = LastSeq(j)
<1>1. PICK i \in DOMAIN j : k = SubSeq(j, i, Len(j))
  BY DEF Truncated
<1>2. i \in 1 .. Len(j) /\ Len(j) \in Nat
  BY <1>1
<1>3. /\ k \in Seq(JournalEntry)
      /\ Len(k) = Len(j) - i + 1
      /\ \A m \in 1 .. Len(k) : k[m] = j[i + m - 1]
  BY <1>1, <1>2
<1>4. j # <<>> /\ k # <<>>
  BY <1>2, <1>3
<1>5. k[Len(k)] = j[Len(j)]
  <2>1. Len(k) \in 1 .. Len(k) /\ i + Len(k) - 1 = Len(j)
    BY <1>2, <1>3
  <2> QED BY <1>3, <2>1
<1>6. Sorted(k)
  BY TruncatedSorted
<1> QED BY <1>3, <1>4, <1>5, <1>6, LastSeqOfSorted

\* The commit flag leaves the newest record the newest.
LEMMA FlippedKeepsLast ==
  ASSUME NEW j \in Seq(JournalEntry), Sorted(j), NEW s
  PROVE  LastSeq(Flipped(j, s)) = LastSeq(j)
<1> DEFINE f == Flipped(j, s)
<1>1. DOMAIN f = 1 .. Len(j) /\ Len(j) \in Nat
  BY DEF Flipped
<1>2. f \in Seq(JournalEntry) /\ Sorted(f)
  BY FlippedSorted
<1>3. ASSUME NEW i \in 1 .. Len(j) PROVE f[i].seq = j[i].seq
  <2>1. j[i] \in JournalEntry
    OBVIOUS
  <2>2. f[i] = IF j[i].seq = s THEN [j[i] EXCEPT !.flag = "done"] ELSE j[i]
    BY DEF Flipped
  <2> QED BY <2>1, <2>2 DEF JournalEntry
<1> HIDE DEF f
<1>4. Len(f) = Len(j)
  BY <1>1, <1>2
<1>5. CASE j = <<>>
  BY <1>2, <1>4, <1>5, LastSeqOfSorted DEF f
<1>6. CASE j # <<>>
  <2>1. f # <<>> /\ Len(j) \in 1 .. Len(j)
    BY <1>1, <1>4, <1>6
  <2> QED BY <1>2, <1>3, <1>4, <1>6, <2>1, LastSeqOfSorted DEF f
<1> QED BY <1>5, <1>6

\* What a step may do to the journal: nothing, mark a record, or append one.
JournalStep ==
  \/ journal' = journal
  \/ \E s : MarkCommitted(s)
  \/ \E e \in JournalEntry : /\ e.seq = LastSeq(journal) + 1
                           /\ journal' \in Truncated(Append(journal, e))

LEMMA JournalStepGrows ==
  ASSUME TypeOK, Sorted(journal), JournalStep
  PROVE  LastSeq(journal') >= LastSeq(journal)
<1>0. journal \in Seq(JournalEntry)
  BY DEF TypeOK
<1>1. LastSeq(journal) \in Nat
  BY <1>0, LastSeqOfSorted
<1>2. CASE journal' = journal
  BY <1>1, <1>2
<1>3. ASSUME NEW s, MarkCommitted(s) PROVE LastSeq(journal') = LastSeq(journal)
  <2>1. Flipped(journal, s) \in Seq(JournalEntry) /\ Sorted(Flipped(journal, s))
    BY <1>0, FlippedSorted
  <2>2. LastSeq(Flipped(journal, s)) = LastSeq(journal)
    BY <1>0, FlippedKeepsLast
  <2>3. CASE journal' = Flipped(journal, s)
    BY <2>2, <2>3
  <2>4. CASE journal' \in Truncated(Flipped(journal, s))
    BY <2>1, <2>2, <2>4, TruncatedKeepsLast
  <2> QED BY <1>3, <2>3, <2>4 DEF MarkCommitted
<1>4. ASSUME NEW e \in JournalEntry, e.seq = LastSeq(journal) + 1,
             journal' \in Truncated(Append(journal, e))
      PROVE  LastSeq(journal') = LastSeq(journal) + 1
  <2> DEFINE a == Append(journal, e)
  <2>1. a \in Seq(JournalEntry) /\ Sorted(a)
    BY <1>0, <1>4, AppendSorted
  <2>2. a # <<>> /\ a[Len(a)] = e
    BY <1>0
  <2>3. journal' \in Truncated(a)
    BY <1>4
  <2> HIDE DEF a
  <2>4. LastSeq(a) = e.seq
    BY <2>1, <2>2, LastSeqOfSorted
  <2> QED BY <1>4, <2>1, <2>3, <2>4, TruncatedKeepsLast
<1> QED BY <1>1, <1>2, <1>3, <1>4 DEF JournalStep

\* Every action touches the journal in one of these ways only.
LEMMA NextIsJournalStep == TypeInv /\ [Next]_vars => JournalStep
<1> SUFFICES ASSUME TypeInv, [Next]_vars PROVE JournalStep
  OBVIOUS
<1>1. ASSUME NEW p \in Proc, RecoverStep(p) PROVE JournalStep
  <2>1. ASSUME NEW e \in work.todo, WriteMarker(p, e) PROVE JournalStep
    <3> DEFINE r == Record("rollback", e.name, facts[e.name], facts[e.name], e.seq, "done",
                           NoRestore)
    <3>1. work.todo \subseteq JournalEntry /\ facts \in [Name -> Value]
      BY DEF TypeInv, TypeOK, Work
    <3>2. e.name \in Name /\ e.seq \in Nat
      BY <2>1, <3>1 DEF JournalEntry
    <3>3. r \in JournalEntry /\ r.seq = LastSeq(journal) + 1
      BY <3>1, <3>2, RecordType DEF TypeInv, AllOps, Flag
    <3> QED BY <2>1, <3>3 DEF WriteMarker, JournalStep
  <2>2. ASSUME NEW e \in work.todo,
               RollForward(p, e) \/ RollBack(p, e) \/ Redo(p, e) \/ RedoFact(p, e)
               \/ RedoCommit(p, e) \/ GiveUp(p, e)
        PROVE  JournalStep
    BY <2>2 DEF RollForward, RollBack, Redo, RedoFact, RedoCommit, GiveUp, JournalStep, disk
  <2>3. ASSUME Proceed(p) \/ FailClosed(p) \/ Republish(p) \/ NothingToRecover(p)
        PROVE  JournalStep
    BY <2>3 DEF Proceed, FailClosed, Republish, NothingToRecover, JournalStep, disk
  <2> QED BY <1>1, <2>1, <2>2, <2>3 DEF RecoverStep
<1>2. ASSUME NEW p \in Proc, MutateStep(p) PROVE JournalStep
  <2>1. CASE JournalIntent(p)
    <3>1. pc[p] = "intent" /\ pc[p] \in LockedAt
      BY <2>1 DEF JournalIntent, GoTo, LockedAt
    <3>2. work.intent \in JournalEntry /\ work.intent.seq = LastSeq(journal) + 1
      BY <3>1 DEF TypeInv, HolderTyped
    <3> QED BY <2>1, <3>2 DEF JournalIntent, JournalStep
  <2>2. CASE Commit(p)
    BY <2>2 DEF Commit, JournalStep
  <2>3. CASE \/ ChooseWrite(p) \/ ChoosePromote(p) \/ ChooseDelete(p) \/ ChooseRollback(p)
             \/ Decline(p)
    BY <2>3 DEF ChooseWrite, ChoosePromote, ChooseDelete, ChooseRollback, Decline, Choose,
                JournalStep, disk
  <2>4. CASE Apply(p) \/ Render(p) \/ Publish(p) \/ Clean(p) \/ RegenerateFails(p)
    BY <2>4 DEF Apply, Render, Publish, Clean, RegenerateFails, JournalStep, disk
  <2> QED BY <1>2, <2>1, <2>2, <2>3, <2>4 DEF MutateStep
<1>3. ASSUME NEW p \in Proc, MigrateStep(p) PROVE JournalStep
  BY <1>3 DEF MigrateStep, AutoMigrate, Sentinel, ConvertDone, Unsentinel, Convert,
              JournalStep, disk
<1>4. ASSUME NEW p \in Proc, ReadStep(p) PROVE JournalStep
  BY <1>4 DEF ReadStep, ReadSentinel, ReadEmpty, ReadStale, ReadLoad, Recheck,
              ReturnUnlocked, LookAt, JournalStep, disk
<1>5. ASSUME NEW p \in Proc, Acquire(p) \/ Crash(p) PROVE JournalStep
  BY <1>5 DEF Acquire, Crash, JournalStep, disk
<1>6. ASSUME NEW p \in Proc, NEW o \in Ops, Begin(p, o) PROVE JournalStep
  BY <1>6 DEF Begin, JournalStep, disk
<1>7. ASSUME NEW n \in Name, NEW v \in Content, Edit(n, v) PROVE JournalStep
  BY <1>7 DEF Edit, JournalStep, disk
<1>8. CASE UNCHANGED vars
  BY <1>8 DEF vars, JournalStep
<1> QED BY <1>1, <1>2, <1>3, <1>4, <1>5, <1>6, <1>7, <1>8 DEF Next, Step

\* No retention limit, crash or undo ever makes the store number a mutation
\* with a number it has used: the greatest number never falls, and the records
\* stay in the order of their numbers.
THEOREM Numbering == Spec \/ LegacySpec => SeqNeverReused
<1>1. TypeInv /\ [Next]_vars => LastSeq(journal') >= LastSeq(journal) /\ Sorted(journal')
  BY NextIsJournalStep, NextKeepsTypeInv, JournalStepGrows DEF TypeInv
<1>2. Spec \/ LegacySpec => []TypeInv
  BY TypeInvInit, LegacyTypeInvInit, NextKeepsTypeInv, PTL DEF Spec, LegacySpec
<1> QED BY <1>1, <1>2, PTL DEF Spec, LegacySpec, SeqNeverReused

-----------------------------------------------------------------------------
(* What readers trust                                                      *)

\* No hand edit falls into a critical section, which flock could not see, and
\* .dirty can be written: the two things the code has no answer to.  Only what
\* is said of .dirty needs the second.
DiskObeys == ~EditsUnderLock /\ ~SentinelMayFail

\* Why the lock holder never leaves an unflagged stale index: every change of
\* the facts is made under a sentinel, what is published was read under the
\* same lock, and a sentinel is taken away only from a current index.
HolderFresh(p) ==
  /\ pc[p] \in {"intent", "apply", "redo"} => dirty \/ SentinelMayFail
  /\ pc[p] = "convert" => migrating
  /\ pc[p] = "publish" => work.view = facts
  /\ pc[p] \in {"clean", "commit", "unsentinel"} => index = facts
  /\ pc[p] = "commit" => work.intent # NoIntent
  /\ pc[p] \in {"render", "publish", "clean", "commit"} /\ work.intent # NoIntent
       => facts[work.intent.name] = work.intent.post
  /\ pc[p] \notin {"intent", "apply", "render", "publish", "clean", "commit"}
       => work.intent = NoIntent

FreshDisk == ~SentinelMayFail => FastPathFresh /\ (edits = 0 => FallbackHidesNothing)

FreshInv ==
  /\ TypeInv
  /\ FreshDisk
  /\ \A p \in Proc : pc[p] \in LockedAt => HolderFresh(p)

LEMMA FreshInvInit == Init => FreshInv
<1> SUFFICES ASSUME Init PROVE FreshInv
  OBVIOUS
<1>1. FreshDisk
  BY DEF Init, FreshDisk, FastPathFresh, Fresh, FallbackHidesNothing, Present
<1>2. \A p \in Proc : pc[p] \notin LockedAt
  BY DEF Init, LockedAt
<1> QED BY <1>1, <1>2, TypeInvInit DEF FreshInv

LEMMA LegacyFreshInvInit == LegacyInit => FreshInv
<1> SUFFICES ASSUME LegacyInit PROVE FreshInv
  OBVIOUS
<1>1. dirty \/ (index = facts /\ index # NoIndex)
  BY ConstAssumption DEF LegacyInit, AtRest, ConstAssumption
<1>2. FreshDisk
  BY <1>1 DEF FreshDisk, FastPathFresh, Fresh, FallbackHidesNothing
<1>3. \A p \in Proc : pc[p] \notin LockedAt
  BY DEF LegacyInit, AtRest, LockedAt
<1> QED BY <1>2, <1>3, LegacyTypeInvInit DEF FreshInv

\* Marking the index dirty, or not touching the files at all, keeps it trusted.
LEMMA QuietKeepsFreshDisk ==
  ASSUME FreshDisk, UNCHANGED <<facts, index, newer, migrating, edits>>,
         dirty' = dirty \/ dirty' = TRUE
  PROVE  FreshDisk'
BY DEF FreshDisk, FastPathFresh, Fresh, FallbackHidesNothing, Present

\* So does changing the facts while .dirty or .migrating is there.
LEMMA FlaggedIsFreshDisk ==
  ASSUME dirty' = TRUE \/ migrating' = TRUE \/ SentinelMayFail
  PROVE  FreshDisk'
BY DEF FreshDisk, FastPathFresh, Fresh, FallbackHidesNothing

\* So does an index that shows the facts.
LEMMA CurrentIsFreshDisk ==
  ASSUME facts' \in [Name -> Value], index' = facts'
  PROVE  FreshDisk'
BY ConstAssumption DEF FreshDisk, FastPathFresh, FallbackHidesNothing, ConstAssumption

LEMMA ReleaseKeepsFresh ==
  ASSUME FreshInv, TypeInv', NEW p \in Proc, pc[p] \in LockedAt, Release(p), FreshDisk'
  PROVE  FreshInv'
BY MoveOut DEF FreshInv, TypeInv

LEMMA HolderKeepsFresh ==
  ASSUME FreshInv, TypeInv', NEW p \in Proc, pc[p] \in LockedAt, NEW to \in LockedAt,
         pc' = [pc EXCEPT ![p] = to], lock' = lock, op' = op,
         FreshDisk', pc'[p] = to => HolderFresh(p)'
  PROVE  FreshInv'
<1>1. TypeOK
  BY DEF FreshInv, TypeInv
<1> QED BY <1>1, MoveLocked DEF FreshInv

LEMMA FreeKeepsFresh ==
  ASSUME FreshInv, TypeInv', NEW p \in Proc, pc[p] \in FreeAt, NEW to \in FreeAt,
         NEW o \in AllOps \cup {"none"},
         pc' = [pc EXCEPT ![p] = to], op' = [op EXCEPT ![p] = o],
         UNCHANGED <<disk, lock, work, edits>>
  PROVE  FreshInv'
<1>1. TypeOK
  BY DEF FreshInv, TypeInv
<1>2. FreshDisk'
  BY QuietKeepsFreshDisk DEF FreshInv, disk
<1>3. ASSUME NEW q \in Proc, pc'[q] \in LockedAt PROVE HolderFresh(q)'
  <2>1. pc'[q] = pc[q] /\ HolderFresh(q)
    BY <1>1, <1>3, MoveFree DEF FreshInv
  <2> QED BY <2>1 DEF HolderFresh, disk
<1> QED BY <1>2, <1>3 DEF FreshInv

LEMMA RecoverKeepsFresh ==
  ASSUME FreshInv, TypeInv', NEW p \in Proc, RecoverStep(p)
  PROVE  FreshInv'
<1> USE DEF GoTo
<1>0. {"recover", "marker", "redo", "recommit", "auto", "choose", "render"} \subseteq LockedAt
  BY DEF LockedAt
<1>1. FreshDisk /\ pc \in [Proc -> LockedAt \cup FreeAt] /\ work \in Work
  BY DEF FreshInv, TypeInv, TypeOK
<1>2. pc' = pc /\ pc[p] = "recover" => pc' = [pc EXCEPT ![p] = "recover"]
  BY <1>1
<1>3. pc[p] \in {"recover", "marker", "redo", "recommit"} => work.intent = NoIntent
  BY <1>0 DEF FreshInv, HolderFresh
<1>4. \A e : Resolve(e).intent = work.intent
  BY <1>1 DEF Resolve, Work
<1>5. ASSUME NEW e \in work.todo,
             RollForward(p, e) \/ WriteMarker(p, e) \/ RedoCommit(p, e) \/ GiveUp(p, e)
      PROVE  FreshInv'
  <2>1. FreshDisk'
    BY <1>1, <1>5, QuietKeepsFreshDisk DEF RollForward, WriteMarker, RedoCommit, GiveUp, disk
  <2>2. work'.intent = work.intent
    BY <1>1, <1>4, <1>5 DEF RollForward, WriteMarker, RedoCommit, GiveUp, Work
  <2>3. /\ pc[p] \in {"recover", "marker", "recommit"}
        /\ pc' = [pc EXCEPT ![p] = "recover"]
        /\ lock' = lock /\ op' = op
    BY <1>2, <1>5 DEF RollForward, WriteMarker, RedoCommit, GiveUp
  <2>4. pc'[p] = "recover" => HolderFresh(p)'
    BY <1>3, <2>2, <2>3 DEF HolderFresh
  <2> QED BY <1>0, <2>1, <2>3, <2>4, HolderKeepsFresh
<1>6. ASSUME NEW e \in work.todo, RollBack(p, e) PROVE FreshInv'
  <2>1. FreshDisk'
    BY <1>1, <1>6, QuietKeepsFreshDisk DEF RollBack, MarkDirty
  <2>2. pc'[p] = "marker" => HolderFresh(p)'
    BY <1>3, <1>6 DEF RollBack, HolderFresh
  <2> QED BY <1>0, <1>6, <2>1, <2>2, HolderKeepsFresh DEF RollBack
<1>7. ASSUME NEW e \in work.todo, Redo(p, e) PROVE FreshInv'
  <2>1. FreshDisk'
    BY <1>1, <1>7, QuietKeepsFreshDisk DEF Redo, MarkDirty
  <2>2. pc'[p] = "redo" => HolderFresh(p)'
    BY <1>3, <1>7 DEF Redo, HolderFresh, MarkDirty
  <2> QED BY <1>0, <1>7, <2>1, <2>2, HolderKeepsFresh DEF Redo
<1>8. ASSUME NEW e \in work.todo, RedoFact(p, e) PROVE FreshInv'
  <2>1. dirty \/ SentinelMayFail
    BY <1>0, <1>8 DEF RedoFact, FreshInv, HolderFresh
  <2>2. FreshDisk'
    BY <1>8, <2>1, FlaggedIsFreshDisk DEF RedoFact, FreshInv, TypeInv, TypeOK
  <2>3. pc'[p] = "recommit" => HolderFresh(p)'
    BY <1>3, <1>8 DEF RedoFact, HolderFresh
  <2> QED BY <1>0, <1>8, <2>2, <2>3, HolderKeepsFresh DEF RedoFact
<1>9. CASE FailClosed(p) \/ NothingToRecover(p)
  <2>1. FreshDisk'
    BY <1>1, <1>9, QuietKeepsFreshDisk DEF FailClosed, NothingToRecover, disk
  <2> QED BY <1>0, <1>9, <2>1, ReleaseKeepsFresh DEF FailClosed, NothingToRecover, Recovered
<1>10. CASE Proceed(p) \/ Republish(p)
  <2>1. FreshDisk'
    BY <1>1, <1>10, QuietKeepsFreshDisk DEF Proceed, Republish, disk
  <2>2. PICK to \in {"auto", "choose", "render"} : pc' = [pc EXCEPT ![p] = to]
    BY <1>10 DEF Proceed, Republish
  <2>3. pc[p] = "recover" /\ work' = work /\ lock' = lock /\ op' = op
    BY <1>10 DEF Proceed, Republish, Recovered
  <2>4. pc'[p] = to => HolderFresh(p)'
    BY <1>3, <2>3 DEF HolderFresh
  <2> QED BY <1>0, <2>1, <2>2, <2>3, <2>4, HolderKeepsFresh
<1> QED BY <1>5, <1>6, <1>7, <1>8, <1>9, <1>10 DEF RecoverStep

LEMMA ChooseKeepsFresh ==
  ASSUME FreshInv, TypeInv', NEW p \in Proc, NEW e, Choose(p, e)
  PROVE  FreshInv'
<1>1. FreshDisk'
  BY QuietKeepsFreshDisk DEF Choose, FreshInv, MarkDirty
<1>2. pc[p] = "choose" /\ pc' = [pc EXCEPT ![p] = "intent"]
        /\ (dirty' \/ SentinelMayFail)
  BY DEF Choose, GoTo, MarkDirty
<1>3. pc'[p] = "intent" => HolderFresh(p)'
  BY <1>2 DEF HolderFresh
<1>4. "choose" \in LockedAt /\ "intent" \in LockedAt
  BY DEF LockedAt
<1> QED BY <1>1, <1>2, <1>3, <1>4, HolderKeepsFresh DEF Choose

LEMMA MutateKeepsFresh ==
  ASSUME FreshInv, TypeInv', NEW p \in Proc, MutateStep(p)
  PROVE  FreshInv'
<1> USE DEF GoTo
<1>0. {"choose", "intent", "apply", "render", "publish", "unsentinel", "clean",
       "commit"} \subseteq LockedAt
  BY DEF LockedAt
<1>10. FreshDisk /\ pc \in [Proc -> LockedAt \cup FreeAt] /\ work \in Work
         /\ facts \in [Name -> Value]
  BY DEF FreshInv, TypeInv, TypeOK
<1>11. pc[p] \in LockedAt => HolderFresh(p)
  BY DEF FreshInv
<1>1. CASE ChooseWrite(p) \/ ChoosePromote(p) \/ ChooseDelete(p) \/ ChooseRollback(p)
  BY <1>1, ChooseKeepsFresh DEF ChooseWrite, ChoosePromote, ChooseDelete, ChooseRollback
<1>2. CASE Decline(p)
  <2>1. FreshDisk'
    BY <1>2, <1>10, QuietKeepsFreshDisk DEF Decline, disk
  <2> QED BY <1>0, <1>2, <2>1, ReleaseKeepsFresh DEF Decline
<1>3. CASE JournalIntent(p)
  <2>1. FreshDisk'
    BY <1>3, <1>10, QuietKeepsFreshDisk DEF JournalIntent
  <2>2. pc'[p] = "apply" => HolderFresh(p)'
    BY <1>0, <1>3, <1>11 DEF JournalIntent, HolderFresh
  <2> QED BY <1>0, <1>3, <2>1, <2>2, HolderKeepsFresh DEF JournalIntent
<1>4. CASE Apply(p)
  <2>1. pc[p] = "apply" /\ (dirty \/ SentinelMayFail)
    BY <1>0, <1>4, <1>11 DEF Apply, HolderFresh
  <2>2. FreshDisk'
    BY <1>4, <2>1, FlaggedIsFreshDisk DEF Apply, FreshInv, TypeInv, TypeOK
  <2>3. work.intent \in JournalEntry
    BY <1>0, <2>1 DEF FreshInv, TypeInv, HolderTyped
  <2>4. facts'[work.intent.name] = work.intent.post
    BY <1>4, <1>10, <2>3 DEF Apply, SetFact, JournalEntry
  <2>5. pc'[p] = "render" => HolderFresh(p)'
    BY <1>4, <2>4 DEF Apply, HolderFresh
  <2> QED BY <1>0, <1>4, <2>2, <2>5, HolderKeepsFresh DEF Apply
<1>5. CASE Render(p)
  <2>1. FreshDisk'
    BY <1>5, <1>10, QuietKeepsFreshDisk DEF Render, disk
  <2>2. /\ work'.view = facts /\ facts' = facts
        /\ work'.intent = work.intent
    BY <1>5, <1>10 DEF Render, Work, disk
  <2>3. pc'[p] = "publish" => HolderFresh(p)'
    BY <1>0, <1>5, <1>11, <2>2 DEF Render, HolderFresh
  <2> QED BY <1>0, <1>5, <2>1, <2>3, HolderKeepsFresh DEF Render
<1>6. CASE Publish(p)
  <2>1. pc[p] = "publish" /\ work.view = facts
    BY <1>0, <1>6, <1>11 DEF Publish, HolderFresh
  <2>2. facts' = facts /\ index' = facts' /\ work' = work
    BY <1>6, <2>1 DEF Publish
  <2>3. FreshDisk'
    BY <1>10, <2>2, CurrentIsFreshDisk
  <2>4. CASE InMigration(p)
    <3>1. pc'[p] = "unsentinel" => HolderFresh(p)'
      BY <2>2, <2>4 DEF HolderFresh, InMigration
    <3> QED BY <1>0, <1>6, <2>3, <2>4, <3>1, HolderKeepsFresh DEF Publish
  <2>5. CASE ~InMigration(p)
    <3>1. pc'[p] = "clean" => HolderFresh(p)'
      BY <1>0, <1>11, <2>1, <2>2 DEF HolderFresh
    <3> QED BY <1>0, <1>6, <2>3, <2>5, <3>1, HolderKeepsFresh DEF Publish
  <2> QED BY <2>4, <2>5
<1>7. CASE Clean(p)
  <2>1. pc[p] = "clean" /\ index = facts /\ facts' = facts /\ index' = index
    BY <1>0, <1>7, <1>11 DEF Clean, HolderFresh
  <2>2. FreshDisk'
    BY <1>10, <2>1, CurrentIsFreshDisk
  <2>3. CASE work.intent = NoIntent
    BY <1>0, <1>7, <2>1, <2>2, <2>3, ReleaseKeepsFresh DEF Clean
  <2>4. CASE work.intent # NoIntent
    <3>1. pc'[p] = "commit" => HolderFresh(p)'
      BY <1>0, <1>7, <1>11, <2>1, <2>4 DEF Clean, HolderFresh
    <3> QED BY <1>0, <1>7, <2>1, <2>2, <2>4, <3>1, HolderKeepsFresh DEF Clean
  <2> QED BY <2>3, <2>4
<1>8. CASE Commit(p)
  <2>1. FreshDisk'
    BY <1>8, <1>10, QuietKeepsFreshDisk DEF Commit
  <2> QED BY <1>0, <1>8, <2>1, ReleaseKeepsFresh DEF Commit
<1>9. CASE RegenerateFails(p)
  <2>1. FreshDisk'
    BY <1>9, <1>10, QuietKeepsFreshDisk DEF RegenerateFails, MarkDirty
  <2> QED BY <1>0, <1>9, <2>1, ReleaseKeepsFresh DEF RegenerateFails
<1> QED BY <1>1, <1>2, <1>3, <1>4, <1>5, <1>6, <1>7, <1>8, <1>9 DEF MutateStep

LEMMA MigrateKeepsFresh ==
  ASSUME FreshInv, TypeInv', NEW p \in Proc, MigrateStep(p)
  PROVE  FreshInv'
<1> USE DEF GoTo
<1>0. {"auto", "sentinel", "choose", "convert", "render", "unsentinel"} \subseteq LockedAt
  BY DEF LockedAt
<1>6. FreshDisk /\ pc \in [Proc -> LockedAt \cup FreeAt] /\ work \in Work
        /\ facts \in [Name -> Value]
  BY DEF FreshInv, TypeInv, TypeOK
<1>7. pc[p] \in LockedAt => HolderFresh(p)
  BY DEF FreshInv
<1>1. CASE AutoMigrate(p)
  <2>1. FreshDisk'
    BY <1>1, <1>6, QuietKeepsFreshDisk DEF AutoMigrate, disk
  <2>2. PICK to \in {"sentinel", "choose"} : pc' = [pc EXCEPT ![p] = to]
    BY <1>1 DEF AutoMigrate
  <2>3. pc'[p] = to => HolderFresh(p)'
    BY <1>0, <1>1, <1>7 DEF AutoMigrate, HolderFresh
  <2> QED BY <1>0, <1>1, <2>1, <2>2, <2>3, HolderKeepsFresh DEF AutoMigrate
<1>2. CASE Sentinel(p)
  <2>1. FreshDisk'
    BY <1>2, FlaggedIsFreshDisk DEF Sentinel
  <2>2. pc'[p] = "convert" => HolderFresh(p)'
    BY <1>0, <1>2, <1>7 DEF Sentinel, HolderFresh
  <2> QED BY <1>0, <1>2, <2>1, <2>2, HolderKeepsFresh DEF Sentinel
<1>3. CASE ConvertDone(p)
  <2>1. FreshDisk'
    BY <1>3, <1>6, QuietKeepsFreshDisk DEF ConvertDone, disk
  <2>2. pc'[p] = "render" => HolderFresh(p)'
    BY <1>0, <1>3, <1>7 DEF ConvertDone, HolderFresh
  <2> QED BY <1>0, <1>3, <2>1, <2>2, HolderKeepsFresh DEF ConvertDone
<1>4. CASE Unsentinel(p)
  <2>1. pc[p] = "unsentinel" /\ index = facts /\ facts' = facts /\ index' = index
    BY <1>0, <1>4, <1>7 DEF Unsentinel, HolderFresh
  <2>2. FreshDisk'
    BY <1>6, <2>1, CurrentIsFreshDisk
  <2>3. CASE op[p] = "write"
    <3>1. work'.intent = work.intent
      BY <1>4, <1>6, <2>3 DEF Unsentinel, Work
    <3>2. pc'[p] = "choose" => HolderFresh(p)'
      BY <1>0, <1>7, <2>1, <3>1 DEF HolderFresh
    <3> QED BY <1>0, <1>4, <2>1, <2>2, <2>3, <3>2, HolderKeepsFresh DEF Unsentinel
  <2>4. CASE op[p] # "write"
    BY <1>0, <1>4, <2>1, <2>2, <2>4, ReleaseKeepsFresh DEF Unsentinel
  <2> QED BY <2>3, <2>4
<1>5. ASSUME NEW e \in Entry, Convert(p, e) PROVE FreshInv'
  <2>1. pc[p] = "convert" /\ migrating /\ migrating' = TRUE
    BY <1>0, <1>5, <1>7 DEF Convert, HolderFresh, FreshInv, TypeInv, TypeOK
  <2>2. FreshDisk'
    BY <2>1, FlaggedIsFreshDisk
  <2>3. pc' = [pc EXCEPT ![p] = "convert"] /\ work' = work /\ lock' = lock /\ op' = op
    BY <1>5, <1>6, <2>1 DEF Convert
  <2>4. pc'[p] = "convert" => HolderFresh(p)'
    BY <1>0, <1>7, <2>1, <2>3 DEF HolderFresh
  <2> QED BY <1>0, <2>1, <2>2, <2>3, <2>4, HolderKeepsFresh
<1> QED BY <1>1, <1>2, <1>3, <1>4, <1>5 DEF MigrateStep

LEMMA ReadKeepsFresh ==
  ASSUME FreshInv, TypeInv', NEW p \in Proc, ReadStep(p)
  PROVE  FreshInv'
<1> USE DEF GoTo
<1>6. FreshDisk /\ TypeOK
  BY DEF FreshInv, TypeInv
<1>7. /\ {"idle", "wait", "probe", "exists", "stale", "load"} \subseteq FreeAt
      /\ "recheck" \in LockedAt /\ "recover" \in LockedAt
  BY DEF FreeAt, LockedAt
<1>8. op[p] \in AllOps \cup {"none"} /\ op = [op EXCEPT ![p] = op[p]]
  BY <1>6 DEF TypeOK
<1>9. ASSUME pc[p] \in FreeAt, ReturnUnlocked(p) PROVE FreshInv'
  BY <1>7, <1>9, FreeKeepsFresh DEF ReturnUnlocked, Return
<1>10. ASSUME NEW from \in FreeAt, NEW to \in FreeAt, LookAt(p, from, to) PROVE FreshInv'
  <2>1. op' = [op EXCEPT ![p] = op[p]]
    BY <1>8, <1>10 DEF LookAt
  <2> QED BY <1>8, <1>10, <2>1, FreeKeepsFresh DEF LookAt
<1>1. CASE ReadSentinel(p)
  BY <1>1, <1>7, <1>9, <1>10 DEF ReadSentinel
<1>2. CASE ReadEmpty(p)
  BY <1>2, <1>7, <1>9, <1>10 DEF ReadEmpty
<1>3. CASE ReadStale(p)
  BY <1>3, <1>7, <1>10 DEF ReadStale
<1>4. CASE ReadLoad(p)
  BY <1>4, <1>7, <1>9 DEF ReadLoad
<1>5. CASE Recheck(p)
  <2>1. FreshDisk' /\ pc[p] = "recheck"
    BY <1>5, <1>6, QuietKeepsFreshDisk DEF Recheck, disk
  <2>2. CASE migrating \/ Fresh
    BY <1>5, <1>7, <2>1, <2>2, ReleaseKeepsFresh DEF Recheck
  <2>3. CASE ~(migrating \/ Fresh)
    <3>1. work'.intent = NoIntent /\ pc' = [pc EXCEPT ![p] = "recover"]
            /\ lock' = lock /\ op' = op
      BY <1>5, <2>3 DEF Recheck, NoWork
    <3>2. pc'[p] = "recover" => HolderFresh(p)'
      BY <3>1 DEF HolderFresh
    <3> QED BY <1>7, <2>1, <3>1, <3>2, HolderKeepsFresh
  <2> QED BY <2>2, <2>3
<1> QED BY <1>1, <1>2, <1>3, <1>4, <1>5 DEF ReadStep

LEMMA AcquireKeepsFresh ==
  ASSUME FreshInv, TypeInv', NEW p \in Proc, Acquire(p)
  PROVE  FreshInv'
<1>1. TypeOK /\ FreshDisk
  BY DEF FreshInv, TypeInv
<1>2. \A q \in Proc : pc[q] \notin LockedAt
  BY <1>1, ConstAssumption DEF Acquire, TypeOK, ConstAssumption
<1>3. FreshDisk'
  BY <1>1, QuietKeepsFreshDisk DEF Acquire, disk
<1>4. pc' = [pc EXCEPT ![p] = Dispatch(op[p])] /\ work'.intent = NoIntent
  BY DEF Acquire, GoTo, NoWork
<1>5. Dispatch(op[p]) \in {"recheck", "render", "sentinel", "recover"}
  BY DEF Dispatch
<1>6. ASSUME NEW q \in Proc, pc'[q] \in LockedAt PROVE HolderFresh(q)'
  <2>1. pc'[q] \in {"recheck", "render", "sentinel", "recover"}
    BY <1>1, <1>2, <1>4, <1>5, <1>6 DEF TypeOK
  <2> QED BY <1>4, <2>1 DEF HolderFresh
<1> QED BY <1>3, <1>6 DEF FreshInv

LEMMA CrashKeepsFresh ==
  ASSUME FreshInv, TypeInv', NEW p \in Proc, Crash(p)
  PROVE  FreshInv'
<1>1. TypeOK
  BY DEF FreshInv, TypeInv
<1>2. CASE lock = p
  <2>1. Release(p) /\ pc[p] \in LockedAt
    BY <1>1, <1>2 DEF Crash, Release, TypeOK
  <2>2. FreshDisk'
    BY QuietKeepsFreshDisk DEF Crash, FreshInv, disk
  <2> QED BY <2>1, <2>2, ReleaseKeepsFresh
<1>3. CASE lock # p
  <2>1. pc[p] \in FreeAt
    BY <1>1, <1>3 DEF TypeOK
  <2>2. "idle" \in FreeAt
    BY DEF FreeAt
  <2> QED BY <1>3, <2>1, <2>2, FreeKeepsFresh DEF Crash, Return
<1> QED BY <1>2, <1>3

\* A hand edit between the calls makes its fact newer than the index.
LEMMA EditKeepsFresh ==
  ASSUME FreshInv, TypeInv', NEW n \in Name, NEW v \in Content, Edit(n, v),
         ~EditsUnderLock
  PROVE  FreshInv'
<1>1. TypeOK
  BY DEF FreshInv, TypeInv
<1>2. v # Absent
  BY ConstAssumption DEF ConstAssumption
<1>3. n \in newer'
  BY <1>1, <1>2 DEF Edit, SetFact
<1>4. edits' # 0
  BY <1>1 DEF Edit, TypeOK
<1>5. FreshDisk'
  BY <1>3, <1>4 DEF FreshDisk, FastPathFresh, Fresh
<1>6. \A q \in Proc : pc'[q] \notin LockedAt
  BY <1>1, ConstAssumption DEF Edit, TypeOK, ConstAssumption
<1> QED BY <1>5, <1>6 DEF FreshInv

LEMMA NextKeepsFresh ==
  ASSUME ~EditsUnderLock, FreshInv, [Next]_vars
  PROVE  FreshInv'
<1>0. TypeInv'
  BY NextKeepsTypeInv DEF FreshInv
<1>1. ASSUME NEW p \in Proc, Step(p) PROVE FreshInv'
  BY <1>0, <1>1, RecoverKeepsFresh, MutateKeepsFresh, MigrateKeepsFresh, ReadKeepsFresh
     DEF Step
<1>2. ASSUME NEW p \in Proc, Acquire(p) PROVE FreshInv'
  BY <1>0, <1>2, AcquireKeepsFresh
<1>3. ASSUME NEW p \in Proc, Crash(p) PROVE FreshInv'
  BY <1>0, <1>3, CrashKeepsFresh
<1>4. ASSUME NEW p \in Proc, NEW o \in Ops, Begin(p, o) PROVE FreshInv'
  <2>1. o \in AllOps
    BY ConstAssumption DEF ConstAssumption
  <2>2. {"idle", "probe", "wait"} \subseteq FreeAt
    BY DEF FreeAt
  <2> QED BY <1>0, <1>4, <2>1, <2>2, FreeKeepsFresh DEF Begin, GoTo
<1>5. ASSUME NEW n \in Name, NEW v \in Content, Edit(n, v) PROVE FreshInv'
  BY <1>0, <1>5, EditKeepsFresh
<1>6. CASE UNCHANGED vars
  <2>1. FreshDisk'
    BY <1>6, QuietKeepsFreshDisk DEF FreshInv, vars
  <2>2. \A p \in Proc : HolderFresh(p) => HolderFresh(p)'
    BY <1>6 DEF HolderFresh, vars
  <2> QED BY <1>0, <1>6, <2>1, <2>2 DEF FreshInv, vars
<1> QED BY <1>1, <1>2, <1>3, <1>4, <1>5, <1>6 DEF Next

LEMMA Freshness == ~EditsUnderLock => (Spec \/ LegacySpec => []FreshInv)
<1> SUFFICES ASSUME ~EditsUnderLock PROVE Spec \/ LegacySpec => []FreshInv
  OBVIOUS
<1>1. FreshInv /\ [Next]_vars => FreshInv'
  BY NextKeepsFresh
<1> QED BY <1>1, FreshInvInit, LegacyFreshInvInit, PTL DEF Spec, LegacySpec

\* A reader that takes MEMORY.md without the lock gets the facts as they are,
\* whatever crashed or failed before it and whoever is at work, as long as hand
\* edits stay out of the critical sections and .dirty can be written.
THEOREM IndexFresh == DiskObeys => (Spec \/ LegacySpec => []FastPathFresh)
<1> SUFFICES ASSUME DiskObeys PROVE Spec \/ LegacySpec => []FastPathFresh
  OBVIOUS
<1>1. FreshInv => FastPathFresh
  BY DEF DiskObeys, FreshInv, FreshDisk
<1>2. ~EditsUnderLock
  BY DEF DiskObeys
<1> QED BY <1>1, <1>2, Freshness, PTL

\* Until somebody edits facts by hand, the fallback to knowledge.md hides none.
THEOREM FallbackSafe ==
  DiskObeys => (Spec \/ LegacySpec => [](edits = 0 => FallbackHidesNothing))
<1> SUFFICES ASSUME DiskObeys
             PROVE  Spec \/ LegacySpec => [](edits = 0 => FallbackHidesNothing)
  OBVIOUS
<1>1. FreshInv => (edits = 0 => FallbackHidesNothing)
  BY DEF DiskObeys, FreshInv, FreshDisk
<1>2. ~EditsUnderLock
  BY DEF DiskObeys
<1> QED BY <1>1, <1>2, Freshness, PTL

\* A call that is about to return has its mutation in the facts and in the
\* index, even when .dirty could not be written.
THEOREM Acknowledged == ~EditsUnderLock => (Spec \/ LegacySpec => []AcknowledgedIsPublished)
<1>1. FreshInv => AcknowledgedIsPublished
  <2> SUFFICES ASSUME FreshInv, NEW p \in Proc, pc[p] = "commit"
               PROVE  /\ index = facts
                      /\ facts[work.intent.name] = work.intent.post
    BY DEF AcknowledgedIsPublished
  <2>1. pc[p] \in LockedAt
    BY DEF LockedAt
  <2> QED BY <2>1 DEF FreshInv, HolderFresh
<1> QED BY <1>1, Freshness, PTL

-----------------------------------------------------------------------------
(* Calls end *)

\* How many steps the holder of the lock can still take before it releases it: up to
\* three for each intent that recovery is still to look at, one for each entry that is
\* still to be migrated, and the stages ahead.
StepsLeft(p) ==
  LET most == Cardinality(Entry) + 14
      todo == 3 * Cardinality(work.todo)
      left == Cardinality(Unconverted)
  IN CASE pc[p] = "recheck"            -> most + 3 * Cardinality(Danglers(journal)) + 1
       [] pc[p] = "recover"            -> most + todo
       [] pc[p] \in {"marker", "redo"} -> most + todo - 1
       [] pc[p] = "recommit"           -> most + todo - 2
       [] pc[p] = "auto"               -> left + 13
       [] pc[p] = "sentinel"           -> left + 12
       [] pc[p] = "convert"            -> left + 11
       [] pc[p] = "render"             -> IF InMigration(p) THEN 10 ELSE 4
       [] pc[p] = "publish"            -> IF InMigration(p) THEN 9 ELSE 3
       [] pc[p] = "unsentinel"         -> 8
       [] pc[p] = "choose"             -> 7
       [] pc[p] = "intent"             -> 6
       [] pc[p] = "apply"              -> 5
       [] pc[p] = "clean"              -> 2
       [] pc[p] = "commit"             -> 1

\* While a process holds the lock, every step brings its release closer or leaves
\* alone all that its call depends on.
Advances ==
  \A p \in Proc :
    lock = p /\ lock' = p =>
      \/ StepsLeft(p)' < StepsLeft(p)
      \/ UNCHANGED <<facts, journal, work, pc[p], op[p]>>

EndInv ==
  /\ TypeInv
  /\ IsFiniteSet(work.todo)

LEMMA DanglersFinite == ASSUME TypeInv PROVE IsFiniteSet(Danglers(journal))
<1> DEFINE S == {e.seq : e \in Danglers(journal)}
<1>1. journal \in Seq(JournalEntry) /\ Sorted(journal)
  BY DEF TypeInv, TypeOK
<1>2. LastSeq(journal) \in Nat /\ \A e \in Entries(journal) : e.seq <= LastSeq(journal)
  BY <1>1, LastSeqOfSorted
<1>3. \A e \in Danglers(journal) : e \in JournalEntry /\ e \in Entries(journal) /\ e.seq \in Nat
  BY DanglersType DEF TypeInv, Danglers, JournalEntry
<1>4. IsFiniteSet(S)
  BY <1>2, <1>3, FS_BoundedSetOfNaturals
<1> DEFINE f == [e \in Danglers(journal) |-> e.seq]
<1>5. \A e, g \in Danglers(journal) : e.seq = g.seq => e = g
  BY DanglersType DEF TypeInv
<1>6. f \in Injection(Danglers(journal), S)
  BY <1>5 DEF Injection, IsInjective
<1> HIDE DEF f, S
<1> QED BY <1>4, <1>6, FS_Injection

\* Entries get converted, never the other way round.
LEMMA UnconvertedType ==
  ASSUME IsFiniteSet(Entry)
  PROVE  /\ IsFiniteSet(Unconverted) /\ Cardinality(Unconverted) \in Nat
         /\ Cardinality(Unconverted') \in Nat /\ Cardinality(Unconverted') <= Cardinality(Entry)
         /\ Cardinality(Entry) \in Nat /\ Cardinality(Unconverted) <= Cardinality(Entry)
<1>1. Unconverted \in SUBSET Entry /\ Unconverted' \in SUBSET Entry
  BY DEF Unconverted
<1> QED BY <1>1, FS_Subset, FS_CardinalityType

\* Recovery has one intent less to look at.
LEMMA OneLess ==
  ASSUME IsFiniteSet(work.todo), NEW e \in work.todo, work'.todo = work.todo \ {e}
  PROVE  /\ IsFiniteSet(work'.todo)
         /\ Cardinality(work.todo) \in Nat /\ Cardinality(work'.todo) = Cardinality(work.todo) - 1
BY FS_RemoveElement, FS_CardinalityType

LEMMA RecoverAdvances ==
  ASSUME EndInv, IsFiniteSet(Entry), NEW p \in Proc, RecoverStep(p), pc'[p] \in LockedAt
  PROVE  StepsLeft(p)' < StepsLeft(p)
<1> DEFINE most == Cardinality(Entry) + 14
           todo == Cardinality(work.todo)
<1>1. /\ pc \in [Proc -> LockedAt \cup FreeAt] /\ work \in Work /\ most \in Nat /\ todo \in Nat
      /\ IsFiniteSet(work.todo)
  BY UnconvertedType, FS_CardinalityType DEF EndInv, TypeInv, TypeOK
<1>2. /\ pc[p] = "recover" => StepsLeft(p) = most + 3 * todo
      /\ pc[p] \in {"marker", "redo"} => StepsLeft(p) = most + 3 * todo - 1
      /\ pc[p] = "recommit" => StepsLeft(p) = most + 3 * todo - 2
  BY DEF StepsLeft
<1> DEFINE todo1 == Cardinality(work'.todo)
<1>3. /\ pc'[p] = "recover" => StepsLeft(p)' = most + 3 * todo1
      /\ pc'[p] \in {"marker", "redo"} => StepsLeft(p)' = most + 3 * todo1 - 1
      /\ pc'[p] = "recommit" => StepsLeft(p)' = most + 3 * todo1 - 2
  BY DEF StepsLeft
<1>4. pc'[p] \in {"auto", "choose", "render"} => StepsLeft(p)' \in Nat /\ StepsLeft(p)' < most
  <2>1. Cardinality(Unconverted') \in Nat /\ Cardinality(Unconverted') <= Cardinality(Entry)
    BY UnconvertedType
  <2>2. pc'[p] = "auto" => StepsLeft(p)' = Cardinality(Unconverted') + 13
    BY DEF StepsLeft
  <2>3. pc'[p] = "choose" => StepsLeft(p)' = 7
    BY DEF StepsLeft
  <2>4. pc'[p] = "render" => StepsLeft(p)' \in {10, 4}
    BY DEF StepsLeft
  <2> QED BY <1>1, <2>1, <2>2, <2>3, <2>4, UnconvertedType
<1> HIDE DEF most, todo, todo1
<1>5. ASSUME NEW e \in work.todo, RollBack(p, e) \/ Redo(p, e) \/ RedoFact(p, e)
      PROVE  StepsLeft(p)' < StepsLeft(p)
  <2>1. work' = work /\ todo1 = todo
    BY <1>5 DEF RollBack, Redo, RedoFact, todo, todo1
  <2>2. \/ pc[p] = "recover" /\ pc'[p] \in {"marker", "redo"}
        \/ pc[p] = "redo" /\ pc'[p] = "recommit"
    BY <1>1, <1>5 DEF RollBack, Redo, RedoFact, GoTo
  <2> QED BY <1>1, <1>2, <1>3, <2>1, <2>2
<1>6. ASSUME NEW e \in work.todo,
             RollForward(p, e) \/ WriteMarker(p, e) \/ RedoCommit(p, e) \/ GiveUp(p, e)
      PROVE  StepsLeft(p)' < StepsLeft(p)
  <2>1. work'.todo = work.todo \ {e}
    BY <1>1, <1>6 DEF RollForward, WriteMarker, RedoCommit, GiveUp, Resolve, Work
  <2>2. IsFiniteSet(work'.todo) /\ todo1 = todo - 1
    BY <1>1, <2>1, OneLess DEF todo, todo1
  <2>3. pc[p] \in {"recover", "marker", "recommit"} /\ pc'[p] = "recover"
    BY <1>1, <1>6 DEF RollForward, WriteMarker, RedoCommit, GiveUp, GoTo
  <2> QED BY <1>1, <1>2, <1>3, <2>2, <2>3
<1>7. ASSUME Proceed(p) \/ Republish(p)
      PROVE  StepsLeft(p)' < StepsLeft(p)
  <2>1. work' = work /\ pc[p] = "recover" /\ pc'[p] \in {"auto", "choose", "render"}
    BY <1>1, <1>7 DEF Proceed, Republish, Recovered
  <2> QED BY <1>1, <1>2, <1>4, <2>1
<1>8. ~FailClosed(p) /\ ~NothingToRecover(p)
  BY <1>1 DEF FailClosed, NothingToRecover, Release, Return, LockedAt
<1> QED BY <1>5, <1>6, <1>7, <1>8 DEF RecoverStep

LEMMA MutateAdvances ==
  ASSUME EndInv, NEW p \in Proc, MutateStep(p), pc'[p] \in LockedAt
  PROVE  StepsLeft(p)' < StepsLeft(p)
<1>1. pc \in [Proc -> LockedAt \cup FreeAt] /\ work \in Work
  BY DEF EndInv, TypeInv, TypeOK
<1>2. /\ pc[p] = "choose" => StepsLeft(p) = 7
      /\ pc[p] = "intent" => StepsLeft(p) = 6
      /\ pc[p] = "apply" => StepsLeft(p) = 5
      /\ pc[p] = "clean" => StepsLeft(p) = 2
      /\ pc[p] = "render" => StepsLeft(p) = IF InMigration(p) THEN 10 ELSE 4
      /\ pc[p] = "publish" => StepsLeft(p) = IF InMigration(p) THEN 9 ELSE 3
  BY DEF StepsLeft
<1>3. /\ pc'[p] = "intent" => StepsLeft(p)' = 6
      /\ pc'[p] = "apply" => StepsLeft(p)' = 5
      /\ pc'[p] = "clean" => StepsLeft(p)' = 2
      /\ pc'[p] = "commit" => StepsLeft(p)' = 1
      /\ pc'[p] = "unsentinel" => StepsLeft(p)' = 8
      /\ pc'[p] = "render" => StepsLeft(p)' = IF InMigration(p)' THEN 10 ELSE 4
      /\ pc'[p] = "publish" => StepsLeft(p)' = IF InMigration(p)' THEN 9 ELSE 3
  BY DEF StepsLeft
<1>4. ASSUME ChooseWrite(p) \/ ChoosePromote(p) \/ ChooseDelete(p) \/ ChooseRollback(p)
      PROVE  StepsLeft(p)' < StepsLeft(p)
  <2>1. PICK e : Choose(p, e)
    BY <1>4 DEF ChooseWrite, ChoosePromote, ChooseDelete, ChooseRollback
  <2>2. pc[p] = "choose" /\ pc'[p] = "intent"
    BY <1>1, <2>1 DEF Choose, GoTo, Work
  <2> QED BY <1>2, <1>3, <2>2
<1>5. CASE JournalIntent(p)
  BY <1>1, <1>2, <1>3, <1>5 DEF JournalIntent, GoTo
<1>6. CASE Apply(p)
  <2>1. work' = work /\ pc[p] = "apply" /\ pc'[p] = "render"
    BY <1>1, <1>6 DEF Apply, GoTo
  <2>2. work.intent # NoIntent
    <3>1. HolderTyped(p)
      BY <2>1 DEF EndInv, TypeInv, LockedAt
    <3> QED BY <2>1, <3>1, ConstAssumption DEF HolderTyped, ConstAssumption
  <2>3. ~InMigration(p)'
    BY <2>1, <2>2 DEF InMigration
  <2> QED BY <1>2, <1>3, <2>1, <2>3
<1>7. CASE Render(p)
  <2>1. /\ pc[p] = "render" /\ pc'[p] = "publish"
        /\ work'.intent = work.intent /\ op' = op
    BY <1>1, <1>7 DEF Render, GoTo, Work
  <2>2. InMigration(p)' = InMigration(p)
    BY <2>1 DEF InMigration
  <2> QED BY <1>2, <1>3, <2>1, <2>2
<1>8. CASE Publish(p)
  <2>1. /\ pc[p] = "publish" /\ work' = work
        /\ pc'[p] = IF InMigration(p) THEN "unsentinel" ELSE "clean"
    BY <1>1, <1>8 DEF Publish, GoTo
  <2> QED BY <1>2, <1>3, <2>1
<1>9. CASE Clean(p)
  <2>1. pc[p] = "clean" /\ pc'[p] = "commit" /\ work' = work
    BY <1>1, <1>9 DEF Clean, Release, Return, LockedAt
  <2> QED BY <1>2, <1>3, <2>1
<1>10. ~Decline(p) /\ ~RegenerateFails(p) /\ ~Commit(p)
  BY <1>1 DEF Decline, RegenerateFails, Commit, Release, Return, LockedAt
<1> QED BY <1>4, <1>5, <1>6, <1>7, <1>8, <1>9, <1>10 DEF MutateStep

\* An entry that is imported is out of the way.
LEMMA ConvertedIsLess ==
  ASSUME EndInv, IsFiniteSet(Entry), NEW p \in Proc, NEW e \in Entry, Convert(p, e)
  PROVE  Cardinality(Unconverted') = Cardinality(Unconverted) - 1
<1>1. PICK m \in Name : IsFreeName(Slug[e], m) /\ SetFact(m, Converted(e))
  BY DEF Convert
<1>2. facts \in [Name -> Value] /\ facts[m] = Absent /\ e \in Unconverted
  BY <1>1 DEF EndInv, TypeInv, TypeOK, IsFreeName, Convert
<1>3. facts' = [facts EXCEPT ![m] = Converted(e)]
  BY <1>1 DEF SetFact
<1>4. Converted(e).src = e /\ Converted(e) # Absent
  <2>1. Converted(e) \in Content
    BY ConstAssumption DEF ConstAssumption, Converted, Content
  <2> QED BY <2>1, ConstAssumption DEF ConstAssumption, Converted
<1>5. Present' = Present \cup {m} /\ m \notin Present
  BY <1>2, <1>3, <1>4 DEF Present
<1>6. Unconverted' = Unconverted \ {e}
  <2>1. ASSUME NEW x \in Entry
        PROVE  (\A n \in Present' : facts'[n].src # x) <=> x # e /\ \A n \in Present : facts[n].src # x
    <3>1. facts'[m].src = e /\ \A n \in Present : facts'[n] = facts[n]
      BY <1>2, <1>3, <1>4, <1>5 DEF Present
    <3> QED BY <1>5, <3>1
  <2> QED BY <2>1 DEF Unconverted
<1> QED BY <1>2, <1>6, UnconvertedType, FS_RemoveElement

LEMMA MigrateAdvances ==
  ASSUME EndInv, IsFiniteSet(Entry), NEW p \in Proc, MigrateStep(p), pc'[p] \in LockedAt
  PROVE  StepsLeft(p)' < StepsLeft(p)
<1>1. pc \in [Proc -> LockedAt \cup FreeAt] /\ work \in Work
  BY DEF EndInv, TypeInv, TypeOK
<1> DEFINE left == Cardinality(Unconverted)
           left1 == Cardinality(Unconverted')
<1>2. left \in Nat /\ left1 \in Nat
  BY UnconvertedType
<1>3. /\ pc[p] = "auto" => StepsLeft(p) = left + 13
      /\ pc[p] = "sentinel" => StepsLeft(p) = left + 12
      /\ pc[p] = "convert" => StepsLeft(p) = left + 11
      /\ pc[p] = "unsentinel" => StepsLeft(p) = 8
  BY DEF StepsLeft
<1>4. /\ pc'[p] = "sentinel" => StepsLeft(p)' = left1 + 12
      /\ pc'[p] = "convert" => StepsLeft(p)' = left1 + 11
      /\ pc'[p] = "render" => StepsLeft(p)' \in {10, 4}
      /\ pc'[p] = "choose" => StepsLeft(p)' = 7
  BY DEF StepsLeft
<1>5. facts' = facts => left1 = left
  BY DEF Unconverted, Present
<1> HIDE DEF left, left1
<1>6. CASE AutoMigrate(p)
  BY <1>1, <1>2, <1>3, <1>4, <1>5, <1>6 DEF AutoMigrate, disk
<1>7. CASE Sentinel(p)
  BY <1>1, <1>2, <1>3, <1>4, <1>5, <1>7 DEF Sentinel, GoTo
<1>8. ASSUME NEW e \in Entry, Convert(p, e)
      PROVE  StepsLeft(p)' < StepsLeft(p)
  <2>1. left1 = left - 1
    BY <1>8, ConvertedIsLess DEF left, left1
  <2> QED BY <1>2, <1>3, <1>4, <1>8, <2>1 DEF Convert
<1>9. CASE ConvertDone(p)
  BY <1>1, <1>2, <1>3, <1>4, <1>9 DEF ConvertDone, GoTo
<1>10. CASE Unsentinel(p)
  <2>1. pc[p] = "unsentinel" /\ pc'[p] = "choose"
    BY <1>1, <1>10 DEF Unsentinel, Release, Return, LockedAt, Work
  <2> QED BY <1>3, <1>4, <2>1
<1> QED BY <1>6, <1>7, <1>8, <1>9, <1>10 DEF MigrateStep

\* A reader that finds the index stale under the lock turns to recovery.
LEMMA RecheckAdvances ==
  ASSUME EndInv, IsFiniteSet(Entry), NEW p \in Proc, Recheck(p), pc'[p] \in LockedAt
  PROVE  StepsLeft(p)' < StepsLeft(p)
<1>1. pc \in [Proc -> LockedAt \cup FreeAt]
  BY DEF EndInv, TypeInv, TypeOK
<1>2. pc[p] = "recheck" /\ pc'[p] = "recover" /\ work'.todo = Danglers(journal)
  BY <1>1 DEF Recheck, Release, Return, LockedAt, NoWork
<1>3. IsFiniteSet(Danglers(journal)) /\ Cardinality(Danglers(journal)) \in Nat
  BY DanglersFinite, FS_CardinalityType DEF EndInv
<1>4. /\ StepsLeft(p) = Cardinality(Entry) + 14 + 3 * Cardinality(Danglers(journal)) + 1
      /\ StepsLeft(p)' = Cardinality(Entry) + 14 + 3 * Cardinality(Danglers(journal))
  BY <1>2 DEF StepsLeft
<1> QED BY <1>2, <1>3, <1>4, UnconvertedType

\* What a process without the lock does.
LEMMA OthersWait ==
  ASSUME EndInv, NEW q \in Proc, pc[q] \in FreeAt,
         Step(q) \/ Crash(q) \/ \E o \in Ops : Begin(q, o)
  PROVE  /\ UNCHANGED <<facts, journal, work, lock>>
         /\ \A p \in Proc : p # q => pc'[p] = pc[p] /\ op'[p] = op[p]
<1>1. /\ pc \in [Proc -> LockedAt \cup FreeAt] /\ op \in [Proc -> AllOps \cup {"none"}]
      /\ lock # q /\ pc[q] \notin LockedAt
  BY DEF EndInv, TypeInv, TypeOK, FreeAt, LockedAt
<1>2. CASE Step(q)
  <2>1. ReadSentinel(q) \/ ReadEmpty(q) \/ ReadStale(q) \/ ReadLoad(q)
    <3>1. ~RecoverStep(q)
      BY <1>1 DEF RecoverStep, RollForward, RollBack, WriteMarker, Redo, RedoFact, RedoCommit, GiveUp,
                  Proceed, FailClosed, Republish, NothingToRecover, Recovered, GoTo, LockedAt
    <3>2. ~MutateStep(q)
      BY <1>1 DEF MutateStep, ChooseWrite, ChoosePromote, ChooseDelete, ChooseRollback, Choose,
                  Decline, JournalIntent, Apply, Render, Publish, Clean, RegenerateFails, Commit,
                  GoTo, LockedAt
    <3>3. ~MigrateStep(q)
      BY <1>1 DEF MigrateStep, AutoMigrate, Sentinel, ConvertDone, Unsentinel, Convert, GoTo, LockedAt
    <3>4. ~Recheck(q)
      BY <1>1 DEF Recheck, LockedAt
    <3> QED BY <1>2, <3>1, <3>2, <3>3, <3>4 DEF Step, ReadStep
  <2> QED BY <1>1, <2>1
          DEF ReadSentinel, ReadEmpty, ReadStale, ReadLoad, LookAt, ReturnUnlocked, Return, GoTo, disk
<1>3. CASE Crash(q)
  BY <1>1, <1>3 DEF Crash, Return, disk
<1>4. ASSUME NEW o \in Ops, Begin(q, o)
      PROVE  /\ UNCHANGED <<facts, journal, work, lock>>
             /\ \A p \in Proc : p # q => pc'[p] = pc[p] /\ op'[p] = op[p]
  BY <1>1, <1>4 DEF Begin, GoTo, disk
<1> QED BY <1>2, <1>3, <1>4

\* What recovery is to look at is part of the journal it found.
LEMMA TodoFinite == ASSUME EndInv, [Next]_vars PROVE IsFiniteSet(work'.todo)
<1> DEFINE Fine == IsFiniteSet(work'.todo)
<1>1. work \in Work /\ IsFiniteSet(work.todo) /\ IsFiniteSet(NoWork.todo)
  BY FS_EmptySet DEF EndInv, TypeInv, TypeOK, NoWork
<1>2. work' = work \/ work' = NoWork \/ work'.todo = work.todo => Fine
  BY <1>1
<1>3. ASSUME NEW e, work'.todo = work.todo \ {e} PROVE Fine
  BY <1>1, <1>3, FS_RemoveElement
<1>4. work'.todo = Danglers(journal) => Fine
  BY DanglersFinite DEF EndInv
<1> HIDE DEF Fine
<1>5. ASSUME NEW p \in Proc, NEW e,
             RollForward(p, e) \/ WriteMarker(p, e) \/ RedoCommit(p, e) \/ GiveUp(p, e)
      PROVE  Fine
  <2>1. work'.todo = work.todo \ {e}
    BY <1>1, <1>5 DEF RollForward, WriteMarker, RedoCommit, GiveUp, Resolve, Work
  <2> QED BY <1>3, <2>1
<1>6. ASSUME NEW p \in Proc, RecoverStep(p) PROVE Fine
  <2>1. ASSUME NEW e, RollBack(p, e) \/ Redo(p, e) \/ RedoFact(p, e) PROVE Fine
    BY <1>2, <2>1 DEF RollBack, Redo, RedoFact
  <2>2. Proceed(p) \/ FailClosed(p) \/ Republish(p) \/ NothingToRecover(p) => Fine
    BY <1>2 DEF Proceed, FailClosed, Republish, NothingToRecover, Release
  <2> QED BY <1>5, <1>6, <2>1, <2>2 DEF RecoverStep
<1>7. ASSUME NEW p \in Proc, MutateStep(p) PROVE Fine
  <2>1. ASSUME NEW e, Choose(p, e) PROVE Fine
    BY <1>1, <1>2, <2>1 DEF Choose, Work
  <2>2. ChooseWrite(p) \/ ChoosePromote(p) \/ ChooseDelete(p) \/ ChooseRollback(p) => Fine
    BY <2>1 DEF ChooseWrite, ChoosePromote, ChooseDelete, ChooseRollback
  <2>3. Decline(p) \/ JournalIntent(p) \/ Apply(p) \/ Publish(p) \/ Clean(p) => Fine
    BY <1>2 DEF Decline, JournalIntent, Apply, Publish, Clean, Release
  <2>4. Render(p) => Fine
    BY <1>1, <1>2 DEF Render, Work
  <2>5. RegenerateFails(p) \/ Commit(p) => Fine
    BY <1>2 DEF RegenerateFails, Commit, Release
  <2> QED BY <1>7, <2>2, <2>3, <2>4, <2>5 DEF MutateStep
<1>8. ASSUME NEW p \in Proc, MigrateStep(p) PROVE Fine
  <2>1. AutoMigrate(p) \/ Sentinel(p) \/ ConvertDone(p) \/ (\E e \in Entry : Convert(p, e)) => Fine
    BY <1>2 DEF AutoMigrate, Sentinel, ConvertDone, Convert
  <2>2. Unsentinel(p) => Fine
    BY <1>1, <1>2 DEF Unsentinel, Release, Work
  <2> QED BY <1>8, <2>1, <2>2 DEF MigrateStep
<1>9. ASSUME NEW p \in Proc, ReadStep(p) PROVE Fine
  <2>1. Recheck(p) => Fine
    BY <1>2, <1>4 DEF Recheck, Release, NoWork
  <2> QED BY <1>2, <1>9, <2>1 DEF ReadStep, ReadSentinel, ReadEmpty, ReadStale, ReadLoad, LookAt, ReturnUnlocked
<1>10. ASSUME NEW p \in Proc, Acquire(p) \/ Crash(p) \/ \E o \in Ops : Begin(p, o) PROVE Fine
  BY <1>2, <1>4, <1>10 DEF Acquire, Crash, Begin, NoWork
<1>11. ASSUME NEW n \in Name, NEW v \in Content, Edit(n, v) PROVE Fine
  BY <1>2, <1>11 DEF Edit
<1>12. UNCHANGED vars => Fine
  BY <1>2 DEF vars
<1> QED BY <1>6, <1>7, <1>8, <1>9, <1>10, <1>11, <1>12 DEF Next, Step, Fine

LEMMA HolderAdvances ==
  ASSUME EndInv, IsFiniteSet(Entry), NEW p \in Proc, Step(p), pc[p] \in LockedAt, pc'[p] \in LockedAt
  PROVE  StepsLeft(p)' < StepsLeft(p)
<1>1. CASE RecoverStep(p)
  BY <1>1, RecoverAdvances
<1>2. CASE MutateStep(p)
  BY <1>2, MutateAdvances
<1>3. CASE MigrateStep(p)
  BY <1>3, MigrateAdvances
<1>4. CASE ReadStep(p)
  <2>1. Recheck(p)
    BY <1>4 DEF ReadStep, ReadSentinel, ReadEmpty, ReadStale, ReadLoad, LookAt, GoTo, LockedAt
  <2> QED BY <2>1, RecheckAdvances
<1> QED BY <1>1, <1>2, <1>3, <1>4 DEF Step

LEMMA EndStep ==
  ASSUME EndInv, IsFiniteSet(Entry), ~EditsUnderLock, [Next]_vars
  PROVE  EndInv' /\ Advances
<1>1. EndInv'
  BY NextKeepsTypeInv, TodoFinite DEF EndInv
<1>2. /\ \A q \in Proc : (pc[q] \in LockedAt <=> lock = q) /\ pc[q] \in LockedAt \cup FreeAt
      /\ \A q \in Proc : pc'[q] \in LockedAt <=> lock' = q
      /\ NoProc \notin Proc
  BY <1>1, ConstAssumption DEF EndInv, TypeInv, TypeOK, ConstAssumption
<1>3. SUFFICES ASSUME NEW p \in Proc, lock = p, lock' = p
               PROVE  \/ StepsLeft(p)' < StepsLeft(p)
                      \/ UNCHANGED <<facts, journal, work, pc[p], op[p]>>
  BY <1>1 DEF Advances
<1>4. CASE Step(p)
  BY <1>2, <1>3, <1>4, HolderAdvances
<1>5. ASSUME NEW q \in Proc \ {p}, Step(q) \/ Crash(q) \/ \E o \in Ops : Begin(q, o)
      PROVE  UNCHANGED <<facts, journal, work, pc[p], op[p]>>
  <2>1. pc[q] \in FreeAt
    BY <1>2, <1>3
  <2> QED BY <1>5, <2>1, OthersWait
<1>6. \A q \in Proc : ~Acquire(q)
  BY <1>2, <1>3 DEF Acquire
<1>7. ~Crash(p) /\ \A o \in Ops : ~Begin(p, o)
  BY <1>2, <1>3 DEF Crash, Begin, GoTo, LockedAt
<1>8. \A n \in Name, v \in Content : ~Edit(n, v)
  BY <1>2, <1>3 DEF Edit
<1>9. CASE UNCHANGED vars
  BY <1>9 DEF vars
<1> QED BY <1>4, <1>5, <1>6, <1>7, <1>8, <1>9 DEF Next

\* Whatever a call finds, it is through with the lock after a bounded number of steps
\* of its own, and nothing that others do puts it back: no loop of recovery or of
\* migration goes on for ever, however many intents, entries and processes there are.
THEOREM CallsAdvance ==
  IsFiniteSet(Entry) /\ ~EditsUnderLock =>
    (Spec \/ LegacySpec => [](\A p \in Proc : lock = p => StepsLeft(p) \in Nat \ {0}) /\ [][Advances]_vars)
<1> SUFFICES ASSUME IsFiniteSet(Entry), ~EditsUnderLock
             PROVE  Spec \/ LegacySpec =>
                      [](\A p \in Proc : lock = p => StepsLeft(p) \in Nat \ {0}) /\ [][Advances]_vars
  OBVIOUS
<1>1. Init \/ LegacyInit => EndInv
  <2>1. Init \/ LegacyInit => work = NoWork
    BY DEF Init, LegacyInit, AtRest
  <2>2. IsFiniteSet(NoWork.todo)
    BY FS_EmptySet DEF NoWork
  <2> QED BY <2>1, <2>2, TypeInvInit, LegacyTypeInvInit DEF EndInv
<1>2. EndInv /\ [Next]_vars => EndInv' /\ [Advances]_vars
  BY EndStep
<1>3. EndInv => \A p \in Proc : lock = p => StepsLeft(p) \in Nat \ {0}
  <2> SUFFICES ASSUME EndInv, NEW p \in Proc, lock = p PROVE StepsLeft(p) \in Nat \ {0}
    OBVIOUS
  <2>1. pc[p] \in LockedAt
    BY DEF EndInv, TypeInv, TypeOK
  <2>2. /\ Cardinality(Entry) \in Nat /\ Cardinality(Unconverted) \in Nat
        /\ Cardinality(work.todo) \in Nat /\ Cardinality(Danglers(journal)) \in Nat
    BY UnconvertedType, DanglersFinite, FS_CardinalityType DEF EndInv
  <2> QED BY <2>1, <2>2 DEF StepsLeft, LockedAt
<1> QED BY <1>1, <1>2, <1>3, PTL DEF Spec, LegacySpec
=============================================================================
