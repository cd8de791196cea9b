------------------------ MODULE MemoryJournalProofs ------------------------
(***************************************************************************)
(* Proofs about the journal of MemoryStore: one intent in flight and the   *)
(* write-ahead rule; recovery that never wedges; the journal as an account *)
(* of the facts; the refinement of FactHistory; and the completeness of a  *)
(* migration.                                                              *)
(***************************************************************************)
EXTENDS MemoryRefinement, MemoryStoreProofs

-----------------------------------------------------------------------------
(* What the journal says, record by record                                 *)

\* A mutation changes its fact; a rollback undoes an earlier mutation, and restores
\* what its post-image says.  The single-phase version has left mutations only.
Coherent(j) ==
  /\ \A e \in Entries(j) :
       /\ e.op \in ForwardOps => e.pre # e.post /\ e.seq \in 1 .. MaxSeq
       /\ e.op = "rollback" => e.target < e.seq /\ e.flag # "none"
       /\ e.op = "rollback" /\ e.flag = "open" => e.pre # e.post /\ e.restore = e.post
  /\ \A e, x \in Entries(j) : x.op = "rollback" /\ x.target = e.seq => e.op \in ForwardOps

\* A record is told by its number.
LEMMA EntriesType ==
  ASSUME NEW j \in Seq(JournalEntry), Sorted(j)
  PROVE  /\ Entries(j) \subseteq JournalEntry
         /\ \A e, f \in Entries(j) : e.seq = f.seq => e = f
         /\ \A e \in Entries(j) : e.seq \in Nat /\ e.seq <= LastSeq(j)
         /\ LastSeq(j) \in Nat
<1>1. DOMAIN j = 1 .. Len(j) /\ Len(j) \in Nat
  OBVIOUS
<1>2. \A i \in DOMAIN j : j[i] \in JournalEntry
  BY <1>1
<1>3. \A i, k \in DOMAIN j : j[i].seq = j[k].seq => i = k
  <2> SUFFICES ASSUME NEW i \in DOMAIN j, NEW k \in DOMAIN j, j[i].seq = j[k].seq
               PROVE  i = k
    OBVIOUS
  <2>1. j[i].seq \in Nat /\ j[k].seq \in Nat
    BY <1>2 DEF JournalEntry
  <2>2. ~(i < k) /\ ~(k < i)
    BY <2>1 DEF Sorted
  <2> QED BY <1>1, <2>2
<1>4. Entries(j) \subseteq JournalEntry
  BY <1>2 DEF Entries
<1>5. \A e, f \in Entries(j) : e.seq = f.seq => e = f
  BY <1>3 DEF Entries
<1> QED BY <1>4, <1>5, LastSeqOfSorted DEF JournalEntry

\* A record of the single-phase version that may not have landed: no later mutation
\* of its fact shows that it has.
Candidate(j, e) ==
  /\ e.op \in ForwardOps
  /\ e.flag = "none"
  /\ \A f \in Entries(j) : f.op \in ForwardOps /\ f.name = e.name => f.seq <= e.seq

LEMMA Dangling ==
  ASSUME NEW j, NEW e \in Entries(j)
  PROVE  IsDangling(j, e) <=> e.flag = "open" \/ Candidate(j, e)
BY DEF IsDangling, LegacyCandidates, Candidate

LEMMA Views ==
  ASSUME NEW j
  PROVE  /\ Danglers(j) = {e \in Entries(j) : (e.flag = "open" \/ Candidate(j, e))
                                              /\ e.seq \notin Reverted(j)}
         /\ Reverted(j) = {e.target : e \in {x \in Entries(j) : x.op = "rollback"
                                                               /\ x.flag # "open"}}
         /\ Unreverted(j) = {e \in Entries(j) : e.op \in ForwardOps /\ e.seq \notin Reverted(j)}
BY Dangling DEF Danglers, Reverted, Unreverted

\* A newer part of a journal says of its records what the whole journal said.
Suffix(k, j) ==
  /\ Entries(k) \subseteq Entries(j)
  /\ \A e \in Entries(k), f \in Entries(j) : e.seq <= f.seq => f \in Entries(k)

LEMMA TruncatedSuffix ==
  ASSUME NEW j \in Seq(JournalEntry), Sorted(j), NEW k \in Truncated(j)
  PROVE  Suffix(k, j) /\ \A f \in Entries(j) : f.seq = LastSeq(j) => f \in Entries(k)
<1>1. PICK i \in DOMAIN j : k = SubSeq(j, i, Len(j))
  BY DEF Truncated
<1>2. i \in 1 .. Len(j) /\ Len(j) \in Nat /\ DOMAIN j = 1 .. Len(j)
  BY <1>1
<1>3. /\ k \in Seq(JournalEntry)
      /\ Len(k) = Len(j) - i + 1
      /\ \A m \in 1 .. Len(k) : k[m] = j[i + m - 1]
  BY <1>1, <1>2
<1>4. DOMAIN k = 1 .. Len(k)
  BY <1>3
<1>5. ASSUME NEW m \in 1 .. Len(j), m >= i PROVE j[m] \in Entries(k)
  <2>1. m - i + 1 \in 1 .. Len(k) /\ i + (m - i + 1) - 1 = m
    BY <1>2, <1>3, <1>5
  <2>2. k[m - i + 1] = j[m]
    BY <1>3, <2>1
  <2> QED BY <1>4, <2>1, <2>2 DEF Entries
<1>6. Entries(k) \subseteq Entries(j)
  <2> SUFFICES ASSUME NEW m \in 1 .. Len(k) PROVE k[m] \in Entries(j)
    BY <1>4 DEF Entries
  <2>1. i + m - 1 \in DOMAIN j
    BY <1>2, <1>3
  <2> QED BY <1>3, <2>1 DEF Entries
<1>7. ASSUME NEW m \in 1 .. Len(k), NEW f \in Entries(j), k[m].seq <= f.seq
      PROVE  f \in Entries(k)
  <2>1. PICK n \in DOMAIN j : f = j[n]
    BY DEF Entries
  <2>2. i + m - 1 \in DOMAIN j /\ k[m] = j[i + m - 1]
    BY <1>2, <1>3
  <2>3. j[n].seq \in Nat /\ j[i + m - 1].seq \in Nat
    BY <2>1, <2>2, EntriesType DEF Entries
  <2>4. ~(n < i + m - 1)
    BY <1>7, <2>1, <2>2, <2>3 DEF Sorted
  <2> QED BY <1>2, <1>5, <2>1, <2>2, <2>4
<1>8. \A f \in Entries(j) : f.seq = LastSeq(j) => f \in Entries(k)
  <2> SUFFICES ASSUME NEW f \in Entries(j), f.seq = LastSeq(j) PROVE f \in Entries(k)
    OBVIOUS
  <2>1. j # <<>> /\ Len(j) \in DOMAIN j
    BY <1>2
  <2>2. j[Len(j)] \in Entries(j) /\ j[Len(j)].seq = LastSeq(j)
    BY <2>1, LastSeqOfSorted DEF Entries
  <2>3. f = j[Len(j)]
    BY <2>2, EntriesType
  <2> QED BY <1>2, <1>5, <2>3
<1>9. \A e \in Entries(k), f \in Entries(j) : e.seq <= f.seq => f \in Entries(k)
  BY <1>4, <1>7 DEF Entries
<1> QED BY <1>6, <1>8, <1>9 DEF Suffix

LEMMA SuffixViews ==
  ASSUME NEW j \in Seq(JournalEntry), Sorted(j), Coherent(j), NEW k, Suffix(k, j)
  PROVE  /\ Coherent(k)
         /\ Danglers(k) = Danglers(j) \cap Entries(k)
         /\ Unreverted(k) = Unreverted(j) \cap Entries(k)
<1>1. Coherent(k)
  BY DEF Coherent, Suffix
<1>2. ASSUME NEW e \in Entries(k) PROVE e.seq \in Reverted(k) <=> e.seq \in Reverted(j)
  <2>1. ASSUME NEW x \in Entries(j), x.op = "rollback", x.target = e.seq
        PROVE  x \in Entries(k)
    <3>1. e.seq \in Nat /\ x.seq \in Nat /\ x.target < x.seq
      BY <2>1, EntriesType DEF Suffix, Coherent
    <3> QED BY <2>1, <3>1 DEF Suffix
  <2> QED BY <1>1, <2>1, Views DEF Suffix
<1>3. ASSUME NEW e \in Entries(k) PROVE Candidate(k, e) <=> Candidate(j, e)
  <2>1. \A f \in Entries(j) : f.seq <= e.seq \/ f \in Entries(k)
    BY EntriesType DEF Suffix
  <2> QED BY <2>1 DEF Candidate, Suffix
<1> QED BY <1>1, <1>2, <1>3, Views DEF Suffix

LEMMA AppendEntries ==
  ASSUME NEW j \in Seq(JournalEntry), NEW r
  PROVE  Entries(Append(j, r)) = Entries(j) \cup {r}
<1>1. DOMAIN j = 1 .. Len(j) /\ Len(j) \in Nat
  OBVIOUS
<1>2. /\ DOMAIN Append(j, r) = 1 .. Len(j) + 1
      /\ \A i \in 1 .. Len(j) : Append(j, r)[i] = j[i]
      /\ Append(j, r)[Len(j) + 1] = r
  OBVIOUS
<1>3. ASSUME NEW e, e \in Entries(Append(j, r)) PROVE e \in Entries(j) \cup {r}
  <2>1. PICK i \in 1 .. Len(j) + 1 : e = Append(j, r)[i]
    BY <1>2, <1>3 DEF Entries
  <2>2. i = Len(j) + 1 \/ i \in 1 .. Len(j)
    BY <1>1
  <2> QED BY <1>1, <1>2, <2>1, <2>2 DEF Entries
<1>4. ASSUME NEW i \in 1 .. Len(j) PROVE j[i] \in Entries(Append(j, r))
  <2>1. i \in 1 .. Len(j) + 1
    BY <1>1
  <2> QED BY <1>2, <2>1 DEF Entries
<1>5. r \in Entries(Append(j, r))
  <2>1. Len(j) + 1 \in 1 .. Len(j) + 1
    BY <1>1
  <2> QED BY <1>2, <2>1 DEF Entries
<1>6. Entries(j) \subseteq Entries(Append(j, r))
  BY <1>1, <1>4 DEF Entries
<1> QED BY <1>3, <1>5, <1>6

\* A record that may follow a journal.
MayFollow(r, j) ==
  /\ r \in JournalEntry
  /\ r.seq = LastSeq(j) + 1
  /\ r.flag # "none"
  /\ r.op \in ForwardOps => r.pre # r.post /\ r.seq \in 1 .. MaxSeq
  /\ r.op = "rollback" => /\ r.target < r.seq
                          /\ \A e \in Entries(j) : e.seq = r.target => e.op \in ForwardOps
  /\ r.op = "rollback" /\ r.flag = "open" => r.pre # r.post /\ r.restore = r.post

\* What journaling such a record does to what the journal says.
LEMMA Appending ==
  ASSUME NEW j \in Seq(JournalEntry), Sorted(j), Coherent(j), NEW r, MayFollow(r, j),
         NEW k \in Truncated(Append(j, r))
  PROVE  /\ Coherent(k) /\ k \in Seq(JournalEntry) /\ Sorted(k)
         /\ r \in Entries(k) /\ LastSeq(k) = r.seq
         /\ Suffix(k, Append(j, r))
         /\ Entries(k) \subseteq Entries(j) \cup {r}
         /\ r.flag = "open" =>
              /\ Danglers(j) = {} => Danglers(k) = {r}
              /\ r.op \in ForwardOps => Unreverted(k) = (Unreverted(j) \cap Entries(k)) \cup {r}
              /\ r.op = "rollback" => Unreverted(k) = Unreverted(j) \cap Entries(k)
         /\ r.flag = "done" /\ r.op = "rollback" =>
              /\ Danglers(k) = {e \in Danglers(j) \cap Entries(k) : e.seq # r.target}
              /\ Unreverted(k) = {e \in Unreverted(j) \cap Entries(k) : e.seq # r.target}
<1> DEFINE a == Append(j, r)
<1>1. a \in Seq(JournalEntry) /\ Sorted(a) /\ Entries(a) = Entries(j) \cup {r}
  BY AppendSorted, AppendEntries DEF MayFollow
<1>2. /\ \A e \in Entries(j) : e.seq \in Nat /\ e.seq < r.seq
      /\ r \notin Entries(j) /\ r.seq \in Nat
  BY EntriesType DEF MayFollow
<1>3. r.op \in ForwardOps \/ r.op = "rollback"
  BY DEF MayFollow, JournalEntry
<1>4. "rollback" \notin ForwardOps
  BY DEF ForwardOps
<1>5. \A e \in Entries(j) : e.op = "rollback" => e.target # r.seq
  <2> SUFFICES ASSUME NEW e \in Entries(j), e.op = "rollback" PROVE e.target # r.seq
    OBVIOUS
  <2>1. e.target \in Nat /\ e.seq \in Nat /\ e.target < e.seq /\ e.seq < r.seq
    BY <1>2, EntriesType DEF Coherent, JournalEntry
  <2> QED BY <1>2, <2>1
<1>6. r.op = "rollback" => r.target # r.seq
  <2>1. r.target \in Nat
    BY DEF MayFollow, JournalEntry
  <2> QED BY <1>2, <2>1 DEF MayFollow
<1>7. Coherent(a)
  <2>1. \A e \in Entries(a) :
          /\ e.op \in ForwardOps => e.pre # e.post /\ e.seq \in 1 .. MaxSeq
          /\ e.op = "rollback" => e.target < e.seq /\ e.flag # "none"
          /\ e.op = "rollback" /\ e.flag = "open" => e.pre # e.post /\ e.restore = e.post
    BY <1>1 DEF Coherent, MayFollow
  <2>2. \A e, x \in Entries(a) : x.op = "rollback" /\ x.target = e.seq => e.op \in ForwardOps
    BY <1>1, <1>5, <1>6 DEF Coherent, MayFollow
  <2> HIDE DEF a
  <2> QED BY <2>1, <2>2 DEF Coherent
<1> HIDE DEF a
<1>8. k \in Truncated(a)
  BY DEF a
<1>9. Suffix(k, a) /\ k \in Seq(JournalEntry) /\ Sorted(k) /\ LastSeq(k) = LastSeq(a)
  BY <1>1, <1>8, TruncatedSuffix, TruncatedSorted, TruncatedKeepsLast
<1>10. LastSeq(a) = r.seq
  <2>1. \A e \in Entries(a) : e.seq <= r.seq
    BY <1>1, <1>2
  <2>2. r.seq <= LastSeq(a) /\ LastSeq(a) \in Nat
    BY <1>1, EntriesType
  <2>3. a # <<>> /\ LastSeq(a) = a[Len(a)].seq /\ a[Len(a)] \in Entries(a)
    <3>1. a # <<>> /\ Len(a) \in DOMAIN a
      BY DEF a
    <3> QED BY <1>1, <3>1, LastSeqOfSorted DEF Entries
  <2> QED BY <1>2, <2>1, <2>2, <2>3
<1>11. r \in Entries(k)
  BY <1>1, <1>8, <1>10, TruncatedSuffix
<1>12. /\ Coherent(k)
       /\ Danglers(k) = Danglers(a) \cap Entries(k)
       /\ Unreverted(k) = Unreverted(a) \cap Entries(k)
  BY <1>1, <1>7, <1>9, SuffixViews
<1>13. Reverted(a) = Reverted(j) \cup (IF r.op = "rollback" /\ r.flag # "open"
                                       THEN {r.target} ELSE {})
  BY <1>1, <1>7, Views
<1>14. r.seq \notin Reverted(a)
  <2>1. r.seq \notin Reverted(j)
    BY <1>5, Views
  <2> QED BY <1>6, <1>13, <2>1
<1>15. ASSUME r.flag = "open"
       PROVE  /\ Danglers(j) = {} => Danglers(a) = {r}
              /\ r.op \in ForwardOps => Unreverted(a) = Unreverted(j) \cup {r}
              /\ r.op = "rollback" => Unreverted(a) = Unreverted(j)
  <2>1. Reverted(a) = Reverted(j)
    BY <1>13, <1>15
  <2>2. Danglers(j) = {} => Danglers(a) = {r}
    <3>1. \A e \in Entries(j) : Candidate(a, e) => Candidate(j, e)
      BY <1>1 DEF Candidate
    <3> QED BY <1>1, <1>14, <1>15, <2>1, <3>1, Views
  <2>3. r.op \in ForwardOps => Unreverted(a) = Unreverted(j) \cup {r}
    <3>1. Unreverted(a) = {e \in Entries(j) \cup {r} :
                            e.op \in ForwardOps /\ e.seq \notin Reverted(j)}
      BY <1>1, <1>7, <2>1, Views
    <3>2. Unreverted(j) = {e \in Entries(j) : e.op \in ForwardOps /\ e.seq \notin Reverted(j)}
      BY Views
    <3>3. r.seq \notin Reverted(j)
      BY <1>14, <2>1
    <3> QED BY <3>1, <3>2, <3>3
  <2>4. r.op = "rollback" => Unreverted(a) = Unreverted(j)
    <3>1. Unreverted(a) = {e \in Entries(j) \cup {r} :
                            e.op \in ForwardOps /\ e.seq \notin Reverted(j)}
      BY <1>1, <1>7, <2>1, Views
    <3>2. Unreverted(j) = {e \in Entries(j) : e.op \in ForwardOps /\ e.seq \notin Reverted(j)}
      BY Views
    <3> QED BY <1>4, <3>1, <3>2
  <2> QED BY <2>2, <2>3, <2>4
<1>16. ASSUME r.flag = "done", r.op = "rollback"
       PROVE  /\ Danglers(a) = {e \in Danglers(j) : e.seq # r.target}
              /\ Unreverted(a) = {e \in Unreverted(j) : e.seq # r.target}
  <2>1. /\ \A e \in Entries(j) : Candidate(a, e) <=> Candidate(j, e)
        /\ ~Candidate(a, r)
    BY <1>1, <1>4, <1>16 DEF Candidate
  <2> QED BY <1>1, <1>4, <1>13, <1>16, <2>1, Views
<1>17. Entries(k) \subseteq Entries(j) \cup {r}
  BY <1>1, <1>9 DEF Suffix
<1>18. Suffix(k, Append(j, r))
  BY <1>9 DEF a
<1>19. r.flag = "open" =>
              /\ Danglers(j) = {} => Danglers(k) = {r}
              /\ r.op \in ForwardOps => Unreverted(k) = (Unreverted(j) \cap Entries(k)) \cup {r}
              /\ r.op = "rollback" => Unreverted(k) = Unreverted(j) \cap Entries(k)
  BY <1>11, <1>12, <1>15
<1>20. r.flag = "done" /\ r.op = "rollback" =>
              /\ Danglers(k) = {e \in Danglers(j) \cap Entries(k) : e.seq # r.target}
              /\ Unreverted(k) = {e \in Unreverted(j) \cap Entries(k) : e.seq # r.target}
  BY <1>12, <1>16
<1> QED BY <1>9, <1>10, <1>11, <1>12, <1>17, <1>18, <1>19, <1>20

\* The same record, committed.
Done(e) == [e EXCEPT !.flag = "done"]

LEMMA DoneType ==
  ASSUME NEW e \in JournalEntry
  PROVE  /\ Done(e) \in JournalEntry /\ Done(e).flag = "done"
         /\ Done(e).seq = e.seq /\ Done(e).op = e.op /\ Done(e).name = e.name
         /\ Done(e).pre = e.pre /\ Done(e).post = e.post /\ Done(e).target = e.target
         /\ Done(e).restore = e.restore
BY DEF Done, JournalEntry, Flag

\* What committing a record does to what the journal says.
LEMMA Flipping ==
  ASSUME NEW j \in Seq(JournalEntry), Sorted(j), Coherent(j),
         NEW d \in Entries(j), d.flag # "done", NEW k, k = Flipped(j, d.seq)
  PROVE  /\ k \in Seq(JournalEntry) /\ Sorted(k) /\ Coherent(k) /\ LastSeq(k) = LastSeq(j)
         /\ Entries(k) = (Entries(j) \ {d}) \cup {Done(d)}
         /\ d.op \in ForwardOps => Reverted(k) = Reverted(j)
         /\ d.op = "rollback" => Reverted(k) = Reverted(j) \cup {d.target}
         /\ Danglers(k) \subseteq Danglers(j) \ {d}
         /\ d.op \in ForwardOps => Danglers(k) = Danglers(j) \ {d}
<1>1. k \in Seq(JournalEntry) /\ Sorted(k) /\ LastSeq(k) = LastSeq(j)
  BY FlippedSorted, FlippedKeepsLast
<1>2. Entries(j) \subseteq JournalEntry /\ \A e, f \in Entries(j) : e.seq = f.seq => e = f
  BY EntriesType
<1>3. DOMAIN k = DOMAIN j /\ \A i \in DOMAIN j : k[i] = IF j[i] = d THEN Done(d) ELSE j[i]
  <2>1. DOMAIN k = DOMAIN j
    BY DEF Flipped
  <2>2. ASSUME NEW i \in DOMAIN j PROVE k[i] = IF j[i] = d THEN Done(d) ELSE j[i]
    <3>1. j[i] \in Entries(j)
      BY DEF Entries
    <3>2. j[i].seq = d.seq <=> j[i] = d
      BY <1>2, <3>1
    <3> QED BY <3>2 DEF Flipped, Done
  <2> QED BY <2>1, <2>2
<1>4. Entries(k) = (Entries(j) \ {d}) \cup {Done(d)}
  <2>1. Done(d) # d
    BY <1>2, DoneType
  <2>2. PICK m \in DOMAIN j : j[m] = d
    BY DEF Entries
  <2>3. k[m] = Done(d)
    BY <1>3, <2>2
  <2>4. \A e : e \in Entries(k) <=> \E i \in DOMAIN k : e = k[i]
    BY DEF Entries
  <2>5. \A e : e \in Entries(j) <=> \E i \in DOMAIN j : e = j[i]
    BY DEF Entries
  <2>6. ASSUME NEW e \in Entries(k) PROVE e \in (Entries(j) \ {d}) \cup {Done(d)}
    BY <1>3, <2>4, <2>5
  <2>7. ASSUME NEW e \in Entries(j), e # d PROVE e \in Entries(k)
    BY <1>3, <2>4, <2>5, <2>7
  <2>8. Done(d) \in Entries(k)
    BY <1>3, <2>2, <2>3, <2>4
  <2> QED BY <2>6, <2>7, <2>8
<1>5. /\ Done(d).flag = "done" /\ Done(d).seq = d.seq /\ Done(d).op = d.op
      /\ Done(d).pre = d.pre /\ Done(d).post = d.post /\ Done(d).target = d.target
      /\ "rollback" \notin ForwardOps /\ d.op \in ForwardOps \cup {"rollback"}
  BY <1>2, DoneType DEF ForwardOps, JournalEntry
<1>6. Coherent(k)
  <2>1. \A e \in Entries(k) :
          /\ e.op \in ForwardOps => e.pre # e.post /\ e.seq \in 1 .. MaxSeq
          /\ e.op = "rollback" => e.target < e.seq /\ e.flag # "none"
          /\ e.op = "rollback" /\ e.flag = "open" => e.pre # e.post /\ e.restore = e.post
    BY <1>4, <1>5 DEF Coherent
  <2>2. \A e, x \in Entries(k) : x.op = "rollback" /\ x.target = e.seq => e.op \in ForwardOps
    BY <1>4, <1>5 DEF Coherent
  <2> QED BY <2>1, <2>2 DEF Coherent
<1>7. d.op \in ForwardOps => Reverted(k) = Reverted(j)
  <2> HAVE d.op \in ForwardOps
  <2>1. d.op # "rollback"
    BY <1>5
  <2>2. {x \in Entries(k) : x.op = "rollback" /\ x.flag # "open"}
          = {x \in Entries(j) : x.op = "rollback" /\ x.flag # "open"}
    BY <1>4, <1>5, <2>1
  <2> QED BY <2>2, Views
<1>8. d.op = "rollback" => Reverted(k) = Reverted(j) \cup {d.target}
  <2> HAVE d.op = "rollback"
  <2>1. d.flag = "open"
    BY <1>2 DEF Coherent, JournalEntry, Flag
  <2> QED BY <1>4, <1>5, <2>1, Views
<1>9. ASSUME NEW e \in Entries(j), e # d
      PROVE  e \in Entries(k) /\ (Candidate(k, e) <=> Candidate(j, e))
  <2>1. e \in Entries(k)
    BY <1>4, <1>9
  <2>2. /\ \A f \in Entries(k) : \E g \in Entries(j) :
             g.op = f.op /\ g.name = f.name /\ g.seq = f.seq
        /\ \A g \in Entries(j) : \E f \in Entries(k) :
             g.op = f.op /\ g.name = f.name /\ g.seq = f.seq
    BY <1>2, <1>4, <1>5, DoneType
  <2> QED BY <2>1, <2>2 DEF Candidate
<1>10. ~Candidate(k, Done(d))
  BY <1>5 DEF Candidate
<1>11. Reverted(j) \subseteq Reverted(k)
  BY <1>5, <1>7, <1>8
<1>12. Danglers(k) \subseteq Danglers(j) \ {d}
  <2> SUFFICES ASSUME NEW e \in Danglers(k) PROVE e \in Danglers(j) \ {d}
    OBVIOUS
  <2>1. e # Done(d) /\ e \in Entries(j) /\ e # d
    BY <1>4, <1>5, <1>10, DoneType, Views
  <2> QED BY <1>9, <1>11, <2>1, Views
<1>13. d.op \in ForwardOps => Danglers(k) = Danglers(j) \ {d}
  BY <1>7, <1>9, <1>12, Views
<1> QED BY <1>1, <1>4, <1>6, <1>7, <1>8, <1>12, <1>13

-----------------------------------------------------------------------------
(* One intent at a time *)

\* An intent dangles alone, and is the newest record.  Of the records that the
\* single-phase version left several may dangle, one of each fact.
Sole ==
  \A e \in Danglers(journal) :
    e.flag = "open" => e.seq = LastSeq(journal) /\ Danglers(journal) = {e}

\* A mutation that recovery is still to look at, while retention has dropped its
\* record to make room for what recovery wrote about others.
Dropped(e) ==
  /\ e \in JournalEntry /\ e.op \in ForwardOps /\ e.seq <= LastSeq(journal)
  /\ \A f \in Entries(journal) : e.seq < f.seq

\* A rollback undoes the newest mutation of its fact that is in force.
Undoes(r) ==
  \E e \in Unreverted(journal) :
    /\ e.seq = r.target /\ e.name = r.name /\ e.pre = r.post /\ e.post = r.pre
    /\ \A f \in Unreverted(journal) : f.name = e.name => f.seq <= e.seq

Chosen(r) ==
  /\ r.flag = "open" /\ r.pre # r.post
  /\ r.op \in ForwardOps => r.seq \in 1 .. MaxSeq
  /\ r.op = "rollback" => r.restore = r.post /\ Undoes(r)

Recovering == {"recover", "marker", "redo", "recommit"}
Mutating   == {"intent", "apply", "render", "publish", "clean", "commit"}

\* Where the lock holder is tells where the fact of its record is, as long as nobody
\* edits behind its back.
HolderFacts(p) ==
  /\ pc[p] \in {"intent", "apply"} => facts[work.intent.name] = work.intent.pre
  /\ pc[p] \in Mutating \ {"intent", "apply"} /\ work.intent # NoIntent
       => facts[work.intent.name] = work.intent.post
  /\ pc[p] \in {"marker", "redo"} => \A e : Oldest(e) => facts[e.name] = e.pre
  /\ pc[p] = "recommit" => \A e : Oldest(e) => facts[e.name] = e.post

\* Whoever may journal has found nothing dangling, or has resolved it; the record
\* journaled is the one dangling until it is committed.
HolderOne(p) ==
  /\ pc[p] \in Recovering =>
       /\ \A e \in work.todo : e \in Danglers(journal) \/ Dropped(e)
       /\ \A e \in Danglers(journal) :
            /\ e \in work.todo \/ e.seq \in work.unresolved
            /\ e.flag = "open" => work.todo \subseteq {e}
  /\ pc[p] = "marker" => \A e : Oldest(e) => e.op \in ForwardOps
  /\ pc[p] \in {"redo", "recommit"} => \A e : Oldest(e) => e.op = "rollback"
  /\ pc[p] \in {"auto", "choose", "intent"} => Danglers(journal) = {}
  /\ pc[p] \in {"sentinel", "convert", "unsentinel"}
       \/ (pc[p] \in {"render", "publish"} /\ InMigration(p))
       => op[p] = "migrate" \/ Danglers(journal) = {}
  /\ pc[p] = "convert" => migrating
  /\ pc[p] = "intent" => Chosen(work.intent)
  /\ pc[p] \in Mutating \ {"intent"} /\ work.intent # NoIntent
       => work.intent \in Danglers(journal) /\ work.intent.flag = "open"
  /\ pc[p] \notin Mutating => work.intent = NoIntent
  /\ pc[p] \in {"apply", "commit"} => work.intent # NoIntent
  /\ ~EditsUnderLock => HolderFacts(p)

OneInv ==
  /\ TypeInv
  /\ Coherent(journal)
  /\ Sole
  /\ \A p \in Proc : pc[p] \in LockedAt => HolderOne(p)

LEMMA OneInit == Init \/ LegacyInit => OneInv
<1>1. ASSUME Init PROVE OneInv
  <2>1. journal = <<>> /\ Entries(journal) = {}
    BY <1>1 DEF Init, Entries
  <2>2. Coherent(journal) /\ Sole
    BY <2>1 DEF Coherent, Sole, Danglers
  <2>3. \A p \in Proc : pc[p] \notin LockedAt
    BY <1>1 DEF Init, LockedAt
  <2> QED BY <1>1, <2>2, <2>3, TypeInvInit DEF OneInv
<1>2. ASSUME LegacyInit PROVE OneInv
  <2>1. /\ journal \in Seq(JournalEntry) /\ Len(journal) <= MaxLegacy
        /\ \A i \in DOMAIN journal :
             /\ journal[i].seq = i /\ journal[i].op \in ForwardOps /\ journal[i].flag = "none"
             /\ journal[i].pre # journal[i].post
    BY <1>2, LegacyJournal DEF LegacyInit, AtRest
  <2>2. DOMAIN journal \subseteq 1 .. MaxSeq
    BY <2>1, LegacyAssumption, ConstAssumption DEF LegacyAssumption, ConstAssumption
  <2>3. \A e \in Entries(journal) :
          e.seq \in 1 .. MaxSeq /\ e.op \in ForwardOps /\ e.flag = "none" /\ e.pre # e.post
    BY <2>1, <2>2 DEF Entries
  <2>4. Coherent(journal) /\ Sole
    BY <2>3 DEF Coherent, Sole, Danglers, ForwardOps
  <2>5. \A p \in Proc : pc[p] \notin LockedAt
    BY <1>2 DEF LegacyInit, AtRest, LockedAt
  <2> QED BY <1>2, <2>4, <2>5, LegacyTypeInvInit DEF OneInv
<1> QED BY <1>1, <1>2

\* What dangles is an intent, alone, or mutations of the single-phase version, each
\* the newest of its fact.
LEMMA SoleOne ==
  ASSUME OneInv, NEW d \in Danglers(journal)
  PROVE  /\ d \in Entries(journal) /\ d \in JournalEntry /\ d.seq \notin Reverted(journal)
         /\ d.name \in Name /\ d.op \in ForwardOps \cup {"rollback"}
         /\ d.flag = "open" => Danglers(journal) = {d} /\ d.seq = LastSeq(journal)
         /\ d.flag # "open" => d.flag = "none" /\ Candidate(journal, d)
         /\ d.op = "rollback" => d.flag = "open"
<1>1. journal \in Seq(JournalEntry) /\ Sorted(journal)
  BY DEF OneInv, TypeInv, TypeOK
<1>2. /\ d \in Entries(journal) /\ d.seq \notin Reverted(journal)
      /\ d.flag = "open" \/ Candidate(journal, d)
  BY Views
<1>3. d \in JournalEntry
  BY <1>1, <1>2, EntriesType
<1>4. d.name \in Name /\ d.op \in ForwardOps \cup {"rollback"}
  BY <1>3 DEF JournalEntry
<1>5. "rollback" \notin ForwardOps
  BY DEF ForwardOps
<1> QED BY <1>2, <1>3, <1>4, <1>5 DEF OneInv, Sole, Candidate

\* Nothing that matters here depends on anything else than the journal.
LEMMA JournalStays ==
  ASSUME OneInv, journal' = journal
  PROVE  /\ Coherent(journal)' /\ Sole'
         /\ Danglers(journal)' = Danglers(journal)
         /\ Unreverted(journal)' = Unreverted(journal)
         /\ \A r : Chosen(r) => Chosen(r)'
         /\ \A r : Dropped(r) => Dropped(r)'
BY DEF OneInv, Sole, Chosen, Undoes, Dropped

LEMMA ReleaseKeepsOne ==
  ASSUME OneInv, TypeInv', NEW p \in Proc, pc[p] \in LockedAt, Release(p),
         Coherent(journal)', Sole'
  PROVE  OneInv'
BY MoveOut DEF OneInv, TypeInv

LEMMA HolderKeepsOne ==
  ASSUME OneInv, TypeInv', NEW p \in Proc, pc[p] \in LockedAt, NEW to \in LockedAt,
         pc' = [pc EXCEPT ![p] = to], lock' = lock, op' = op,
         Coherent(journal)', Sole', pc'[p] = to => HolderOne(p)'
  PROVE  OneInv'
<1>1. TypeOK
  BY DEF OneInv, TypeInv
<1> QED BY <1>1, MoveLocked DEF OneInv

LEMMA FreeKeepsOne ==
  ASSUME OneInv, TypeInv', NEW p \in Proc, pc[p] \in FreeAt, NEW to \in FreeAt,
         NEW o \in AllOps \cup {"none"},
         pc' = [pc EXCEPT ![p] = to], op' = [op EXCEPT ![p] = o],
         UNCHANGED <<disk, lock, work, edits>>
  PROVE  OneInv'
<1>1. TypeOK
  BY DEF OneInv, TypeInv
<1>2. journal' = journal /\ facts' = facts /\ migrating' = migrating /\ work' = work
  BY DEF disk
<1>3. ASSUME NEW q \in Proc, pc'[q] \in LockedAt PROVE HolderOne(q)'
  <2>1. pc'[q] = pc[q] /\ HolderOne(q) /\ q # p
    BY <1>1, <1>3, MoveFree DEF OneInv, FreeAt, LockedAt, TypeOK
  <2>2. op'[q] = op[q]
    BY <1>1, <2>1 DEF TypeOK
  <2>3. HolderFacts(q) => HolderFacts(q)'
    BY <1>2, <2>1 DEF HolderFacts, Oldest
  <2> QED BY <1>2, <2>1, <2>2, <2>3, JournalStays DEF HolderOne, InMigration, Oldest
<1> QED BY <1>2, <1>3, JournalStays DEF OneInv

\* What truncation takes from a journal is older than what it leaves.
LEMMA Thinning ==
  ASSUME NEW j \in Seq(JournalEntry), Sorted(j), NEW k \in Truncated(j),
         NEW f \in Entries(j), f \notin Entries(k)
  PROVE  f.seq <= LastSeq(k) /\ \A x \in Entries(k) : f.seq < x.seq
<1>1. Suffix(k, j) /\ LastSeq(k) = LastSeq(j)
  BY TruncatedSuffix, TruncatedKeepsLast
<1>2. \A x \in Entries(j) : x.seq \in Nat /\ x.seq <= LastSeq(j)
  BY EntriesType
<1>3. ASSUME NEW x \in Entries(k) PROVE f.seq < x.seq
  <2>1. x \in Entries(j) /\ ~(x.seq <= f.seq)
    BY <1>1, <1>3 DEF Suffix
  <2> QED BY <1>2, <2>1
<1> QED BY <1>1, <1>2, <1>3

\* Settling e leaves of the other dangling records each dangling, or dropped.
Settles(e) ==
  /\ Coherent(journal)' /\ Sole'
  /\ Danglers(journal') \subseteq Danglers(journal) \ {e}
  /\ \A f \in Danglers(journal) \ {e} : f \in Danglers(journal') \/ Dropped(f)'
  /\ \A f : Dropped(f) => Dropped(f)'

\* Committing a dangling record; one of the single-phase version gains a flag, so
\* the byte budget may drop others.
LEMMA Committing ==
  ASSUME OneInv, NEW d \in Danglers(journal), MarkCommitted(d.seq)
  PROVE  /\ Settles(d)
         /\ d.flag = "open" => journal' = Flipped(journal, d.seq)
         /\ journal' = Flipped(journal, d.seq) \/ journal' \in Truncated(Flipped(journal, d.seq))
<1> DEFINE a == Flipped(journal, d.seq)
<1>1. journal \in Seq(JournalEntry) /\ Sorted(journal) /\ Coherent(journal)
  BY DEF OneInv, TypeInv, TypeOK
<1>2. /\ d \in Entries(journal) /\ d.flag # "done"
      /\ d.flag = "open" => Danglers(journal) = {d}
      /\ d.flag # "open" => d.flag = "none" /\ d.op \in ForwardOps
  BY SoleOne DEF Candidate
<1>3. \A e \in Entries(journal) : e.seq = d.seq => e = d
  BY <1>1, <1>2, EntriesType
<1>4. /\ a \in Seq(JournalEntry) /\ Sorted(a) /\ Coherent(a) /\ LastSeq(a) = LastSeq(journal)
      /\ Entries(a) = (Entries(journal) \ {d}) \cup {Done(d)}
      /\ Danglers(a) \subseteq Danglers(journal) \ {d}
      /\ d.op \in ForwardOps => Danglers(a) = Danglers(journal) \ {d}
  BY <1>1, <1>2, Flipping
<1>5. /\ d.flag = "open" => journal' = a
      /\ d.flag # "open" => journal' \in Truncated(a)
  BY <1>2, <1>3 DEF MarkCommitted
<1> HIDE DEF a
<1>6. /\ Coherent(journal') /\ Danglers(journal') = Danglers(a) \cap Entries(journal')
      /\ LastSeq(journal') = LastSeq(journal)
      /\ \A x \in Entries(journal') : \E y \in Entries(journal) : x.seq = y.seq
  <2>1. Suffix(journal', a) /\ LastSeq(journal') = LastSeq(a)
    <3>1. CASE journal' = a
      BY <3>1 DEF Suffix
    <3>2. CASE journal' \in Truncated(a)
      BY <1>4, <3>2, TruncatedSuffix, TruncatedKeepsLast
    <3> QED BY <1>5, <3>1, <3>2
  <2>2. Coherent(journal') /\ Danglers(journal') = Danglers(a) \cap Entries(journal')
    BY <1>4, <2>1, SuffixViews
  <2>3. Done(d).seq = d.seq
    BY <1>1, <1>2, EntriesType, DoneType
  <2> QED BY <1>2, <1>4, <2>1, <2>2, <2>3 DEF Suffix
<1>7. Danglers(journal') \subseteq Danglers(journal) \ {d}
  BY <1>4, <1>6
<1>8. \A x \in Danglers(journal') : x.flag # "open"
  BY <1>7, SoleOne
<1>9. ASSUME NEW f \in Danglers(journal) \ {d}
      PROVE  f \in Danglers(journal') \/ Dropped(f)'
  <2>1. d.flag # "open" /\ f.flag # "open"
    BY <1>9, SoleOne
  <2>2. f \in JournalEntry /\ f.op \in ForwardOps
    BY <1>9, <2>1, SoleOne DEF Candidate
  <2>3. f \in Danglers(a) /\ journal' \in Truncated(a)
    BY <1>2, <1>4, <1>5, <1>9, <2>1
  <2>4. f \in Entries(a)
    BY <2>3, Views
  <2>5. CASE f \in Entries(journal')
    BY <1>6, <2>3, <2>5
  <2>6. CASE f \notin Entries(journal')
    BY <1>4, <2>2, <2>3, <2>4, <2>6, Thinning DEF Dropped
  <2> QED BY <2>5, <2>6
<1>10. ASSUME NEW f, Dropped(f) PROVE Dropped(f)'
  BY <1>6, <1>10 DEF Dropped
<1>11. Settles(d)
  BY <1>6, <1>7, <1>8, <1>9, <1>10 DEF Settles, Sole
<1> QED BY <1>5, <1>11 DEF a

\* A record that is not there cannot be marked.
LEMMA CommittingDropped ==
  ASSUME OneInv, NEW d, Dropped(d), MarkCommitted(d.seq)
  PROVE  Settles(d) /\ journal' = journal
<1>1. journal \in Seq(JournalEntry) /\ Sorted(journal) /\ Coherent(journal) /\ Sole
  BY DEF OneInv, TypeInv, TypeOK
<1>2. d.seq \in Nat /\ \A e \in Entries(journal) : e.seq # d.seq
  <2>1. d.seq \in Nat /\ \A e \in Entries(journal) : e.seq \in Nat
    BY <1>1, EntriesType DEF Dropped, JournalEntry
  <2> QED BY <2>1 DEF Dropped
<1>3. journal' = Flipped(journal, d.seq)
  BY <1>2 DEF MarkCommitted
<1>4. Flipped(journal, d.seq) = journal
  <2>1. \A i \in DOMAIN journal : journal[i].seq # d.seq
    BY <1>2 DEF Entries
  <2>2. Flipped(journal, d.seq) = [i \in DOMAIN journal |-> journal[i]]
    BY <2>1 DEF Flipped
  <2> QED BY <1>1, <2>2
<1>5. d \notin Danglers(journal)
  BY <1>2, Views
<1> QED BY <1>1, <1>3, <1>4, <1>5 DEF Settles, Sole, Dropped

\* The marker of a mutation that never landed.
LEMMA Marking ==
  ASSUME OneInv, NEW d,
         \/ d \in Danglers(journal)
         \/ Dropped(d) /\ \A x \in Danglers(journal) : x.flag # "open",
         NEW r, MayFollow(r, journal), r.flag = "done", r.op = "rollback", r.target = d.seq,
         journal' \in Truncated(Append(journal, r))
  PROVE  /\ Settles(d)
         /\ Danglers(journal') = {e \in Danglers(journal) \cap Entries(journal') : e.seq # d.seq}
<1> DEFINE a == Append(journal, r)
<1>1. journal \in Seq(JournalEntry) /\ Sorted(journal) /\ Coherent(journal)
  BY DEF OneInv, TypeInv, TypeOK
<1>2. /\ Coherent(journal') /\ LastSeq(journal') = r.seq
      /\ Danglers(journal') = {e \in Danglers(journal) \cap Entries(journal') : e.seq # r.target}
      /\ Entries(journal') \subseteq Entries(journal) \cup {r}
  BY <1>1, Appending
<1>3. Danglers(journal') \subseteq Danglers(journal) \ {d}
  BY <1>2
<1>4. \A x \in Danglers(journal') : x.flag # "open"
  BY <1>3, SoleOne
<1>5. LastSeq(journal) \in Nat /\ r.seq = LastSeq(journal) + 1
  BY <1>1, EntriesType DEF MayFollow
<1>6. ASSUME NEW f \in Danglers(journal) \ {d}
      PROVE  f \in Danglers(journal') \/ Dropped(f)'
  <2>1. f.flag # "open" /\ f \in Entries(journal)
    BY <1>6, SoleOne
  <2>2. f \in JournalEntry /\ f.op \in ForwardOps
    BY <1>6, <2>1, SoleOne DEF Candidate
  <2>3. CASE f \in Entries(journal')
    <3>1. f.seq # d.seq
      <4>1. CASE d \in Danglers(journal)
        BY <1>1, <1>6, <2>1, <4>1, SoleOne, EntriesType
      <4>2. CASE Dropped(d)
        <5>1. d.seq < f.seq /\ d.seq \in Nat /\ f.seq \in Nat
          BY <2>1, <2>2, <4>2 DEF Dropped, JournalEntry
        <5> QED BY <5>1
      <4> QED BY <4>1, <4>2
    <3> QED BY <1>2, <1>6, <2>3, <3>1
  <2>4. CASE f \notin Entries(journal')
    <3>1. a \in Seq(JournalEntry) /\ Sorted(a) /\ f \in Entries(a)
      BY <1>1, <2>1, AppendSorted, AppendEntries DEF MayFollow
    <3>2. journal' \in Truncated(a)
      OBVIOUS
    <3> HIDE DEF a
    <3> QED BY <2>2, <2>4, <3>1, <3>2, Thinning DEF Dropped
  <2> QED BY <2>3, <2>4
<1>7. ASSUME NEW f, Dropped(f) PROVE Dropped(f)'
  <2>1. f \in JournalEntry /\ f.seq \in Nat /\ f.seq <= LastSeq(journal)
          /\ f.op \in ForwardOps
    BY <1>7 DEF Dropped, JournalEntry
  <2>2. f.seq < r.seq /\ f.seq <= LastSeq(journal')
    BY <1>2, <1>5, <2>1
  <2> QED BY <1>2, <1>7, <2>1, <2>2 DEF Dropped
<1> QED BY <1>2, <1>3, <1>4, <1>6, <1>7 DEF Settles, Sole

\* The record that says of e that it never landed.
MarkerOf(r, e) ==
  /\ r \in JournalEntry /\ MayFollow(r, journal)
  /\ r.flag = "done" /\ r.op = "rollback" /\ r.target = e.seq

LEMMA Markers ==
  ASSUME OneInv, NEW p \in Proc, NEW e, WriteMarker(p, e), e.op \in ForwardOps,
         e \in Danglers(journal) \/ Dropped(e)
  PROVE  \E r : MarkerOf(r, e) /\ journal' \in Truncated(Append(journal, r))
<1> DEFINE r == Record("rollback", e.name, facts[e.name], facts[e.name], e.seq,
                       "done", NoRestore)
<1>1. TypeOK /\ Sorted(journal) /\ facts \in [Name -> Value] /\ journal \in Seq(JournalEntry)
  BY DEF OneInv, TypeInv, TypeOK
<1>2. /\ e \in JournalEntry /\ e.seq \in Nat /\ e.seq <= LastSeq(journal)
      /\ LastSeq(journal) \in Nat
      /\ \A f \in Entries(journal) : f.seq = e.seq => f = e
  <2>1. CASE e \in Danglers(journal)
    BY <1>1, <2>1, SoleOne, EntriesType
  <2>2. CASE Dropped(e)
    <3>1. e.seq \in Nat /\ \A f \in Entries(journal) : f.seq \in Nat /\ e.seq < f.seq
      BY <1>1, <2>2, EntriesType DEF Dropped, JournalEntry
    <3> QED BY <1>1, <2>2, <3>1, EntriesType DEF Dropped
  <2> QED BY <2>1, <2>2
<1>3. e.name \in Name /\ facts[e.name] \in Value
  BY <1>1, <1>2 DEF JournalEntry
<1>4. r \in JournalEntry /\ r.seq = LastSeq(journal) + 1
  <2>1. "done" \in Flag /\ "rollback" \in ForwardOps \cup {"rollback"}
          /\ NoRestore \in Value \cup {NoRestore}
    BY DEF Flag
  <2>2. /\ Record("rollback", e.name, facts[e.name], facts[e.name], e.seq, "done", NoRestore) \in JournalEntry
        /\ Record("rollback", e.name, facts[e.name], facts[e.name], e.seq, "done", NoRestore).seq
             = LastSeq(journal) + 1
    <3> HIDE DEF r
    <3> QED BY <1>2, <1>3, <2>1 DEF Record, JournalEntry
  <2> QED BY <2>2
<1>5. r.flag = "done" /\ r.op = "rollback" /\ r.target = e.seq
  BY DEF Record
<1>6. journal' \in Truncated(Append(journal, r))
  BY DEF WriteMarker
<1> HIDE DEF r
<1>7. MayFollow(r, journal)
  BY <1>2, <1>4, <1>5 DEF MayFollow, ForwardOps
<1> QED BY <1>4, <1>5, <1>6, <1>7 DEF MarkerOf

LEMMA RecoverKeepsOne ==
  ASSUME OneInv, TypeInv', NEW p \in Proc, RecoverStep(p)
  PROVE  OneInv'
<1> USE DEF GoTo
<1>0. {"recover", "marker", "redo", "recommit", "auto", "choose", "render"} \subseteq LockedAt
  BY DEF LockedAt
<1>1. TypeOK /\ Sorted(journal) /\ Coherent(journal) /\ pc \in [Proc -> LockedAt \cup FreeAt]
        /\ work \in Work /\ facts \in [Name -> Value] /\ journal \in Seq(JournalEntry)
        /\ \A e, f \in work.todo : e.seq = f.seq => e = f
  BY DEF OneInv, TypeInv, TypeOK, TodoUnique
<1>2. pc[p] \in LockedAt => HolderOne(p)
  BY DEF OneInv
<1>3. pc[p] \in Recovering
        => /\ \A e \in work.todo : e \in Danglers(journal) \/ Dropped(e)
           /\ \A e \in Danglers(journal) :
                /\ e \in work.todo \/ e.seq \in work.unresolved
                /\ e.flag = "open" => work.todo \subseteq {e}
           /\ work.intent = NoIntent
  BY <1>0, <1>2 DEF HolderOne, Recovering, Mutating
\* The oldest record is the only such one.
<1>4. ASSUME NEW e, Oldest(e) PROVE e \in work.todo /\ \A f : Oldest(f) => f = e
  <2>1. \A f \in work.todo : f.seq \in Nat
    BY <1>1 DEF Work, JournalEntry
  <2> QED BY <1>1, <1>4, <2>1 DEF Oldest
<1>5. ASSUME NEW e, work' = Resolve(e)
      PROVE  /\ work'.todo = work.todo \ {e} /\ work'.intent = work.intent
             /\ work'.unresolved = work.unresolved
  BY <1>1, <1>5 DEF Resolve, Work
\* Once the oldest record is settled the rest is to be looked at as before.
<1>6. ASSUME NEW e \in work.todo, pc[p] \in Recovering, work' = Resolve(e), Settles(e),
             pc' = [pc EXCEPT ![p] = "recover"], lock' = lock, op' = op
      PROVE  OneInv'
  <2>1. work'.todo = work.todo \ {e} /\ work'.intent = NoIntent
          /\ work'.unresolved = work.unresolved
    BY <1>3, <1>5, <1>6
  <2>2. \A f \in work'.todo : f \in Danglers(journal') \/ Dropped(f)'
    BY <1>3, <1>6, <2>1 DEF Settles
  <2>3. \A f \in Danglers(journal') :
          /\ f \in work'.todo \/ f.seq \in work'.unresolved
          /\ f.flag = "open" => work'.todo \subseteq {f}
    BY <1>3, <1>6, <2>1 DEF Settles
  <2>4. pc'[p] = "recover" => HolderOne(p)'
    BY <2>1, <2>2, <2>3 DEF HolderOne, HolderFacts, Mutating
  <2> QED BY <1>0, <1>6, <2>4, HolderKeepsOne DEF Recovering, Settles
<1>7. ASSUME NEW e \in work.todo, RollForward(p, e) \/ RedoCommit(p, e) PROVE OneInv'
  <2>1. pc[p] \in Recovering /\ MarkCommitted(e.seq) /\ work' = Resolve(e)
          /\ pc' = [pc EXCEPT ![p] = "recover"] /\ lock' = lock /\ op' = op
    BY <1>1, <1>7 DEF RollForward, RedoCommit, Recovering
  <2>2. Settles(e)
    BY <1>3, <2>1, Committing, CommittingDropped
  <2> QED BY <1>6, <2>1, <2>2
<1>8. ASSUME NEW e \in work.todo, WriteMarker(p, e) PROVE OneInv'
  <2>1. pc[p] = "marker" /\ pc[p] \in Recovering
    BY <1>8 DEF WriteMarker, Recovering
  <2>2. e.op \in ForwardOps
    BY <1>0, <1>2, <1>8, <2>1 DEF HolderOne, WriteMarker
  <2>3. PICK r : MarkerOf(r, e) /\ journal' \in Truncated(Append(journal, r))
    BY <1>3, <1>8, <2>1, <2>2, Markers
  <2>4. Settles(e)
    <3>1. \/ e \in Danglers(journal)
          \/ Dropped(e) /\ \A x \in Danglers(journal) : x.flag # "open"
      <4>1. ASSUME Dropped(e), NEW x \in Danglers(journal), x.flag = "open" PROVE FALSE
        <5>1. e = x /\ x \in Entries(journal)
          BY <1>3, <2>1, <4>1, SoleOne
        <5>2. e.seq < e.seq /\ e.seq \in Nat
          BY <4>1, <5>1 DEF Dropped, JournalEntry
        <5> QED BY <5>2
      <4> QED BY <1>3, <2>1, <4>1
    <3> QED BY <2>3, <3>1, Marking DEF MarkerOf
  <2> QED BY <1>6, <1>8, <2>1, <2>4 DEF WriteMarker
\* From here on the journal stays as it is.
<1>9. ASSUME journal' = journal
      PROVE  /\ Coherent(journal)' /\ Sole' /\ Danglers(journal)' = Danglers(journal)
             /\ \A e : Dropped(e) => Dropped(e)'
  BY <1>9, JournalStays
<1>10. ASSUME NEW e \in work.todo, RollBack(p, e) PROVE OneInv'
  <2>1. /\ pc[p] \in Recovering /\ journal' = journal /\ facts' = facts /\ work' = work
        /\ e.op \in ForwardOps /\ facts[e.name] = e.pre /\ Oldest(e)
    BY <1>10 DEF RollBack, Recovering
  <2>2. \A f : Oldest(f)' => f = e
    BY <1>4, <2>1 DEF Oldest
  <2>3. pc'[p] = "marker" => HolderOne(p)'
    BY <1>3, <1>9, <2>1, <2>2 DEF HolderOne, HolderFacts, Mutating
  <2> QED BY <1>0, <1>9, <1>10, <2>1, <2>3, HolderKeepsOne DEF RollBack
<1>11. ASSUME NEW e \in work.todo, Redo(p, e) PROVE OneInv'
  <2>1. /\ pc[p] \in Recovering /\ journal' = journal /\ facts' = facts /\ work' = work
        /\ e.op = "rollback" /\ facts[e.name] = e.pre /\ Oldest(e)
    BY <1>11 DEF Redo, Recovering
  <2>2. \A f : Oldest(f)' => f = e
    BY <1>4, <2>1 DEF Oldest
  <2>3. pc'[p] = "redo" => HolderOne(p)'
    BY <1>3, <1>9, <2>1, <2>2 DEF HolderOne, HolderFacts, Mutating
  <2> QED BY <1>0, <1>9, <1>11, <2>1, <2>3, HolderKeepsOne DEF Redo
<1>12. ASSUME NEW e \in work.todo, RedoFact(p, e) PROVE OneInv'
  <2>1. /\ pc[p] = "redo" /\ pc[p] \in Recovering /\ journal' = journal /\ work' = work
        /\ SetFact(e.name, e.post) /\ Oldest(e)
    BY <1>12 DEF RedoFact, Recovering
  <2>2. e.op = "rollback" /\ "rollback" \notin ForwardOps
    BY <1>0, <1>2, <2>1 DEF HolderOne, ForwardOps
  <2>3. e \in Entries(journal) /\ e.flag = "open" /\ e.name \in Name
    BY <1>3, <2>1, <2>2, SoleOne DEF Dropped
  <2>4. facts'[e.name] = e.post
    BY <1>1, <2>1, <2>2, <2>3 DEF SetFact, Coherent
  <2>5. \A f : Oldest(f)' => f = e
    BY <1>4, <2>1 DEF Oldest
  <2>6. pc'[p] = "recommit" => HolderOne(p)'
    BY <1>3, <1>9, <2>1, <2>2, <2>4, <2>5 DEF HolderOne, HolderFacts, Mutating
  <2> QED BY <1>0, <1>9, <1>12, <2>1, <2>6, HolderKeepsOne DEF RedoFact
<1>13. ASSUME NEW e \in work.todo, GiveUp(p, e) PROVE OneInv'
  <2>1. pc[p] = "recover" /\ pc[p] \in Recovering /\ UNCHANGED <<disk, lock, pc, op>>
    BY <1>13 DEF GiveUp, Recovering
  <2>2. work'.todo = work.todo \ {e} /\ work'.unresolved = work.unresolved \cup {e.seq}
          /\ work'.intent = work.intent
    BY <1>1, <1>13 DEF GiveUp, Work
  <2>3. journal' = journal /\ pc' = [pc EXCEPT ![p] = "recover"]
    BY <1>1, <2>1 DEF disk
  <2>4. pc'[p] = "recover" => HolderOne(p)'
    BY <1>3, <1>9, <2>1, <2>2, <2>3 DEF HolderOne, HolderFacts, Recovering, Mutating
  <2> QED BY <1>0, <1>9, <2>1, <2>3, <2>4, HolderKeepsOne
<1>14. CASE FailClosed(p) \/ NothingToRecover(p)
  BY <1>0, <1>9, <1>14, ReleaseKeepsOne DEF FailClosed, NothingToRecover, Recovered, disk
<1>15. CASE Proceed(p)
  <2>1. PICK to \in {"auto", "choose"} : pc' = [pc EXCEPT ![p] = to]
    BY <1>15 DEF Proceed
  <2>2. /\ pc[p] = "recover" /\ pc[p] \in Recovering /\ work.todo = {} /\ work.unresolved = {}
        /\ UNCHANGED <<disk, lock, op, work>>
    BY <1>15 DEF Proceed, Recovered, Recovering
  <2>3. Danglers(journal) = {} /\ journal' = journal
    BY <1>3, <2>2 DEF disk
  <2>4. pc'[p] = to => HolderOne(p)'
    BY <1>3, <1>9, <2>2, <2>3 DEF HolderOne, HolderFacts, Recovering, Mutating
  <2> QED BY <1>0, <1>9, <2>1, <2>2, <2>3, <2>4, HolderKeepsOne
<1>16. CASE Republish(p)
  <2>1. /\ pc[p] = "recover" /\ pc[p] \in Recovering /\ op[p] \notin {"write", "migrate"}
        /\ pc' = [pc EXCEPT ![p] = "render"] /\ UNCHANGED <<disk, lock, op, work>>
    BY <1>16 DEF Republish, Recovered, Recovering
  <2>2. journal' = journal
    BY <2>1 DEF disk
  <2>3. pc'[p] = "render" => HolderOne(p)'
    BY <1>3, <1>9, <2>1, <2>2 DEF HolderOne, HolderFacts, Recovering, InMigration
  <2> QED BY <1>0, <1>9, <2>1, <2>2, <2>3, HolderKeepsOne
<1> QED BY <1>7, <1>8, <1>10, <1>11, <1>12, <1>13, <1>14, <1>15, <1>16 DEF RecoverStep

\* What a call chooses to journal.
LEMMA ChooseKeepsOne ==
  ASSUME OneInv, TypeInv', NEW p \in Proc, NEW r \in JournalEntry, Choose(p, r),
         Chosen(r), facts[r.name] = r.pre
  PROVE  OneInv'
<1>1. pc[p] = "choose" /\ pc' = [pc EXCEPT ![p] = "intent"] /\ journal' = journal
        /\ lock' = lock /\ op' = op /\ facts' = facts
  BY DEF Choose, GoTo
<1>2. work' = [work EXCEPT !.intent = r] /\ work \in Work
  BY DEF Choose, OneInv, TypeInv, TypeOK
<1>3. work'.intent = r
  BY <1>2 DEF Work
<1>4. pc[p] \in LockedAt /\ "intent" \in LockedAt
  BY <1>1 DEF LockedAt
<1>5. Danglers(journal) = {}
  BY <1>1, <1>4 DEF OneInv, HolderOne
<1>6. Chosen(work.intent)'
  BY <1>1, <1>3, JournalStays DEF Chosen, Undoes
<1>7. pc'[p] = "intent" => HolderOne(p)'
  BY <1>1, <1>3, <1>5, <1>6, JournalStays DEF HolderOne, HolderFacts, Recovering, Mutating
<1> QED BY <1>1, <1>4, <1>7, JournalStays, HolderKeepsOne

\* What each command chooses: a write takes a free name, a promotion and a deletion a
\* fact that is there, a rollback the newest mutation in force of an unedited fact.
LEMMA Choices ==
  ASSUME OneInv, NEW p \in Proc,
         ChooseWrite(p) \/ ChoosePromote(p) \/ ChooseDelete(p) \/ ChooseRollback(p)
  PROVE  \E r \in JournalEntry : Choose(p, r) /\ Chosen(r) /\ facts[r.name] = r.pre
<1>1. TypeOK /\ Sorted(journal) /\ Coherent(journal) /\ facts \in [Name -> Value]
        /\ journal \in Seq(JournalEntry)
  BY DEF OneInv, TypeInv, TypeOK
<1>2. ASSUME NEW n \in Present PROVE n \in Name /\ facts[n] \in Content /\ facts[n] # Absent
  BY <1>1 DEF Present, Value
<1>3. LastSeq(journal) \in Nat /\ MaxSeq \in Nat
  BY <1>1, EntriesType, ConstAssumption DEF ConstAssumption
<1>4. NoTarget \in Nat /\ "open" \in Flag /\ NoRestore \in Value \cup {NoRestore}
        /\ Absent \in Value /\ Absent \notin Content
  BY ConstAssumption DEF NoTarget, Flag, Value, ConstAssumption
<1>5. ASSUME NEW o \in ForwardOps, NEW n \in Name, NEW pre \in Value, NEW post \in Value,
             Choose(p, Record(o, n, pre, post, NoTarget, "open", NoRestore)),
             pre # post, facts[n] = pre
      PROVE  \E r \in JournalEntry : Choose(p, r) /\ Chosen(r) /\ facts[r.name] = r.pre
  <2> DEFINE r == Record(o, n, pre, post, NoTarget, "open", NoRestore)
  <2>1. r \in JournalEntry /\ r.seq = LastSeq(journal) + 1
    BY <1>1, <1>4, RecordType
  <2>2. r.flag = "open" /\ r.pre = pre /\ r.post = post /\ r.name = n /\ r.op = o
    BY DEF Record
  <2>3. r.seq \in 1 .. MaxSeq
    BY <1>3, <1>5, <2>1 DEF Choose, HasRoom
  <2>4. Choose(p, r)
    BY <1>5
  <2> HIDE DEF r
  <2>5. Chosen(r)
    BY <1>5, <2>2, <2>3 DEF Chosen, ForwardOps
  <2> QED BY <1>5, <2>1, <2>2, <2>4, <2>5
<1>6. CASE ChooseWrite(p)
  <2>1. PICK n \in Name, m \in Name, t \in Text, s \in Status :
          /\ IsFreeName(n, m)
          /\ Choose(p, Record("write", m, Absent, [text |-> t, status |-> s, src |-> NoEntry],
                              NoTarget, "open", NoRestore))
    BY <1>6 DEF ChooseWrite
  <2>2. [text |-> t, status |-> s, src |-> NoEntry] \in Content
    BY DEF Content
  <2>3. "write" \in ForwardOps /\ facts[m] = Absent
    BY <2>1 DEF ForwardOps, IsFreeName
  <2>4. [text |-> t, status |-> s, src |-> NoEntry] \in Value
          /\ [text |-> t, status |-> s, src |-> NoEntry] # Absent
    BY <1>4, <2>2 DEF Value
  <2> QED BY <1>4, <1>5, <2>1, <2>3, <2>4
<1>7. CASE ChoosePromote(p)
  <2>1. PICK n \in Present :
          /\ facts[n].status = "pending"
          /\ Choose(p, Record("promote", n, facts[n], [facts[n] EXCEPT !.status = "confirmed"],
                              NoTarget, "open", NoRestore))
    BY <1>7 DEF ChoosePromote
  <2>2. facts[n] \in Content /\ n \in Name
    BY <1>2
  <2>3. /\ [facts[n] EXCEPT !.status = "confirmed"] \in Content
        /\ [facts[n] EXCEPT !.status = "confirmed"].status = "confirmed"
    BY <2>2 DEF Content, Status
  <2>4. /\ [facts[n] EXCEPT !.status = "confirmed"] \in Value /\ facts[n] \in Value
        /\ [facts[n] EXCEPT !.status = "confirmed"] # facts[n]
    BY <2>1, <2>2, <2>3 DEF Value
  <2>5. "promote" \in ForwardOps
    BY DEF ForwardOps
  <2> QED BY <1>5, <2>1, <2>2, <2>4, <2>5
<1>8. CASE ChooseDelete(p)
  <2>1. PICK n \in Present :
          Choose(p, Record("delete", n, facts[n], Absent, NoTarget, "open", NoRestore))
    BY <1>8 DEF ChooseDelete
  <2>2. n \in Name /\ facts[n] \in Value /\ facts[n] # Absent /\ "delete" \in ForwardOps
    BY <1>2 DEF Value, ForwardOps
  <2> QED BY <1>4, <1>5, <2>1, <2>2
<1>9. CASE ChooseRollback(p)
  <2>1. PICK e \in Entries(journal) :
          /\ Targetable(e)
          /\ Choose(p, Record("rollback", e.name, facts[e.name], e.pre, e.seq, "open", e.pre))
    BY <1>9 DEF ChooseRollback
  <2>2. e \in JournalEntry
    BY <1>1, EntriesType
  <2>3. e.name \in Name /\ e.pre \in Value /\ e.post \in Value /\ e.seq \in Nat
    BY <2>2 DEF JournalEntry
  <2>4. /\ e \in Unreverted(journal) /\ facts[e.name] = e.post
        /\ \A f \in Unreverted(journal) : f.name = e.name => f.seq <= e.seq
    BY <2>1 DEF Targetable
  <2>5. e.pre # e.post
    BY <1>1, <2>4 DEF Coherent, Unreverted
  <2> DEFINE r == Record("rollback", e.name, facts[e.name], e.pre, e.seq, "open", e.pre)
  <2>6. "rollback" \in ForwardOps \cup {"rollback"} /\ facts[e.name] \in Value
    BY <1>1, <2>3
  <2>7. r \in JournalEntry
    BY <1>1, <1>4, <2>3, <2>6, RecordType
  <2>8. /\ r.op = "rollback" /\ r.flag = "open" /\ r.pre = e.post /\ r.post = e.pre
        /\ r.name = e.name /\ r.target = e.seq /\ r.restore = e.pre
    BY <2>4 DEF Record
  <2>9. Choose(p, r)
    BY <2>1
  <2> HIDE DEF r
  <2>10. Undoes(r)
    BY <2>4, <2>8 DEF Undoes
  <2>11. Chosen(r)
    BY <2>5, <2>8, <2>10 DEF Chosen, ForwardOps
  <2> QED BY <2>4, <2>7, <2>8, <2>9, <2>11
<1> QED BY <1>6, <1>7, <1>8, <1>9

\* The record a call is about to journal may follow the journal.
LEMMA IntentFollows ==
  ASSUME OneInv, NEW p \in Proc, pc[p] = "intent"
  PROVE  /\ MayFollow(work.intent, journal) /\ work.intent.flag = "open"
         /\ Chosen(work.intent) /\ Danglers(journal) = {}
         /\ journal \in Seq(JournalEntry) /\ Sorted(journal) /\ Coherent(journal)
         /\ ~EditsUnderLock => facts[work.intent.name] = work.intent.pre
<1>1. journal \in Seq(JournalEntry) /\ Sorted(journal) /\ Coherent(journal)
  BY DEF OneInv, TypeInv, TypeOK
<1>2. pc[p] \in LockedAt
  BY DEF LockedAt
<1>3. work.intent \in JournalEntry /\ work.intent.seq = LastSeq(journal) + 1
  BY <1>2 DEF OneInv, TypeInv, HolderTyped
<1>4. /\ Chosen(work.intent) /\ Danglers(journal) = {}
      /\ ~EditsUnderLock => facts[work.intent.name] = work.intent.pre
  BY <1>2 DEF OneInv, HolderOne, HolderFacts
<1>5. ASSUME work.intent.op = "rollback"
      PROVE  /\ work.intent.target < work.intent.seq
             /\ \A e \in Entries(journal) : e.seq = work.intent.target => e.op \in ForwardOps
  <2>1. PICK e \in Unreverted(journal) : e.seq = work.intent.target
    BY <1>4, <1>5 DEF Chosen, Undoes
  <2>2. e \in Entries(journal) /\ e.op \in ForwardOps
    BY <2>1 DEF Unreverted
  <2>3. /\ e.seq \in Nat /\ e.seq <= LastSeq(journal) /\ LastSeq(journal) \in Nat
        /\ \A f \in Entries(journal) : f.seq = e.seq => f = e
    BY <1>1, <2>2, EntriesType
  <2> QED BY <1>3, <2>1, <2>2, <2>3
<1>6. MayFollow(work.intent, journal)
  BY <1>3, <1>4, <1>5 DEF MayFollow, Chosen
<1> QED BY <1>1, <1>4, <1>6 DEF Chosen

LEMMA MutateKeepsOne ==
  ASSUME OneInv, TypeInv', NEW p \in Proc, MutateStep(p)
  PROVE  OneInv'
<1> USE DEF GoTo
<1>0. {"choose", "intent", "apply", "render", "publish", "unsentinel", "clean",
       "commit"} \subseteq LockedAt
  BY DEF LockedAt
<1>1. TypeOK /\ work \in Work /\ facts \in [Name -> Value]
  BY DEF OneInv, TypeInv, TypeOK
<1>2. pc[p] \in LockedAt => HolderOne(p)
  BY DEF OneInv
<1>3. ASSUME journal' = journal
      PROVE  /\ Coherent(journal)' /\ Sole' /\ Danglers(journal)' = Danglers(journal)
  BY <1>3, JournalStays
<1>4. CASE ChooseWrite(p) \/ ChoosePromote(p) \/ ChooseDelete(p) \/ ChooseRollback(p)
  BY <1>4, Choices, ChooseKeepsOne
<1>5. CASE Decline(p) \/ RegenerateFails(p)
  BY <1>0, <1>3, <1>5, ReleaseKeepsOne DEF Decline, RegenerateFails, disk
<1>6. CASE JournalIntent(p)
  <2>1. pc[p] = "intent" /\ journal' \in Truncated(Append(journal, work.intent))
          /\ facts' = facts /\ work' = work
    BY <1>6 DEF JournalIntent
  <2>2. /\ Coherent(journal') /\ work.intent \in Entries(journal')
        /\ LastSeq(journal') = work.intent.seq
        /\ Danglers(journal') = {work.intent}
    BY <2>1, IntentFollows, Appending
  <2>3. Sole'
    BY <2>2 DEF Sole
  <2>4. work.intent # NoIntent
    BY <1>0, <2>1, ConstAssumption DEF OneInv, TypeInv, HolderTyped, ConstAssumption
  <2>5. pc'[p] = "apply" => HolderOne(p)'
    BY <2>1, <2>2, <2>4, IntentFollows DEF HolderOne, HolderFacts, Recovering, Mutating
  <2> QED BY <1>0, <1>6, <2>2, <2>3, <2>5, HolderKeepsOne DEF JournalIntent
<1>7. CASE Apply(p)
  <2>1. /\ pc[p] = "apply" /\ journal' = journal /\ work' = work
        /\ SetFact(work.intent.name, work.intent.post)
    BY <1>7 DEF Apply
  <2>2. /\ work.intent \in Danglers(journal) /\ work.intent.flag = "open"
        /\ work.intent # NoIntent
    BY <1>0, <1>2, <2>1 DEF HolderOne, Mutating
  <2>3. facts'[work.intent.name] = work.intent.post
    BY <1>1, <2>1, <2>2, SoleOne DEF SetFact
  <2>4. pc'[p] = "render" => HolderOne(p)'
    BY <1>3, <2>1, <2>2, <2>3 DEF HolderOne, HolderFacts, Recovering, Mutating, InMigration
  <2> QED BY <1>0, <1>3, <1>7, <2>1, <2>4, HolderKeepsOne DEF Apply
<1>8. CASE Render(p)
  <2>1. pc[p] = "render" /\ journal' = journal /\ facts' = facts /\ op' = op
          /\ work'.intent = work.intent
    BY <1>1, <1>8 DEF Render, Work, disk
  <2>2. pc'[p] = "publish" => HolderOne(p)'
    BY <1>0, <1>2, <1>3, <2>1
       DEF HolderOne, HolderFacts, Recovering, Mutating, InMigration
  <2> QED BY <1>0, <1>3, <1>8, <2>1, <2>2, HolderKeepsOne DEF Render
<1>9. CASE Publish(p)
  <2>1. pc[p] = "publish" /\ journal' = journal /\ facts' = facts /\ op' = op /\ work' = work
    BY <1>9 DEF Publish
  <2>2. CASE InMigration(p)
    <3>1. pc'[p] = "unsentinel" => HolderOne(p)'
      BY <1>0, <1>2, <1>3, <2>1, <2>2
         DEF HolderOne, HolderFacts, Recovering, Mutating, InMigration
    <3> QED BY <1>0, <1>3, <1>9, <2>1, <2>2, <3>1, HolderKeepsOne DEF Publish
  <2>3. CASE ~InMigration(p)
    <3>1. pc'[p] = "clean" => HolderOne(p)'
      BY <1>0, <1>2, <1>3, <2>1, <2>3
         DEF HolderOne, HolderFacts, Recovering, Mutating, InMigration
    <3> QED BY <1>0, <1>3, <1>9, <2>1, <2>3, <3>1, HolderKeepsOne DEF Publish
  <2> QED BY <2>2, <2>3
<1>10. CASE Clean(p)
  <2>1. pc[p] = "clean" /\ journal' = journal /\ facts' = facts
    BY <1>10 DEF Clean
  <2>2. CASE work.intent = NoIntent
    BY <1>0, <1>3, <1>10, <2>1, <2>2, ReleaseKeepsOne DEF Clean
  <2>3. CASE work.intent # NoIntent
    <3>1. work' = work /\ op' = op
      BY <1>10, <2>3 DEF Clean
    <3>2. pc'[p] = "commit" => HolderOne(p)'
      BY <1>0, <1>2, <1>3, <2>1, <2>3, <3>1 DEF HolderOne, HolderFacts, Recovering, Mutating
    <3> QED BY <1>0, <1>3, <1>10, <2>1, <2>3, <3>2, HolderKeepsOne DEF Clean
  <2> QED BY <2>2, <2>3
<1>11. CASE Commit(p)
  <2>1. pc[p] = "commit" /\ MarkCommitted(work.intent.seq) /\ Release(p)
    BY <1>11 DEF Commit
  <2>2. work.intent \in Danglers(journal)
    BY <1>0, <1>2, <2>1 DEF HolderOne, Mutating
  <2> QED BY <1>0, <2>1, <2>2, Committing, ReleaseKeepsOne DEF Settles
<1> QED BY <1>4, <1>5, <1>6, <1>7, <1>8, <1>9, <1>10, <1>11 DEF MutateStep

LEMMA MigrateKeepsOne ==
  ASSUME OneInv, TypeInv', NEW p \in Proc, MigrateStep(p)
  PROVE  OneInv'
<1> USE DEF GoTo
<1>0. {"auto", "sentinel", "choose", "convert", "render", "unsentinel"} \subseteq LockedAt
  BY DEF LockedAt
<1>1. TypeOK /\ work \in Work /\ facts \in [Name -> Value]
        /\ pc \in [Proc -> LockedAt \cup FreeAt]
  BY DEF OneInv, TypeInv, TypeOK
<1>2. pc[p] \in LockedAt => HolderOne(p)
  BY DEF OneInv
<1>3. ASSUME journal' = journal
      PROVE  /\ Coherent(journal)' /\ Sole' /\ Danglers(journal)' = Danglers(journal)
  BY <1>3, JournalStays
<1>4. CASE AutoMigrate(p)
  <2>1. pc[p] = "auto" /\ journal' = journal /\ work' = work /\ lock' = lock /\ op' = op
    BY <1>4 DEF AutoMigrate, disk
  <2>2. PICK to \in {"sentinel", "choose"} : pc' = [pc EXCEPT ![p] = to]
    BY <1>4 DEF AutoMigrate
  <2>3. pc'[p] = to => HolderOne(p)'
    BY <1>0, <1>2, <1>3, <2>1 DEF HolderOne, HolderFacts, Recovering, Mutating
  <2> QED BY <1>0, <1>3, <2>1, <2>2, <2>3, HolderKeepsOne
<1>5. CASE Sentinel(p)
  <2>1. pc[p] = "sentinel" /\ journal' = journal /\ work' = work /\ op' = op /\ migrating'
    BY <1>5 DEF Sentinel
  <2>2. pc'[p] = "convert" => HolderOne(p)'
    BY <1>0, <1>2, <1>3, <2>1 DEF HolderOne, HolderFacts, Recovering, Mutating
  <2> QED BY <1>0, <1>3, <1>5, <2>1, <2>2, HolderKeepsOne DEF Sentinel
<1>6. ASSUME NEW e \in Entry, Convert(p, e) PROVE OneInv'
  <2>1. pc[p] = "convert" /\ journal' = journal /\ migrating' = migrating
          /\ UNCHANGED <<lock, pc, op, work>>
    BY <1>6 DEF Convert
  <2>2. pc' = [pc EXCEPT ![p] = "convert"]
    BY <1>1, <2>1
  <2>3. pc'[p] = "convert" => HolderOne(p)'
    BY <1>0, <1>2, <1>3, <2>1 DEF HolderOne, HolderFacts, Recovering, Mutating
  <2> QED BY <1>0, <1>3, <2>1, <2>2, <2>3, HolderKeepsOne
<1>7. CASE ConvertDone(p)
  <2>1. pc[p] = "convert" /\ journal' = journal /\ work' = work /\ op' = op
    BY <1>7 DEF ConvertDone, disk
  <2>2. pc'[p] = "render" => HolderOne(p)'
    BY <1>0, <1>2, <1>3, <2>1 DEF HolderOne, HolderFacts, Recovering, Mutating
  <2> QED BY <1>0, <1>3, <1>7, <2>1, <2>2, HolderKeepsOne DEF ConvertDone
<1>8. CASE Unsentinel(p)
  <2>1. pc[p] = "unsentinel" /\ journal' = journal
    BY <1>8 DEF Unsentinel
  <2>2. CASE op[p] = "write"
    <3>1. work'.intent = work.intent /\ op' = op /\ pc' = [pc EXCEPT ![p] = "choose"]
            /\ lock' = lock
      BY <1>1, <1>8, <2>2 DEF Unsentinel, Work
    <3>2. pc'[p] = "choose" => HolderOne(p)'
      BY <1>0, <1>2, <1>3, <2>1, <2>2, <3>1 DEF HolderOne, HolderFacts, Recovering, Mutating
    <3> QED BY <1>0, <1>3, <2>1, <3>1, <3>2, HolderKeepsOne
  <2>3. CASE op[p] # "write"
    BY <1>0, <1>3, <1>8, <2>1, <2>3, ReleaseKeepsOne DEF Unsentinel
  <2> QED BY <2>2, <2>3
<1> QED BY <1>4, <1>5, <1>6, <1>7, <1>8 DEF MigrateStep

\* A recovery starts from all that dangles.
LEMMA StartsRecovery ==
  ASSUME OneInv, NEW p \in Proc, journal' = journal, pc'[p] = "recover",
         work' = [NoWork EXCEPT !.todo = Danglers(journal)]
  PROVE  HolderOne(p)'
<1>1. work'.todo = Danglers(journal) /\ work'.intent = NoIntent
  BY DEF NoWork
<1>2. \A e \in Danglers(journal) : e.flag = "open" => work'.todo \subseteq {e}
  BY <1>1, SoleOne
<1> QED BY <1>1, <1>2, JournalStays DEF HolderOne, HolderFacts, Mutating

LEMMA ReadKeepsOne ==
  ASSUME OneInv, TypeInv', NEW p \in Proc, ReadStep(p)
  PROVE  OneInv'
<1> USE DEF GoTo
<1>6. TypeOK
  BY DEF OneInv, TypeInv
<1>7. /\ {"idle", "wait", "probe", "exists", "stale", "load"} \subseteq FreeAt
      /\ "recheck" \in LockedAt /\ "recover" \in LockedAt
  BY DEF FreeAt, LockedAt
<1>8. op[p] \in AllOps \cup {"none"} /\ op = [op EXCEPT ![p] = op[p]]
  BY <1>6 DEF TypeOK
<1>9. ASSUME pc[p] \in FreeAt, ReturnUnlocked(p) PROVE OneInv'
  BY <1>7, <1>9, FreeKeepsOne DEF ReturnUnlocked, Return
<1>10. ASSUME NEW from \in FreeAt, NEW to \in FreeAt, LookAt(p, from, to) PROVE OneInv'
  <2>1. op' = [op EXCEPT ![p] = op[p]]
    BY <1>8, <1>10 DEF LookAt
  <2> QED BY <1>8, <1>10, <2>1, FreeKeepsOne DEF LookAt
<1>1. CASE ReadSentinel(p)
  BY <1>1, <1>7, <1>9, <1>10 DEF ReadSentinel
<1>2. CASE ReadEmpty(p)
  BY <1>2, <1>7, <1>9, <1>10 DEF ReadEmpty
<1>3. CASE ReadStale(p)
  BY <1>3, <1>7, <1>10 DEF ReadStale
<1>4. CASE ReadLoad(p)
  BY <1>4, <1>7, <1>9 DEF ReadLoad
<1>5. CASE Recheck(p)
  <2>1. journal' = journal /\ pc[p] = "recheck" /\ Coherent(journal)' /\ Sole'
    BY <1>5, JournalStays DEF Recheck, disk
  <2>2. CASE migrating \/ Fresh
    BY <1>5, <1>7, <2>1, <2>2, ReleaseKeepsOne DEF Recheck
  <2>3. CASE ~(migrating \/ Fresh)
    <3>1. /\ work' = [NoWork EXCEPT !.todo = Danglers(journal)]
          /\ pc' = [pc EXCEPT ![p] = "recover"] /\ lock' = lock /\ op' = op
      BY <1>5, <2>3 DEF Recheck
    <3> QED BY <1>7, <2>1, <3>1, StartsRecovery, HolderKeepsOne
  <2> QED BY <2>2, <2>3
<1> QED BY <1>1, <1>2, <1>3, <1>4, <1>5 DEF ReadStep

LEMMA AcquireKeepsOne ==
  ASSUME OneInv, TypeInv', NEW p \in Proc, Acquire(p)
  PROVE  OneInv'
<1>1. TypeOK /\ journal' = journal /\ op' = op
  BY DEF OneInv, TypeInv, Acquire, disk
<1>2. \A q \in Proc : pc[q] \notin LockedAt
  BY <1>1, ConstAssumption DEF Acquire, TypeOK, ConstAssumption
<1>3. pc' = [pc EXCEPT ![p] = Dispatch(op[p])]
  BY DEF Acquire, GoTo
<1>4. ASSUME NEW q \in Proc, pc'[q] \in LockedAt PROVE HolderOne(q)'
  <2>1. q = p /\ pc'[p] = Dispatch(op[p])
    BY <1>1, <1>2, <1>3, <1>4 DEF TypeOK
  <2>2. CASE Dispatch(op[p]) = "recover"
    BY <1>1, <2>1, <2>2, StartsRecovery DEF Acquire
  <2>3. CASE Dispatch(op[p]) # "recover"
    <3>1. work'.intent = NoIntent
      BY <2>3 DEF Acquire, NoWork
    <3>2. \/ pc'[p] = "recheck" \/ (pc'[p] = "render" /\ op[p] = "regenerate")
          \/ (pc'[p] = "sentinel" /\ op[p] = "migrate")
      BY <2>1, <2>3 DEF Dispatch
    <3> QED BY <1>1, <2>1, <3>1, <3>2
            DEF HolderOne, HolderFacts, Recovering, Mutating, InMigration
  <2> QED BY <2>2, <2>3
<1> QED BY <1>1, <1>4, JournalStays DEF OneInv

LEMMA CrashKeepsOne ==
  ASSUME OneInv, TypeInv', NEW p \in Proc, Crash(p)
  PROVE  OneInv'
<1>1. TypeOK /\ journal' = journal
  BY DEF OneInv, TypeInv, Crash, disk
<1>2. CASE lock = p
  <2>1. Release(p) /\ pc[p] \in LockedAt
    BY <1>1, <1>2 DEF Crash, Release, TypeOK
  <2> QED BY <1>1, <2>1, JournalStays, ReleaseKeepsOne
<1>3. CASE lock # p
  <2>1. pc[p] \in FreeAt
    BY <1>1, <1>3 DEF TypeOK
  <2>2. "idle" \in FreeAt
    BY DEF FreeAt
  <2> QED BY <1>3, <2>1, <2>2, FreeKeepsOne DEF Crash, Return
<1> QED BY <1>2, <1>3

\* An edit leaves the journal alone.
LEMMA EditKeepsOne ==
  ASSUME OneInv, TypeInv', NEW n \in Name, NEW v \in Content, Edit(n, v)
  PROVE  OneInv'
<1>1. journal' = journal /\ migrating' = migrating /\ UNCHANGED <<pc, op, work>>
  BY DEF Edit
<1>2. ASSUME NEW q \in Proc, pc'[q] \in LockedAt PROVE HolderOne(q)'
  <2>1. HolderOne(q) /\ lock = q
    BY <1>1, <1>2 DEF OneInv, TypeInv, TypeOK
  <2>2. EditsUnderLock
    BY <2>1, ConstAssumption DEF Edit, ConstAssumption
  <2> QED BY <1>1, <2>1, <2>2, JournalStays DEF HolderOne, InMigration, Oldest
<1> QED BY <1>1, <1>2, JournalStays DEF OneInv

LEMMA NextKeepsOne ==
  ASSUME OneInv, [Next]_vars
  PROVE  OneInv'
<1>0. TypeInv'
  BY NextKeepsTypeInv DEF OneInv
<1>1. ASSUME NEW p \in Proc, Step(p) PROVE OneInv'
  BY <1>0, <1>1, RecoverKeepsOne, MutateKeepsOne, MigrateKeepsOne, ReadKeepsOne DEF Step
<1>2. ASSUME NEW p \in Proc, Acquire(p) \/ Crash(p) PROVE OneInv'
  BY <1>0, <1>2, AcquireKeepsOne, CrashKeepsOne
<1>3. ASSUME NEW p \in Proc, NEW o \in Ops, Begin(p, o) PROVE OneInv'
  <2>1. o \in AllOps
    BY ConstAssumption DEF ConstAssumption
  <2>2. {"idle", "probe", "wait"} \subseteq FreeAt
    BY DEF FreeAt
  <2> QED BY <1>0, <1>3, <2>1, <2>2, FreeKeepsOne DEF Begin, GoTo
<1>4. ASSUME NEW n \in Name, NEW v \in Content, Edit(n, v) PROVE OneInv'
  BY <1>0, <1>4, EditKeepsOne
<1>5. CASE UNCHANGED vars
  <2>1. journal' = journal /\ facts' = facts /\ migrating' = migrating
          /\ UNCHANGED <<pc, op, work>>
    BY <1>5 DEF vars
  <2>2. \A p \in Proc : HolderOne(p) => HolderOne(p)'
    BY <2>1, JournalStays DEF HolderOne, HolderFacts, InMigration, Oldest
  <2> QED BY <1>0, <2>1, <2>2, JournalStays DEF OneInv
<1> QED BY <1>1, <1>2, <1>3, <1>4, <1>5 DEF Next

LEMMA Oneness == Spec \/ LegacySpec => []OneInv
<1>1. OneInv /\ [Next]_vars => OneInv'
  BY NextKeepsOne
<1> QED BY <1>1, OneInit, PTL DEF Spec, LegacySpec

\* However calls crash, overlap and are retried, whatever is edited by hand and whatever
\* the single-phase version left: mutations fail closed on a dangling intent, so there
\* is one at most, and it is the newest record, which retention never drops.
THEOREM OneIntent == Spec \/ LegacySpec => []OneIntentInFlight
<1>1. OneInv => OneIntentInFlight
  BY DEF OneInv, Sole, OneIntentInFlight
<1> QED BY <1>1, Oneness, PTL

-----------------------------------------------------------------------------
(* What a step does to the journal and to the facts *)

Lands(d) ==
  /\ d \in Danglers(journal) /\ d.flag = "open" /\ facts[d.name] = d.pre
  /\ facts' = [facts EXCEPT ![d.name] = d.post] /\ journal' = journal

Commits(d) ==
  /\ d \in Danglers(journal) /\ facts[d.name] = d.post
  /\ d.flag = "open" => journal' = Flipped(journal, d.seq)
  /\ journal' = Flipped(journal, d.seq) \/ journal' \in Truncated(Flipped(journal, d.seq))
  /\ facts' = facts

Marks(d, r) ==
  /\ \/ d \in Danglers(journal)
     \/ Dropped(d) /\ \A x \in Danglers(journal) : x.flag # "open"
  /\ facts[d.name] = d.pre /\ d.op \in ForwardOps /\ MarkerOf(r, d)
  /\ journal' \in Truncated(Append(journal, r)) /\ facts' = facts

Journals(r) ==
  /\ Danglers(journal) = {} /\ facts[r.name] = r.pre /\ Chosen(r) /\ MayFollow(r, journal)
  /\ journal' \in Truncated(Append(journal, r)) /\ facts' = facts

Imports(n, v) ==
  /\ migrating /\ Entry # {} /\ facts[n] = Absent
  /\ "migrate" \in Ops \/ Danglers(journal) = {}
  /\ facts' = [facts EXCEPT ![n] = v] /\ journal' = journal

Shape ==
  \/ UNCHANGED <<facts, journal>>
  \/ edits' # edits /\ journal' = journal
  \/ \E d \in JournalEntry :
       Lands(d) \/ Commits(d) \/ \E r \in JournalEntry : Marks(d, r)
  \/ \E r \in JournalEntry : Journals(r)
  \/ \E n \in Name, v \in Value : Imports(n, v)

OpsOnly == op \in [Proc -> Ops \cup {"none"}]

LEMMA OpsKept == Spec \/ LegacySpec => []OpsOnly
<1>1. Init \/ LegacyInit => OpsOnly
  BY DEF Init, LegacyInit, AtRest, OpsOnly
<1>2. OpsOnly /\ [Next]_vars => OpsOnly'
  <2> SUFFICES ASSUME OpsOnly, [Next]_vars PROVE OpsOnly'
    OBVIOUS
  <2>1. \/ op' = op
        \/ \E p \in Proc : op' = [op EXCEPT ![p] = "none"]
        \/ \E p \in Proc, o \in Ops : op' = [op EXCEPT ![p] = o]
    <3>1. ASSUME NEW p \in Proc, RecoverStep(p)
          PROVE  op' = op \/ op' = [op EXCEPT ![p] = "none"]
      BY <3>1 DEF RecoverStep, RollForward, RollBack, WriteMarker, Redo, RedoFact, RedoCommit,
                  GiveUp, Proceed, FailClosed, Republish, NothingToRecover, Release, Return
    <3>2. ASSUME NEW p \in Proc, MutateStep(p)
          PROVE  op' = op \/ op' = [op EXCEPT ![p] = "none"]
      BY <3>2 DEF MutateStep, ChooseWrite, ChoosePromote, ChooseDelete, ChooseRollback, Choose,
                  Decline, JournalIntent, Apply, Render, Publish, Clean, RegenerateFails,
                  Commit, Release, Return
    <3>3. ASSUME NEW p \in Proc, MigrateStep(p) \/ ReadStep(p)
          PROVE  op' = op \/ op' = [op EXCEPT ![p] = "none"]
      BY <3>3 DEF MigrateStep, AutoMigrate, Sentinel, Convert, ConvertDone, Unsentinel,
                  ReadStep, ReadSentinel, ReadEmpty, ReadStale, ReadLoad, Recheck,
                  ReturnUnlocked, LookAt, Release, Return
    <3>4. ASSUME NEW p \in Proc, Acquire(p) \/ Crash(p)
          PROVE  op' = op \/ op' = [op EXCEPT ![p] = "none"]
      BY <3>4 DEF Acquire, Crash, Return
    <3>5. ASSUME NEW p \in Proc, NEW o \in Ops, Begin(p, o)
          PROVE  op' = [op EXCEPT ![p] = o]
      BY <3>5 DEF Begin
    <3>6. ASSUME NEW n \in Name, NEW v \in Content, Edit(n, v) PROVE op' = op
      BY <3>6 DEF Edit
    <3>7. CASE UNCHANGED vars
      BY <3>7 DEF vars
    <3> QED BY <3>1, <3>2, <3>3, <3>4, <3>5, <3>6, <3>7 DEF Next, Step
  <2> QED BY <2>1 DEF OpsOnly
<1> QED BY <1>1, <1>2, PTL DEF Spec, LegacySpec

\* Without edits behind the lock holder's back, every step is of one of these shapes.
LEMMA Shapes ==
  ASSUME OneInv, OpsOnly, ~EditsUnderLock, [Next]_vars
  PROVE  Shape
<1> USE DEF GoTo
<1>0. {"recover", "marker", "redo", "recommit", "intent", "apply", "commit",
       "convert"} \subseteq LockedAt
  BY DEF LockedAt
<1>1. TypeOK /\ Sorted(journal) /\ Coherent(journal) /\ facts \in [Name -> Value]
        /\ journal \in Seq(JournalEntry) /\ edits \in Nat
  BY DEF OneInv, TypeInv, TypeOK
<1>2. ASSUME NEW p \in Proc, RecoverStep(p) PROVE Shape
  <2>0. pc[p] \in LockedAt => HolderOne(p) /\ HolderFacts(p)
    BY DEF OneInv, HolderOne
  <2>1. ASSUME NEW e \in work.todo, pc[p] \in Recovering
        PROVE  /\ e \in Danglers(journal) \/ Dropped(e)
               /\ e \in JournalEntry
               /\ \A x \in Danglers(journal) : x.flag = "open" => e = x
    BY <1>0, <2>0, <2>1, SoleOne DEF HolderOne, Recovering, Dropped
  <2>2. ASSUME NEW e \in work.todo, RollForward(p, e) \/ RedoCommit(p, e) PROVE Shape
    <3>1. pc[p] \in Recovering /\ MarkCommitted(e.seq) /\ facts' = facts
      BY <2>2 DEF RollForward, RedoCommit, Recovering
    <3>2. facts[e.name] = e.post
      BY <1>0, <2>0, <2>2 DEF RollForward, RedoCommit, HolderFacts
    <3>3. CASE e \in Danglers(journal)
      <4>1. Commits(e)
        BY <3>1, <3>2, <3>3, Committing DEF Commits
      <4> QED BY <2>1, <3>1, <4>1 DEF Shape
    <3>4. CASE Dropped(e)
      BY <3>1, <3>4, CommittingDropped DEF Shape
    <3> QED BY <2>1, <3>1, <3>3, <3>4
  <2>3. ASSUME NEW e \in work.todo, WriteMarker(p, e) PROVE Shape
    <3>1. pc[p] = "marker" /\ pc[p] \in Recovering /\ facts' = facts /\ Oldest(e)
      BY <2>3 DEF WriteMarker, Recovering
    <3>2. e.op \in ForwardOps /\ facts[e.name] = e.pre
      BY <1>0, <2>0, <3>1 DEF HolderOne, HolderFacts
    <3>3. e \in Danglers(journal) \/ Dropped(e)
      BY <2>1, <3>1
    <3>4. PICK r : MarkerOf(r, e) /\ journal' \in Truncated(Append(journal, r))
      BY <2>3, <3>2, <3>3, Markers
    <3>5. \/ e \in Danglers(journal)
          \/ Dropped(e) /\ \A x \in Danglers(journal) : x.flag # "open"
      BY <2>1, <3>1, <3>3
    <3>6. Marks(e, r) /\ r \in JournalEntry
      BY <3>1, <3>2, <3>4, <3>5 DEF Marks, MarkerOf
    <3> QED BY <2>1, <3>1, <3>6 DEF Shape
  <2>4. ASSUME NEW e \in work.todo, RedoFact(p, e) PROVE Shape
    <3>1. pc[p] = "redo" /\ pc[p] \in Recovering /\ journal' = journal
            /\ SetFact(e.name, e.post) /\ Oldest(e)
      BY <2>4 DEF RedoFact, Recovering
    <3>2. e.op = "rollback" /\ facts[e.name] = e.pre /\ "rollback" \notin ForwardOps
      BY <1>0, <2>0, <3>1 DEF HolderOne, HolderFacts, ForwardOps
    <3>3. e \in Danglers(journal) /\ e \in Entries(journal) /\ e.flag = "open"
      BY <2>1, <3>1, <3>2, SoleOne DEF Dropped
    <3>4. Lands(e)
      BY <3>1, <3>2, <3>3 DEF Lands, SetFact
    <3> QED BY <2>1, <3>1, <3>4 DEF Shape
  <2>5. ASSUME NEW e \in work.todo, RollBack(p, e) \/ Redo(p, e) \/ GiveUp(p, e) PROVE Shape
    BY <2>5 DEF RollBack, Redo, GiveUp, Shape, disk
  <2>6. ASSUME Proceed(p) \/ FailClosed(p) \/ Republish(p) \/ NothingToRecover(p) PROVE Shape
    BY <2>6 DEF Proceed, FailClosed, Republish, NothingToRecover, Shape, disk
  <2> QED BY <1>2, <2>2, <2>3, <2>4, <2>5, <2>6 DEF RecoverStep
<1>3. ASSUME NEW p \in Proc, MutateStep(p) PROVE Shape
  <2>0. pc[p] \in LockedAt => HolderOne(p) /\ HolderFacts(p)
    BY DEF OneInv, HolderOne
  <2>1. CASE JournalIntent(p)
    <3>1. pc[p] = "intent" /\ journal' \in Truncated(Append(journal, work.intent))
            /\ facts' = facts
      BY <2>1 DEF JournalIntent
    <3>2. Journals(work.intent) /\ work.intent \in JournalEntry
      BY <3>1, IntentFollows DEF Journals, MayFollow
    <3> QED BY <3>2 DEF Shape
  <2>2. CASE Apply(p)
    <3>1. pc[p] = "apply" /\ journal' = journal /\ SetFact(work.intent.name, work.intent.post)
      BY <2>2 DEF Apply
    <3>2. /\ work.intent \in Danglers(journal) /\ work.intent.flag = "open"
          /\ facts[work.intent.name] = work.intent.pre
      BY <1>0, <2>0, <3>1 DEF HolderOne, HolderFacts, Mutating
    <3>3. Lands(work.intent) /\ work.intent \in JournalEntry
      BY <3>1, <3>2, SoleOne DEF Lands, SetFact
    <3> QED BY <3>3 DEF Shape
  <2>3. CASE Commit(p)
    <3>1. pc[p] = "commit" /\ MarkCommitted(work.intent.seq) /\ facts' = facts
      BY <2>3 DEF Commit
    <3>2. work.intent \in Danglers(journal) /\ facts[work.intent.name] = work.intent.post
      BY <1>0, <2>0, <3>1 DEF HolderOne, HolderFacts, Mutating
    <3>3. Commits(work.intent) /\ work.intent \in JournalEntry
      BY <3>1, <3>2, Committing, SoleOne DEF Commits
    <3> QED BY <3>3 DEF Shape
  <2>4. CASE \/ ChooseWrite(p) \/ ChoosePromote(p) \/ ChooseDelete(p) \/ ChooseRollback(p)
             \/ Decline(p)
    BY <2>4 DEF ChooseWrite, ChoosePromote, ChooseDelete, ChooseRollback, Decline, Choose,
                Shape, disk
  <2>5. CASE Render(p) \/ Publish(p) \/ Clean(p) \/ RegenerateFails(p)
    BY <2>5 DEF Render, Publish, Clean, RegenerateFails, Shape, disk
  <2> QED BY <1>3, <2>1, <2>2, <2>3, <2>4, <2>5 DEF MutateStep
<1>4. ASSUME NEW p \in Proc, MigrateStep(p) PROVE Shape
  <2>1. ASSUME NEW e \in Entry, Convert(p, e) PROVE Shape
    <3>1. pc[p] = "convert" /\ journal' = journal
      BY <2>1 DEF Convert
    <3>2. migrating /\ (op[p] = "migrate" \/ Danglers(journal) = {})
      BY <1>0, <3>1 DEF OneInv, HolderOne
    <3>3. op[p] = "migrate" => "migrate" \in Ops
      BY DEF OpsOnly
    <3>4. PICK m \in Name : IsFreeName(Slug[e], m) /\ SetFact(m, Converted(e))
      BY <2>1 DEF Convert
    <3>5. facts[m] = Absent /\ facts' = [facts EXCEPT ![m] = Converted(e)]
      BY <3>4 DEF IsFreeName, SetFact
    <3>6. Converted(e) \in Value
      BY ConstAssumption DEF Converted, Value, Content, ConstAssumption
    <3>7. Imports(m, Converted(e))
      BY <3>1, <3>2, <3>3, <3>5 DEF Imports
    <3> QED BY <3>6, <3>7 DEF Shape
  <2>2. CASE AutoMigrate(p) \/ Sentinel(p) \/ ConvertDone(p) \/ Unsentinel(p)
    BY <2>2 DEF AutoMigrate, Sentinel, ConvertDone, Unsentinel, Shape, disk
  <2> QED BY <1>4, <2>1, <2>2 DEF MigrateStep
<1>5. ASSUME NEW p \in Proc, ReadStep(p) PROVE Shape
  BY <1>5 DEF ReadStep, ReadSentinel, ReadEmpty, ReadStale, ReadLoad, Recheck,
              ReturnUnlocked, LookAt, Shape, disk
<1>6. ASSUME NEW p \in Proc, Acquire(p) \/ Crash(p) PROVE Shape
  BY <1>6 DEF Acquire, Crash, Shape, disk
<1>7. ASSUME NEW p \in Proc, NEW o \in Ops, Begin(p, o) PROVE Shape
  BY <1>7 DEF Begin, Shape, disk
<1>8. ASSUME NEW n \in Name, NEW v \in Content, Edit(n, v) PROVE Shape
  BY <1>1, <1>8 DEF Edit, Shape
<1>9. CASE UNCHANGED vars
  BY <1>9 DEF vars, Shape
<1> QED BY <1>2, <1>3, <1>4, <1>5, <1>6, <1>7, <1>8, <1>9 DEF Next, Step

\* No fact is changed but under a journaled open intent with the right images, or by
\* an import under a free name: whatever crashed before, as long as hand edits stay
\* out of the critical sections.
THEOREM AheadOfFacts == ~EditsUnderLock => (Spec \/ LegacySpec => WriteAhead)
<1> SUFFICES ASSUME ~EditsUnderLock PROVE Spec \/ LegacySpec => WriteAhead
  OBVIOUS
<1>1. OneInv /\ OpsOnly /\ [Next]_vars => WriteAheadStep
  <2> SUFFICES ASSUME OneInv, OpsOnly, [Next]_vars, NEW n \in Name, facts'[n] # facts[n]
               PROVE  \/ \E e \in Entries(journal) :
                           /\ e.flag = "open" /\ e.name = n
                           /\ e.pre = facts[n] /\ e.post = facts'[n]
                      \/ migrating /\ facts[n] = Absent
                      \/ edits' # edits
    BY DEF WriteAheadStep
  <2>1. Shape /\ facts \in [Name -> Value]
    BY Shapes DEF OneInv, TypeInv, TypeOK
  <2>2. ASSUME NEW d, Lands(d)
        PROVE  /\ d \in Entries(journal) /\ d.flag = "open" /\ d.name = n
               /\ d.pre = facts[n] /\ d.post = facts'[n]
    BY <2>1, <2>2, SoleOne DEF Lands
  <2>3. ASSUME NEW m \in Name, NEW v \in Value, Imports(m, v)
        PROVE  migrating /\ facts[n] = Absent
    BY <2>1, <2>3 DEF Imports
  <2> QED BY <2>1, <2>2, <2>3 DEF Shape, Commits, Marks, Journals
<1> QED BY <1>1, Oneness, OpsKept, PTL DEF WriteAhead, Spec, LegacySpec

-----------------------------------------------------------------------------
(* Without hand edits, and without a migration beside dangling intents *)

Untouched == ~EditsUnderLock /\ MaxEdits = 0 /\ ("migrate" \notin Ops \/ Entry = {})

\* The steps of such a store.
LEMMA UntouchedShapes ==
  ASSUME Untouched, OneInv, OpsOnly, [Next]_vars
  PROVE  \/ UNCHANGED <<facts, journal>>
         \/ \E d \in JournalEntry :
              Lands(d) \/ Commits(d) \/ \E r \in JournalEntry : Marks(d, r)
         \/ \E r \in JournalEntry : Journals(r)
         \/ \E n \in Name, v \in Value : Imports(n, v) /\ Danglers(journal) = {}
<1>1. edits' = edits
  <2>1. ASSUME NEW p \in Proc, Step(p) PROVE edits' = edits
    <3>1. ASSUME RecoverStep(p) PROVE edits' = edits
      BY <3>1 DEF RecoverStep, RollForward, RollBack, WriteMarker, Redo, RedoFact, RedoCommit,
                  GiveUp, Proceed, FailClosed, Republish, NothingToRecover
    <3>2. ASSUME MutateStep(p) PROVE edits' = edits
      BY <3>2 DEF MutateStep, ChooseWrite, ChoosePromote, ChooseDelete, ChooseRollback, Choose,
                  Decline, JournalIntent, Apply, Render, Publish, Clean, RegenerateFails, Commit
    <3>3. ASSUME MigrateStep(p) \/ ReadStep(p) PROVE edits' = edits
      BY <3>3 DEF MigrateStep, AutoMigrate, Sentinel, Convert, ConvertDone, Unsentinel,
                  ReadStep, ReadSentinel, ReadEmpty, ReadStale, ReadLoad, Recheck,
                  ReturnUnlocked, LookAt
    <3> QED BY <2>1, <3>1, <3>2, <3>3 DEF Step
  <2>2. ASSUME NEW p \in Proc, Acquire(p) \/ Crash(p) \/ \E o \in Ops : Begin(p, o)
        PROVE  edits' = edits
    BY <2>2 DEF Acquire, Crash, Begin
  <2>3. ~ \E n \in Name, v \in Content : Edit(n, v)
    <3>1. edits \in Nat
      BY DEF OneInv, TypeInv, TypeOK
    <3> QED BY <3>1 DEF Untouched, Edit
  <2>4. UNCHANGED vars => edits' = edits
    BY DEF vars
  <2> QED BY <2>1, <2>2, <2>3, <2>4 DEF Next
<1>2. Shape
  BY Shapes DEF Untouched
<1>3. \A n \in Name, v \in Value : Imports(n, v) => Danglers(journal) = {}
  BY DEF Imports, Untouched
<1> QED BY <1>1, <1>2, <1>3 DEF Shape

\* What the journal says after each of these steps.
LEMMA JournalFacts ==
  ASSUME OneInv
  PROVE  /\ journal \in Seq(JournalEntry) /\ Sorted(journal) /\ Coherent(journal)
         /\ Entries(journal) \subseteq JournalEntry
         /\ \A e, f \in Entries(journal) : e.seq = f.seq => e = f
         /\ \A e \in Entries(journal) : e.seq \in Nat /\ e.seq <= LastSeq(journal)
         /\ Unreverted(journal) = {e \in Entries(journal) : e.op \in ForwardOps
                                                       /\ e.seq \notin Reverted(journal)}
         /\ "rollback" \notin ForwardOps
<1>1. journal \in Seq(JournalEntry) /\ Sorted(journal) /\ Coherent(journal)
  BY DEF OneInv, TypeInv, TypeOK
<1> QED BY <1>1, EntriesType, Views DEF ForwardOps

LEMMA AfterCommit ==
  ASSUME OneInv, NEW d, Commits(d)
  PROVE  /\ Coherent(journal')
         /\ Danglers(journal') \subseteq Danglers(journal) \ {d}
         /\ Entries(journal') \subseteq (Entries(journal) \ {d}) \cup {Done(d)}
         /\ \A e \in Entries(journal'), f \in (Entries(journal) \ {d}) \cup {Done(d)} :
              e.seq <= f.seq => f \in Entries(journal')
         /\ d.op \in ForwardOps =>
              /\ d \in Unreverted(journal)
              /\ Unreverted(journal')
                   = ((Unreverted(journal) \ {d}) \cup {Done(d)}) \cap Entries(journal')
              /\ Danglers(journal') = (Danglers(journal) \ {d}) \cap Entries(journal')
         /\ d.op = "rollback" =>
              /\ Unreverted(journal') = {e \in Unreverted(journal) : e.seq # d.target}
              /\ Danglers(journal') = {}
<1> DEFINE a == Flipped(journal, d.seq)
<1>1. /\ d \in Danglers(journal)
      /\ d.flag = "open" => journal' = a
      /\ journal' = a \/ journal' \in Truncated(a)
  BY DEF Commits
<1>2. /\ d \in Entries(journal) /\ d \in JournalEntry /\ d.seq \notin Reverted(journal)
      /\ d.op = "rollback" => d.flag = "open"
      /\ d.flag = "open" => Danglers(journal) = {d}
      /\ d.flag # "done"
  BY <1>1, SoleOne
<1>3. /\ a \in Seq(JournalEntry) /\ Sorted(a) /\ Coherent(a)
      /\ Danglers(a) \subseteq Danglers(journal) \ {d}
      /\ Entries(a) = (Entries(journal) \ {d}) \cup {Done(d)}
      /\ d.op \in ForwardOps =>
           Reverted(a) = Reverted(journal) /\ Danglers(a) = Danglers(journal) \ {d}
      /\ d.op = "rollback" => Reverted(a) = Reverted(journal) \cup {d.target}
  BY <1>2, JournalFacts, Flipping
<1> HIDE DEF a
<1>4. Suffix(journal', a)
  BY <1>1, <1>3, TruncatedSuffix DEF Suffix
<1>5. /\ Coherent(journal') /\ Danglers(journal') = Danglers(a) \cap Entries(journal')
      /\ Unreverted(journal') = Unreverted(a) \cap Entries(journal')
  BY <1>3, <1>4, SuffixViews
<1>6. Unreverted(a) = {e \in Entries(a) : e.op \in ForwardOps /\ e.seq \notin Reverted(a)}
  BY Views
<1>7. Done(d).seq = d.seq /\ Done(d).op = d.op
  BY <1>2, DoneType
<1>8. ASSUME d.op \in ForwardOps
      PROVE  /\ d \in Unreverted(journal)
             /\ Unreverted(a) = (Unreverted(journal) \ {d}) \cup {Done(d)}
  BY <1>2, <1>3, <1>6, <1>7, <1>8, JournalFacts
<1>9. ASSUME d.op = "rollback"
      PROVE  /\ Unreverted(journal') = {e \in Unreverted(journal) : e.seq # d.target}
             /\ Danglers(journal') = {}
  <2>1. d.op \notin ForwardOps /\ Done(d).op \notin ForwardOps
    BY <1>7, <1>9, JournalFacts
  <2>2. Unreverted(a) = {e \in Unreverted(journal) : e.seq # d.target}
    BY <1>3, <1>6, <1>9, <2>1, JournalFacts
  <2>3. journal' = a /\ Danglers(journal) = {d}
    BY <1>1, <1>2, <1>9
  <2> QED BY <1>3, <2>2, <2>3
<1> QED BY <1>3, <1>4, <1>5, <1>8, <1>9 DEF Suffix

LEMMA AfterMark ==
  ASSUME OneInv, NEW d, NEW r \in JournalEntry, Marks(d, r)
  PROVE  /\ Danglers(journal') = {e \in Danglers(journal) \cap Entries(journal') :
                                    e.seq # d.seq}
         /\ Unreverted(journal') = {e \in Unreverted(journal) \cap Entries(journal') :
                                      e.seq # d.seq}
         /\ \/ d \in Unreverted(journal)
            \/ \A e \in Entries(journal) : e.seq # d.seq
         /\ \A x \in Danglers(journal) : x # d => x.flag # "open"
         /\ Coherent(journal')
         /\ \A e \in Entries(journal'), f \in Entries(journal) :
              e.seq <= f.seq => f \in Entries(journal')
         /\ Entries(journal') \subseteq Entries(journal) \cup {r}
<1>1. /\ d \in Danglers(journal) \/ (Dropped(d) /\ \A x \in Danglers(journal) : x.flag # "open")
      /\ d.op \in ForwardOps /\ r.target = d.seq /\ MayFollow(r, journal)
      /\ r.flag = "done" /\ r.op = "rollback"
      /\ journal' \in Truncated(Append(journal, r))
  BY DEF Marks, MarkerOf
<1>2. /\ Danglers(journal') = {e \in Danglers(journal) \cap Entries(journal') : e.seq # d.seq}
      /\ Unreverted(journal') = {e \in Unreverted(journal) \cap Entries(journal') : e.seq # d.seq}
      /\ Suffix(journal', Append(journal, r)) /\ Coherent(journal')
      /\ Entries(journal') \subseteq Entries(journal) \cup {r}
  BY <1>1, JournalFacts, Appending
<1>3. Entries(Append(journal, r)) = Entries(journal) \cup {r}
  BY JournalFacts, AppendEntries
<1>4. \/ d \in Unreverted(journal)
      \/ \A e \in Entries(journal) : e.seq # d.seq
  <2>1. CASE d \in Danglers(journal)
    BY <1>1, <2>1, SoleOne, JournalFacts
  <2>2. CASE Dropped(d)
    <3>1. d.seq \in Nat /\ \A e \in Entries(journal) : e.seq \in Nat /\ d.seq < e.seq
      BY <2>2, JournalFacts DEF Dropped, JournalEntry
    <3> QED BY <3>1
  <2> QED BY <1>1, <2>1, <2>2
<1>5. \A x \in Danglers(journal) : x # d => x.flag # "open"
  BY <1>1, SoleOne
<1>6. \A e \in Entries(journal'), f \in Entries(journal) :
        e.seq <= f.seq => f \in Entries(journal')
  BY <1>2, <1>3 DEF Suffix
<1> QED BY <1>2, <1>4, <1>5, <1>6

LEMMA AfterIntent ==
  ASSUME OneInv, NEW r \in JournalEntry, Journals(r)
  PROVE  /\ Danglers(journal') = {r} /\ r \in Entries(journal') /\ r \notin Entries(journal)
         /\ \A e \in Entries(journal) : e.seq < r.seq
         /\ r.op \in ForwardOps =>
              Unreverted(journal') = (Unreverted(journal) \cap Entries(journal')) \cup {r}
         /\ r.op = "rollback" =>
              Unreverted(journal') = Unreverted(journal) \cap Entries(journal')
         /\ Coherent(journal')
         /\ \A e \in Entries(journal'), f \in Entries(journal) :
              e.seq <= f.seq => f \in Entries(journal')
         /\ Entries(journal') \subseteq Entries(journal) \cup {r}
<1>1. Danglers(journal) = {} /\ r.flag = "open" /\ MayFollow(r, journal)
  BY DEF Journals, Chosen
<1>2. /\ Danglers(journal') = {r}
      /\ r.op \in ForwardOps =>
              Unreverted(journal') = (Unreverted(journal) \cap Entries(journal')) \cup {r}
      /\ r.op = "rollback" =>
              Unreverted(journal') = Unreverted(journal) \cap Entries(journal')
      /\ Suffix(journal', Append(journal, r)) /\ Coherent(journal') /\ r \in Entries(journal')
      /\ Entries(journal') \subseteq Entries(journal) \cup {r}
  BY <1>1, JournalFacts, Appending DEF Journals
<1>3. Entries(Append(journal, r)) = Entries(journal) \cup {r}
  BY JournalFacts, AppendEntries
<1>4. \A e \in Entries(journal'), f \in Entries(journal) :
        e.seq <= f.seq => f \in Entries(journal')
  BY <1>2, <1>3 DEF Suffix
<1>5. \A e \in Entries(journal) : e.seq < r.seq
  <2>1. LastSeq(journal) \in Nat /\ r.seq = LastSeq(journal) + 1
    BY <1>1, JournalFacts, EntriesType DEF MayFollow
  <2> QED BY <2>1, JournalFacts
<1>6. r \notin Entries(journal)
  <2>1. r.seq \in Nat
    BY DEF JournalEntry
  <2> QED BY <1>5, <2>1
<1> QED BY <1>1, <1>2, <1>4, <1>5, <1>6

\* A dangling record's fact is at one of its two images.
AtImage == \A e \in Danglers(journal) : facts[e.name] \in {e.pre, e.post}

LEMMA WedgeKept ==
  ASSUME Untouched, OneInv, OpsOnly, AtImage, [Next]_vars
  PROVE  AtImage'
<1>1. facts \in [Name -> Value]
  BY DEF OneInv, TypeInv, TypeOK
<1>2. ASSUME NEW d, Lands(d) PROVE AtImage'
  <2>1. journal' = journal /\ facts'[d.name] = d.post
    BY <1>1, <1>2, SoleOne DEF Lands
  <2>2. Danglers(journal') = {d}
    BY <1>2, <2>1, SoleOne DEF Lands
  <2> QED BY <2>1, <2>2 DEF AtImage
<1>3. ASSUME NEW d, Commits(d) PROVE AtImage'
  BY <1>3, AfterCommit DEF AtImage, Commits
<1>4. ASSUME NEW d, NEW r \in JournalEntry, Marks(d, r) PROVE AtImage'
  BY <1>4, AfterMark DEF AtImage, Marks
<1>5. ASSUME NEW r \in JournalEntry, Journals(r) PROVE AtImage'
  BY <1>5, AfterIntent DEF AtImage, Journals
<1>6. ASSUME NEW n \in Name, NEW v \in Value, Imports(n, v), Danglers(journal) = {}
      PROVE  AtImage'
  BY <1>6 DEF AtImage, Imports
<1>7. UNCHANGED <<facts, journal>> => AtImage'
  BY DEF AtImage
<1> QED BY <1>2, <1>3, <1>4, <1>5, <1>6, <1>7, UntouchedShapes

\* What the single-phase version may have left open is at one of its images too.
LEMMA LegacyUnwedged == LegacyInit => AtImage
<1> SUFFICES ASSUME LegacyInit, NEW d \in Danglers(journal)
             PROVE  facts[d.name] \in {d.pre, d.post}
  BY DEF AtImage
<1>1. /\ journal \in Seq(JournalEntry)
      /\ \A i \in DOMAIN journal :
           /\ journal[i].seq = i /\ journal[i].op \in ForwardOps /\ journal[i].flag = "none"
  BY LegacyJournal DEF LegacyInit, AtRest
<1>2. d \in Entries(journal) /\ (d.flag = "open" \/ Candidate(journal, d))
  BY Views
<1>3. PICK k \in DOMAIN journal : d = journal[k]
  BY <1>2 DEF Entries
<1>4. Candidate(journal, d) /\ d.seq = k /\ d \in JournalEntry
  BY <1>1, <1>2, <1>3
<1>5. d.name \in Name
  BY <1>4 DEF JournalEntry
<1> DEFINE mine == {i \in DOMAIN journal : journal[i].name = d.name}
<1>6. k \in mine /\ \A i \in mine : i <= k
  <2>1. ASSUME NEW i \in mine PROVE i <= k
    <3>1. journal[i] \in Entries(journal)
      BY DEF Entries
    <3> QED BY <1>1, <1>4, <3>1 DEF Candidate
  <2> QED BY <1>3, <2>1
<1>7. (CHOOSE i \in mine : \A l \in mine : l <= i) = k
  <2>1. mine \subseteq Nat
    BY <1>1
  <2> HIDE DEF mine
  <2>2. \A i \in mine : (\A l \in mine : l <= i) => i = k
    BY <1>6, <2>1
  <2> QED BY <1>6, <2>2
<1> QED BY <1>3, <1>5, <1>6, <1>7 DEF LegacyInit, AtRest

\* An intent of this version says what to restore.
LEMMA ImageResolves == OneInv /\ AtImage => NeverWedged
<1> SUFFICES ASSUME OneInv, AtImage, NEW e \in Danglers(journal), facts[e.name] # e.post
             PROVE  facts[e.name] = e.pre /\ (e.op = "rollback" => e.post \in Restored(e))
  BY DEF NeverWedged
<1>1. facts[e.name] = e.pre
  BY DEF AtImage
<1>2. ASSUME e.op = "rollback" PROVE e.post \in Restored(e)
  <2>1. e \in Entries(journal) /\ e \in JournalEntry /\ Coherent(journal)
    BY EntriesType DEF OneInv, TypeInv, TypeOK, Danglers
  <2>2. e.flag = "open"
    BY <1>2, <2>1 DEF Danglers, IsDangling, LegacyCandidates, ForwardOps
  <2>3. e.restore = e.post /\ e.post # NoRestore
    BY <1>2, <2>1, <2>2, ConstAssumption DEF Coherent, JournalEntry, ConstAssumption
  <2> QED BY <2>3 DEF Restored
<1> QED BY <1>1, <1>2

\* A crash at any point, of this version or of the single-phase one, leaves the fact
\* of a dangling mutation at one of its two images, so recovery resolves it, and no
\* call fails closed for ever.
THEOREM Unwedged == Untouched => (Spec \/ LegacySpec => []NeverWedged)
<1> SUFFICES ASSUME Untouched PROVE Spec \/ LegacySpec => []NeverWedged
  OBVIOUS
<1>1. Init \/ LegacyInit => AtImage
  BY LegacyUnwedged DEF Init, AtImage, Danglers, Entries
<1>2. OneInv /\ OpsOnly /\ AtImage /\ [Next]_vars => AtImage'
  BY WedgeKept
<1> QED BY <1>1, <1>2, Oneness, OpsKept, ImageResolves, PTL DEF Spec, LegacySpec

-----------------------------------------------------------------------------
(* Mutations of a fact hang together *)

LatestIn(U, e) == \A f \in U : f.name = e.name => f.seq <= e.seq

\* Each mutation of a fact started from what the one before it in force had left.
ChainOf(U) ==
  \A f, e \in U :
    /\ f.name = e.name /\ f.seq < e.seq
    /\ \A g \in U : g.name = e.name => g.seq <= f.seq \/ e.seq <= g.seq
    => f.post = e.pre

LEMMA ChainForgets ==
  ASSUME NEW U \in SUBSET JournalEntry, ChainOf(U), NEW V \in SUBSET U,
         \A e \in V, f \in U : e.seq <= f.seq => f \in V
  PROVE  ChainOf(V) /\ \A e \in V : LatestIn(V, e) => LatestIn(U, e)
<1>1. \A e \in U : e.seq \in Nat
  BY DEF JournalEntry
<1>2. ASSUME NEW f \in V, NEW e \in V, f.name = e.name, f.seq < e.seq,
             \A g \in V : g.name = e.name => g.seq <= f.seq \/ e.seq <= g.seq
      PROVE  f.post = e.pre
  <2>1. ASSUME NEW g \in U, g.name = e.name PROVE g.seq <= f.seq \/ e.seq <= g.seq
    <3>1. g \in V \/ g.seq < f.seq
      BY <1>1
    <3> QED BY <1>1, <1>2, <2>1, <3>1
  <2> QED BY <1>2, <2>1 DEF ChainOf
<1>3. ASSUME NEW e \in V, LatestIn(V, e) PROVE LatestIn(U, e)
  BY <1>1, <1>3 DEF LatestIn
<1> QED BY <1>2, <1>3 DEF ChainOf

\* Without the newest mutation of a fact, the one before it is the newest, and left
\* what that mutation started from.
LEMMA ChainUndone ==
  ASSUME NEW U \in SUBSET JournalEntry, ChainOf(U),
         NEW t \in U, LatestIn(U, t), \A e \in U : e.seq = t.seq => e = t,
         NEW V, V = {e \in U : e.seq # t.seq}
  PROVE  /\ ChainOf(V)
         /\ \A e \in V : LatestIn(V, e) => IF e.name = t.name THEN e.post = t.pre
                                           ELSE LatestIn(U, e)
<1>1. \A e \in U : e.seq \in Nat
  BY DEF JournalEntry
<1>2. ASSUME NEW f \in V, NEW e \in V, f.name = e.name, f.seq < e.seq,
             \A g \in V : g.name = e.name => g.seq <= f.seq \/ e.seq <= g.seq
      PROVE  f.post = e.pre
  <2>1. ASSUME NEW g \in U, g.name = e.name PROVE g.seq <= f.seq \/ e.seq <= g.seq
    <3>1. g = t => e.seq <= g.seq
      BY <2>1 DEF LatestIn
    <3> QED BY <1>2, <2>1, <3>1
  <2> QED BY <1>2, <2>1 DEF ChainOf
<1>3. ASSUME NEW e \in V, LatestIn(V, e), e.name = t.name PROVE e.post = t.pre
  <2>1. e.seq <= t.seq /\ e.seq # t.seq
    BY <1>3 DEF LatestIn
  <2>2. e.seq < t.seq
    BY <1>1, <2>1
  <2>3. ASSUME NEW g \in U, g.name = t.name PROVE g.seq <= e.seq \/ t.seq <= g.seq
    <3>1. g.seq = t.seq \/ g \in V
      OBVIOUS
    <3> QED BY <1>1, <1>3, <2>3, <3>1 DEF LatestIn
  <2> QED BY <1>3, <2>2, <2>3 DEF ChainOf
<1>4. ASSUME NEW e \in V, LatestIn(V, e), e.name # t.name PROVE LatestIn(U, e)
  BY <1>4 DEF LatestIn
<1> QED BY <1>2, <1>3, <1>4 DEF ChainOf

\* One more mutation that starts from what the newest of its fact left.
LEMMA ChainGrows ==
  ASSUME NEW U \in SUBSET JournalEntry, ChainOf(U), NEW r \in JournalEntry,
         \A e \in U : e.seq < r.seq,
         \A e \in U : LatestIn(U, e) /\ e.name = r.name => e.post = r.pre
  PROVE  /\ ChainOf(U \cup {r})
         /\ \A e \in U : LatestIn(U \cup {r}, e) => LatestIn(U, e) /\ e.name # r.name
<1>1. \A e \in U \cup {r} : e.seq \in Nat
  BY DEF JournalEntry
<1>2. ASSUME NEW f \in U \cup {r}, NEW e \in U \cup {r}, f.name = e.name, f.seq < e.seq,
             \A g \in U \cup {r} : g.name = e.name => g.seq <= f.seq \/ e.seq <= g.seq
      PROVE  f.post = e.pre
  <2>1. f \in U
    BY <1>1, <1>2
  <2>2. CASE e \in U
    BY <1>2, <2>1, <2>2 DEF ChainOf
  <2>3. CASE e = r
    <3>1. ASSUME NEW g \in U, g.name = f.name PROVE g.seq <= f.seq
      <4>1. g.seq <= f.seq \/ r.seq <= g.seq
        BY <1>2, <2>3, <3>1
      <4>2. g.seq < r.seq
        BY <3>1
      <4> QED BY <1>1, <4>1, <4>2
    <3> QED BY <1>2, <2>1, <2>3, <3>1 DEF LatestIn
  <2> QED BY <2>2, <2>3
<1>3. ASSUME NEW e \in U, LatestIn(U \cup {r}, e) PROVE LatestIn(U, e) /\ e.name # r.name
  <2>1. e.seq < r.seq /\ e.seq \in Nat /\ r.seq \in Nat
    BY <1>1
  <2> QED BY <1>3, <2>1 DEF LatestIn
<1>4. ChainOf(U \cup {r})
  BY <1>2 DEF ChainOf
<1> QED BY <1>3, <1>4

\* The commit flag is nothing the chain looks at.
LEMMA ChainDone ==
  ASSUME NEW U \in SUBSET JournalEntry, ChainOf(U), NEW d \in U,
         NEW V, V = (U \ {d}) \cup {Done(d)}
  PROVE  /\ ChainOf(V)
         /\ \A e \in U \ {d} : LatestIn(V, e) => LatestIn(U, e)
         /\ LatestIn(V, Done(d)) => LatestIn(U, d)
<1>1. /\ Done(d).seq = d.seq /\ Done(d).name = d.name
      /\ Done(d).pre = d.pre /\ Done(d).post = d.post
  BY DoneType
<1>2. \A e \in U : \E x \in V : x.seq = e.seq /\ x.name = e.name
  BY <1>1
<1>3. \A x \in V : \E e \in U :
        /\ x.seq = e.seq /\ x.name = e.name /\ x.pre = e.pre /\ x.post = e.post
  BY <1>1
<1>4. ChainOf(V)
  <2> SUFFICES ASSUME NEW f \in V, NEW e \in V, f.name = e.name, f.seq < e.seq,
                      \A g \in V : g.name = e.name => g.seq <= f.seq \/ e.seq <= g.seq
               PROVE  f.post = e.pre
    BY DEF ChainOf
  <2>1. PICK x \in U : f.seq = x.seq /\ f.name = x.name /\ f.post = x.post
    BY <1>3
  <2>2. PICK y \in U : e.seq = y.seq /\ e.name = y.name /\ e.pre = y.pre
    BY <1>3
  <2>3. \A g \in U : g.name = y.name => g.seq <= x.seq \/ y.seq <= g.seq
    BY <1>2, <2>1, <2>2
  <2>4. x.name = y.name /\ x.seq < y.seq
    BY <2>1, <2>2
  <2> HIDE <1>2, <1>3
  <2> QED BY <2>1, <2>2, <2>3, <2>4 DEF ChainOf
<1>5. \A e \in U \ {d} : LatestIn(V, e) => LatestIn(U, e)
  BY <1>2 DEF LatestIn
<1>6. LatestIn(V, Done(d)) => LatestIn(U, d)
  BY <1>1, <1>2 DEF LatestIn
<1> QED BY <1>4, <1>5, <1>6

\* A journaled rollback undoes the newest mutation in force of its fact, or one that
\* retention has dropped together with all older ones.
Aims(d) ==
  /\ \A e \in Unreverted(journal) : e.name = d.name =>
       e.seq <= d.target /\ \E t \in Unreverted(journal) : t.seq = d.target
  /\ \A e \in Entries(journal) : e.seq = d.target =>
       e \in Unreverted(journal) /\ e.name = d.name /\ e.pre = d.post /\ e.post = d.pre

Aim == \A d \in Danglers(journal) : d.op = "rollback" => Aims(d)

\* A fact nobody is at work on is as its newest mutation in force left it.
Tip ==
  \A e \in Unreverted(journal) :
    LatestIn(Unreverted(journal), e) /\ (\A d \in Danglers(journal) : d.name # e.name)
      => facts[e.name] = e.post

LEMMA AimKept ==
  ASSUME Untouched, OneInv, OpsOnly, Aim, [Next]_vars
  PROVE  Aim'
<1>1. ASSUME NEW r \in JournalEntry, Journals(r) PROVE Aim'
  <2> SUFFICES ASSUME r.op = "rollback" PROVE Aims(r)'
    BY <1>1, AfterIntent DEF Aim
  <2>1. PICK t \in Unreverted(journal) :
          /\ t.seq = r.target /\ t.name = r.name /\ t.pre = r.post /\ t.post = r.pre
          /\ \A f \in Unreverted(journal) : f.name = t.name => f.seq <= t.seq
    BY <1>1 DEF Journals, Chosen, Undoes
  <2>2. /\ Unreverted(journal') = Unreverted(journal) \cap Entries(journal')
        /\ \A e \in Entries(journal'), f \in Entries(journal) :
             e.seq <= f.seq => f \in Entries(journal')
        /\ Entries(journal') \subseteq Entries(journal) \cup {r}
        /\ t \in Entries(journal)
    BY <1>1, <2>1, AfterIntent, JournalFacts
  <2>3. ASSUME NEW e \in Unreverted(journal'), e.name = r.name
        PROVE  e.seq <= r.target /\ \E x \in Unreverted(journal') : x.seq = r.target
    <3>1. e.seq <= t.seq
      BY <2>1, <2>2, <2>3
    <3>2. t \in Unreverted(journal')
      BY <2>1, <2>2, <3>1
    <3> QED BY <2>1, <3>1, <3>2
  <2>4. ASSUME NEW e \in Entries(journal'), e.seq = r.target
        PROVE  e \in Unreverted(journal') /\ e = t
    <3>1. r.seq # t.seq
      <4>1. t.seq < r.seq /\ t.seq \in Nat /\ r.seq \in Nat
        BY <1>1, <2>2, AfterIntent, JournalFacts DEF JournalEntry
      <4> QED BY <4>1
    <3>2. e \in Entries(journal)
      BY <2>1, <2>2, <2>4, <3>1
    <3>3. e = t
      BY <2>1, <2>2, <2>4, <3>2, JournalFacts
    <3> QED BY <2>1, <2>2, <3>3
  <2> QED BY <2>1, <2>3, <2>4 DEF Aims
<1>2. ASSUME journal' = journal PROVE Aim'
  BY <1>2 DEF Aim, Aims
\* Of the records of this version only the one that is settled dangled.
<1>3. ASSUME NEW d, Commits(d) PROVE Aim'
  <2>1. /\ d \in Danglers(journal) /\ Danglers(journal') \subseteq Danglers(journal) \ {d}
        /\ d.op = "rollback" => Danglers(journal') = {}
        /\ d.op \in ForwardOps \cup {"rollback"}
    BY <1>3, AfterCommit, SoleOne DEF Commits
  <2>2. \A x \in Danglers(journal') : x.op # "rollback"
    BY <2>1, SoleOne
  <2> QED BY <2>2 DEF Aim
<1>4. ASSUME NEW d, NEW r \in JournalEntry, Marks(d, r) PROVE Aim'
  <2>1. /\ Danglers(journal') \subseteq Danglers(journal) /\ d.op # "rollback"
        /\ \A x \in Danglers(journal) : x # d => x.flag # "open"
    BY <1>4, AfterMark DEF Marks, ForwardOps
  <2>2. \A x \in Danglers(journal') : x.op # "rollback"
    BY <2>1, SoleOne
  <2> QED BY <2>2 DEF Aim
<1> QED BY <1>1, <1>2, <1>3, <1>4, UntouchedShapes DEF Lands, Imports

ExplainInv == Aim /\ ChainOf(Unreverted(journal)) /\ Tip

LEMMA ExplainKept ==
  ASSUME Untouched, Entry = {}, OneInv, OpsOnly, ExplainInv, [Next]_vars
  PROVE  ExplainInv'
<1> DEFINE U == Unreverted(journal)
           V == Unreverted(journal')
<1>0. /\ U \subseteq JournalEntry /\ U \subseteq Entries(journal)
      /\ \A e \in U, t \in U : e.seq = t.seq => e = t
      /\ \A e \in U : e.op \in ForwardOps
      /\ facts \in [Name -> Value]
      /\ \A e \in JournalEntry : e.name \in Name
  BY JournalFacts DEF OneInv, TypeInv, TypeOK, JournalEntry
<1>a. Aim /\ Aim' /\ ChainOf(U) /\ Tip
  BY AimKept DEF ExplainInv
\* A mutation that dangles is the newest of its fact, and what dangles of a fact is
\* its newest mutation in force.
<1>b. ASSUME NEW d \in Danglers(journal), d \in U PROVE LatestIn(U, d)
  <2>1. CASE d.flag = "open"
    BY <1>0, <1>b, <2>1, SoleOne, JournalFacts DEF LatestIn
  <2>2. CASE d.flag # "open"
    <3>1. Candidate(journal, d)
      BY <1>b, <2>2, SoleOne
    <3> QED BY <1>0, <3>1 DEF Candidate, LatestIn
  <2> QED BY <2>1, <2>2
<1>c. ASSUME NEW e \in U, LatestIn(U, e), NEW x \in Danglers(journal),
             x.name = e.name, x.op \in ForwardOps
      PROVE  x = e
  <2>1. x \in U
    BY <1>c, SoleOne, JournalFacts
  <2>2. x.seq <= e.seq /\ e.seq <= x.seq /\ x.seq \in Nat /\ e.seq \in Nat
    BY <1>0, <1>b, <1>c, <2>1 DEF LatestIn, JournalEntry
  <2>3. x.seq = e.seq
    BY <2>2
  <2> QED BY <1>0, <2>1, <2>3
<1>d. ASSUME NEW e \in U, LatestIn(U, e),
             e \in Danglers(journal) => \E x \in Danglers(journal') : x.name = e.name,
             \A x \in Danglers(journal) : x.name = e.name => x.op \in ForwardOps,
             \A x \in Danglers(journal') : x.name # e.name
      PROVE  facts[e.name] = e.post
  <2>1. \A x \in Danglers(journal) : x.name # e.name
    BY <1>c, <1>d
  <2> QED BY <1>a, <1>d, <2>1 DEF Tip, U
<1>1. ASSUME NEW d, Lands(d) PROVE ExplainInv'
  <2>1. /\ journal' = journal /\ d \in Danglers(journal)
        /\ \A n \in Name : n # d.name => facts'[n] = facts[n]
    BY <1>0, <1>1 DEF Lands
  <2>2. Tip'
    BY <1>0, <1>a, <2>1 DEF Tip
  <2> QED BY <1>a, <2>1, <2>2 DEF ExplainInv
<1>2. ASSUME NEW d, Commits(d), d.op \in ForwardOps PROVE ExplainInv'
  <2> DEFINE W == (U \ {d}) \cup {Done(d)}
  <2>1. /\ d \in U /\ V = W \cap Entries(journal') /\ facts' = facts
        /\ facts[d.name] = d.post /\ d \in Danglers(journal)
        /\ Danglers(journal') = (Danglers(journal) \ {d}) \cap Entries(journal')
        /\ \A e \in Entries(journal'), f \in (Entries(journal) \ {d}) \cup {Done(d)} :
              e.seq <= f.seq => f \in Entries(journal')
    BY <1>2, AfterCommit DEF Commits
  <2>2. /\ Done(d).seq = d.seq /\ Done(d).name = d.name /\ Done(d).post = d.post
        /\ Done(d) \in JournalEntry
    BY <1>0, <2>1, DoneType
  <2>3. /\ W \subseteq JournalEntry /\ W \subseteq (Entries(journal) \ {d}) \cup {Done(d)}
        /\ V \subseteq W /\ \A e \in V, f \in W : e.seq <= f.seq => f \in V
    BY <1>0, <2>1, <2>2
  <2> HIDE DEF U, V
  <2>4. /\ ChainOf(W)
        /\ \A e \in U \ {d} : LatestIn(W, e) => LatestIn(U, e)
    BY <1>0, <1>a, <2>1, ChainDone
  <2> HIDE DEF W
  <2>5. ChainOf(V) /\ \A e \in V : LatestIn(V, e) => LatestIn(W, e)
    BY <2>3, <2>4, ChainForgets
  <2>6. \A x \in Danglers(journal) : x # d => x.op \in ForwardOps
    <3>1. \A x \in Danglers(journal) : x.op = "rollback" => d = x
      BY <2>1, SoleOne
    <3> QED BY <3>1, SoleOne
  <2>7. ASSUME NEW e \in V, LatestIn(V, e), \A x \in Danglers(journal') : x.name # e.name
        PROVE  facts[e.name] = e.post
    <3>1. CASE e = Done(d)
      BY <2>1, <2>2, <3>1
    <3>2. CASE e # Done(d)
      <4>1. e \in U /\ e # d /\ e \in Entries(journal') /\ LatestIn(U, e)
        BY <2>1, <2>4, <2>5, <2>7, <3>2 DEF W
      <4>2. e \in Danglers(journal) => \E x \in Danglers(journal') : x.name = e.name
        BY <2>1, <4>1
      <4>3. \A x \in Danglers(journal) : x.name = e.name => x.op \in ForwardOps
        BY <1>2, <2>6
      <4> QED BY <1>d, <2>7, <4>1, <4>2, <4>3
    <3> QED BY <3>1, <3>2
  <2> QED BY <1>a, <2>1, <2>5, <2>7 DEF ExplainInv, Tip, V
\* Taking the newest mutation of a fact back leaves the one before it as the newest.
<1>3. ASSUME NEW t \in U, LatestIn(U, t), NEW W \in SUBSET U,
             W = {e \in U : e.seq # t.seq},
             V \subseteq W, \A e \in V, f \in W : e.seq <= f.seq => f \in V,
             facts' = facts, facts[t.name] = t.pre,
             \A x \in Danglers(journal) : x.name # t.name =>
               x.op \in ForwardOps /\ (x \in V => x \in Danglers(journal'))
      PROVE  ExplainInv'
  <2> HIDE DEF U, V
  <2>1. ChainOf(W) /\ \A e \in W : LatestIn(W, e) => IF e.name = t.name THEN e.post = t.pre
                                                     ELSE LatestIn(U, e)
    BY <1>0, <1>a, <1>3, ChainUndone
  <2>2. ChainOf(V) /\ \A e \in V : LatestIn(V, e) => LatestIn(W, e)
    BY <1>0, <1>3, <2>1, ChainForgets
  <2>3. ASSUME NEW e \in V, LatestIn(V, e), \A x \in Danglers(journal') : x.name # e.name
        PROVE  facts[e.name] = e.post
    <3>1. e \in W /\ e \in U /\ LatestIn(W, e)
      BY <1>3, <2>2, <2>3
    <3>2. CASE e.name = t.name
      BY <1>3, <2>1, <3>1, <3>2
    <3>3. CASE e.name # t.name
      <4>1. LatestIn(U, e)
        BY <2>1, <3>1, <3>3
      <4> QED BY <1>3, <1>d, <2>3, <3>1, <3>3, <4>1
    <3> QED BY <3>2, <3>3
  <2> QED BY <1>3, <1>a, <2>2, <2>3 DEF ExplainInv, Tip, V
<1>4. ASSUME NEW d, Commits(d), d.op = "rollback" PROVE ExplainInv'
  <2>1. /\ V = {e \in U : e.seq # d.target} /\ facts' = facts
        /\ facts[d.name] = d.post /\ Danglers(journal') = {} /\ d \in Danglers(journal)
    BY <1>4, AfterCommit DEF Commits
  <2>2. Aims(d) /\ \A x \in Danglers(journal) : x = d
    BY <1>4, <1>a, <2>1, SoleOne DEF Aim
  <2>3. CASE \E t \in U : t.seq = d.target
    <3>1. PICK t \in U : t.seq = d.target
      BY <2>3
    <3>2. t.name = d.name /\ t.pre = d.post /\ LatestIn(U, t)
      BY <1>0, <2>2, <3>1 DEF Aims, LatestIn
    <3> HIDE DEF U, V
    <3>3. \A x \in Danglers(journal) : x.name = t.name
      BY <2>2, <3>2
    <3> QED BY <1>3, <2>1, <3>1, <3>2, <3>3
  <2>4. CASE ~ \E t \in U : t.seq = d.target
    <3>1. V = U /\ \A e \in U : e.name # d.name
      BY <2>1, <2>2, <2>4 DEF Aims
    <3>2. Tip'
      BY <1>a, <2>1, <2>2, <3>1 DEF Tip
    <3> QED BY <1>a, <3>1, <3>2 DEF ExplainInv
  <2> QED BY <2>3, <2>4
<1>5. ASSUME NEW d, NEW r \in JournalEntry, Marks(d, r)
      PROVE  ExplainInv'
  <2>1. /\ V = {e \in U \cap Entries(journal') : e.seq # d.seq}
        /\ Danglers(journal') = {e \in Danglers(journal) \cap Entries(journal') :
                                    e.seq # d.seq}
        /\ facts' = facts /\ facts[d.name] = d.pre
        /\ \A e \in Entries(journal'), f \in Entries(journal) :
             e.seq <= f.seq => f \in Entries(journal')
    BY <1>5, AfterMark DEF Marks
  <2>2. \A x \in Danglers(journal) : x # d => x.op \in ForwardOps
    <3>1. \A x \in Danglers(journal) : x # d => x.flag # "open"
      BY <1>5, AfterMark
    <3> QED BY <3>1, SoleOne
  <2> DEFINE W == {e \in U : e.seq # d.seq}
  <2>3. V \subseteq W /\ \A e \in V, f \in W : e.seq <= f.seq => f \in V
    BY <1>0, <2>1
  <2>4. \A x \in V : x \in Danglers(journal) => x \in Danglers(journal')
    BY <2>1
  <2>5. CASE d \in U
    <3>1. LatestIn(U, d)
      <4>1. CASE d \in Danglers(journal)
        BY <1>b, <2>5, <4>1
      <4>2. CASE d \notin Danglers(journal)
        BY <1>0, <1>5, <2>5, <4>2, JournalFacts DEF Marks, Dropped
      <4> QED BY <4>1, <4>2
    <3> HIDE DEF U, V
    <3> QED BY <1>3, <2>1, <2>2, <2>3, <2>4, <2>5, <3>1
  <2>6. CASE d \notin U
    <3>1. W = U
      BY <1>0, <1>5, <2>6, AfterMark
    <3> HIDE DEF U, V, W
    <3>2. ChainOf(V) /\ \A e \in V : LatestIn(V, e) => LatestIn(U, e)
      BY <1>0, <1>a, <2>3, <3>1, ChainForgets
    <3>3. ASSUME NEW e \in V, LatestIn(V, e), \A x \in Danglers(journal') : x.name # e.name
          PROVE  facts[e.name] = e.post
      <4>1. d \notin Danglers(journal)
        <5>1. d \in Danglers(journal) => d \in U
          BY <1>5, SoleOne, JournalFacts DEF Marks, U
        <5> QED BY <2>6, <5>1
      <4>2. e \in U /\ LatestIn(U, e)
        BY <2>3, <3>1, <3>2, <3>3
      <4> QED BY <1>d, <2>2, <2>4, <3>3, <4>1, <4>2
    <3> QED BY <1>a, <2>1, <3>2, <3>3 DEF ExplainInv, Tip, V
  <2> QED BY <2>5, <2>6
<1>6. ASSUME NEW r \in JournalEntry, Journals(r) PROVE ExplainInv'
  <2> DEFINE W == U \cap Entries(journal')
  <2>1. /\ Danglers(journal) = {} /\ facts[r.name] = r.pre /\ facts' = facts
        /\ Danglers(journal') = {r}
        /\ \A e \in Entries(journal) : e.seq < r.seq
        /\ \A e \in Entries(journal'), f \in Entries(journal) :
             e.seq <= f.seq => f \in Entries(journal')
        /\ r.op \in ForwardOps => V = W \cup {r}
        /\ r.op = "rollback" => V = W
        /\ r.op \in ForwardOps \cup {"rollback"}
    BY <1>6, AfterIntent DEF Journals, JournalEntry
  <2>2. W \subseteq U /\ \A e \in W, f \in U : e.seq <= f.seq => f \in W
    BY <1>0, <2>1
  <2>3. \A e \in W : e.seq < r.seq
    BY <1>0, <2>1
  <2> HIDE DEF U, V, W
  <2>4. ChainOf(W) /\ \A e \in W : LatestIn(W, e) => LatestIn(U, e)
    BY <1>0, <1>a, <2>2, ChainForgets
  <2>5. \A e \in W : LatestIn(W, e) => facts[e.name] = e.post
    BY <1>a, <2>1, <2>2, <2>4 DEF Tip, U
  <2>6. CASE r.op = "rollback"
    <3>1. Tip'
      BY <2>1, <2>5, <2>6 DEF Tip, V
    <3> QED BY <1>a, <2>1, <2>4, <2>6, <3>1 DEF ExplainInv, V
  <2>7. CASE r.op \in ForwardOps
    <3>1. W \subseteq JournalEntry
      BY <1>0, <2>2
    <3>2. \A e \in W : LatestIn(W, e) /\ e.name = r.name => e.post = r.pre
      BY <2>1, <2>5
    <3>3. /\ ChainOf(V)
          /\ \A e \in W : LatestIn(V, e) => LatestIn(W, e) /\ e.name # r.name
      BY <2>1, <2>3, <2>4, <2>7, <3>1, <3>2, ChainGrows
    <3>4. Tip'
      BY <2>1, <2>5, <2>7, <3>3 DEF Tip, V
    <3> QED BY <1>a, <3>3, <3>4 DEF ExplainInv, V
  <2> QED BY <2>1, <2>6, <2>7
<1>7. ASSUME UNCHANGED <<facts, journal>> PROVE ExplainInv'
  BY <1>a, <1>7 DEF ExplainInv, Tip
<1>8. \A n \in Name, v \in Value : ~ Imports(n, v)
  BY DEF Imports
<1>9. \A d \in JournalEntry : d.op \in ForwardOps \cup {"rollback"}
  BY DEF JournalEntry
<1> QED BY <1>1, <1>2, <1>4, <1>5, <1>6, <1>7, <1>8, <1>9, UntouchedShapes

\* The records of the single-phase version.
LEMMA LegacyRecords ==
  ASSUME LegacyInit
  PROVE  /\ \A e \in Entries(journal) : e.op \in ForwardOps /\ e.flag = "none"
                                       /\ e.seq \in 1 .. MaxLegacy
         /\ Reverted(journal) = {} /\ Unreverted(journal) = Entries(journal)
         /\ \A e \in Danglers(journal) : e.op \in ForwardOps /\ e.flag = "none"
         /\ \A e \in Entries(journal) :
              (\A f \in Entries(journal) : f.name = e.name => f.seq <= e.seq)
                => e \in Danglers(journal)
<1>1. /\ journal \in Seq(JournalEntry) /\ Len(journal) <= MaxLegacy
      /\ \A i \in DOMAIN journal :
           /\ journal[i].seq = i /\ journal[i].op \in ForwardOps /\ journal[i].flag = "none"
  BY LegacyJournal DEF LegacyInit, AtRest
<1>2. DOMAIN journal \subseteq 1 .. MaxLegacy
  BY <1>1, LegacyAssumption, ConstAssumption DEF LegacyAssumption, ConstAssumption
<1>3. \A e \in Entries(journal) : e.op \in ForwardOps /\ e.flag = "none"
                                 /\ e.seq \in 1 .. MaxLegacy
  BY <1>1, <1>2 DEF Entries
<1>4. Reverted(journal) = {}
  BY <1>3, Views DEF ForwardOps
<1>5. Unreverted(journal) = Entries(journal)
  BY <1>3, <1>4, Views
<1>6. \A e \in Danglers(journal) : e \in Entries(journal)
  BY Views
<1>7. ASSUME NEW e \in Entries(journal),
             \A f \in Entries(journal) : f.name = e.name => f.seq <= e.seq
      PROVE  e \in Danglers(journal)
  BY <1>3, <1>4, <1>7, Views DEF Candidate
<1> QED BY <1>3, <1>4, <1>5, <1>6, <1>7

\* One record hangs together with nothing.
LEMMA OneRecordChains == LegacyInit /\ MaxLegacy <= 1 => ChainOf(Unreverted(journal))
<1> SUFFICES ASSUME LegacyInit, MaxLegacy <= 1 PROVE ChainOf(Unreverted(journal))
  OBVIOUS
<1>1. \A e \in Unreverted(journal) : e.seq = 1
  BY LegacyRecords, LegacyAssumption, ConstAssumption DEF LegacyAssumption, ConstAssumption
<1> QED BY <1>1 DEF ChainOf

\* The newest mutation of a fact that is neither undone nor dangling left the fact as
\* it is, so undoing it never meets a conflict: in any journal, whatever was
\* undone, crashed or dropped by retention.  It holds of a journal of the single-phase
\* version too, unless a mutation that it lost was followed by another one.
THEOREM Explained ==
  Untouched /\ Entry = {} =>
    (Spec \/ (LegacySpec /\ ChainOf(Unreverted(journal))) => []JournalExplainsFacts)
<1> SUFFICES ASSUME Untouched, Entry = {}
             PROVE  Spec \/ (LegacySpec /\ ChainOf(Unreverted(journal)))
                      => []JournalExplainsFacts
  OBVIOUS
<1>1. Init => ExplainInv
  <2> SUFFICES ASSUME Init PROVE ExplainInv
    OBVIOUS
  <2>1. Entries(journal) = {}
    BY DEF Init, Entries
  <2>2. Danglers(journal) = {} /\ Unreverted(journal) = {}
    BY <2>1 DEF Danglers, Unreverted
  <2> QED BY <2>2 DEF ExplainInv, Aim, Tip, ChainOf
<1>2. LegacyInit /\ ChainOf(Unreverted(journal)) => ExplainInv
  <2> SUFFICES ASSUME LegacyInit, ChainOf(Unreverted(journal)) PROVE ExplainInv
    OBVIOUS
  <2>1. Aim
    BY LegacyRecords DEF Aim, ForwardOps
  <2>2. Tip
    BY LegacyRecords DEF Tip, LatestIn
  <2> QED BY <2>1, <2>2 DEF ExplainInv
<1>3. OneInv /\ OpsOnly /\ ExplainInv /\ [Next]_vars => ExplainInv'
  BY ExplainKept
<1>4. ExplainInv => JournalExplainsFacts
  BY DEF ExplainInv, Tip, JournalExplainsFacts, LatestIn
<1> QED BY <1>1, <1>2, <1>3, <1>4, Oneness, OpsKept, PTL DEF Spec, LegacySpec

-----------------------------------------------------------------------------
(* The store implements FactHistory *)

Mutation(e) == AsMutation(e.seq, e.name, e.pre, e.post)
Mutations(S) == {Mutation(e) : e \in S}

\* The mutation a rollback takes back, as its own record tells it.
Aimed(d) == AsMutation(d.target, d.name, d.post, d.pre)

LandedIn(j, f, e) == ~IsDangling(j, e) \/ f[e.name] = e.post

UndoneIn(j, f) ==
  {e.target : e \in {r \in Entries(j) : r.op = "rollback" /\ LandedIn(j, f, r)}}

\* UndoWindow, of any journal and any facts.
WindowOf(j, f) ==
  Mutations({e \in Entries(j) : e.op \in ForwardOps /\ LandedIn(j, f, e)
                              /\ e.seq \notin UndoneIn(j, f)})
  \cup {Aimed(r) : r \in {x \in Entries(j) : x.op = "rollback" /\ ~LandedIn(j, f, x)}}

LEMMA WindowIsUndo ==
  /\ UndoWindow = WindowOf(journal, facts)
  /\ UndoWindow' = WindowOf(journal', facts')
BY DEF UndoWindow, WindowOf, UndoneIn, UndoneSeqs, LandedIn, Landed, Mutations, Mutation, Aimed

\* What is in force, but for the mutations that have not landed.
InForce(j, f) == {e \in Unreverted(j) : e \in Danglers(j) => f[e.name] = e.post}

\* The window by what dangles: everything in force, but for the mutations that have
\* not landed and for what a rollback that has landed took back.
LEMMA Windows ==
  ASSUME NEW j \in Seq(JournalEntry), Sorted(j), Coherent(j), NEW f
  PROVE  /\ (\A d \in Danglers(j) : d.op \in ForwardOps)
              => WindowOf(j, f) = Mutations(InForce(j, f))
         /\ \A d : Danglers(j) = {d} /\ d.op = "rollback" =>
              /\ f[d.name] # d.post
                   => WindowOf(j, f) = Mutations(Unreverted(j)) \cup {Aimed(d)}
              /\ f[d.name] = d.post
                   => WindowOf(j, f) = Mutations({e \in Unreverted(j) : e.seq # d.target})
<1> DEFINE E == Entries(j)
           U == Unreverted(j)
           D == Danglers(j)
           F == {e \in E : e.op \in ForwardOps /\ LandedIn(j, f, e)
                          /\ e.seq \notin UndoneIn(j, f)}
           R == {x \in E : x.op = "rollback" /\ ~LandedIn(j, f, x)}
<1>1. /\ D = {e \in E : IsDangling(j, e) /\ e.seq \notin Reverted(j)}
      /\ Reverted(j) = {e.target : e \in {x \in E : x.op = "rollback" /\ x.flag # "open"}}
      /\ U = {e \in E : e.op \in ForwardOps /\ e.seq \notin Reverted(j)}
  BY Views DEF Danglers
<1>2. WindowOf(j, f) = Mutations(F) \cup {Aimed(r) : r \in R}
  BY DEF WindowOf
<1>3. "rollback" \notin ForwardOps
  BY DEF ForwardOps
\* An open rollback dangles: only mutations are undone.
<1>4. \A x \in E : x.op = "rollback" => (x.flag = "open" <=> x \in D)
                                      /\ (IsDangling(j, x) <=> x \in D)
  <2> SUFFICES ASSUME NEW x \in E, x.op = "rollback"
               PROVE  (x.flag = "open" <=> x \in D) /\ (IsDangling(j, x) <=> x \in D)
    OBVIOUS
  <2>1. x.seq \notin Reverted(j)
    <3> SUFFICES ASSUME x.seq \in Reverted(j) PROVE FALSE
      OBVIOUS
    <3>1. PICK y \in E : y.op = "rollback" /\ y.target = x.seq
      BY <1>1
    <3> QED BY <1>3, <3>1 DEF Coherent
  <2>2. IsDangling(j, x) <=> x.flag = "open"
    BY <1>3, Dangling DEF Candidate
  <2> QED BY <1>1, <2>1, <2>2
<1>5. UndoneIn(j, f) = Reverted(j) \cup {x.target : x \in {y \in D : y.op = "rollback"
                                                                    /\ f[y.name] = y.post}}
  <2>1. {r \in E : r.op = "rollback" /\ LandedIn(j, f, r)}
          = {x \in E : x.op = "rollback" /\ x.flag # "open"}
            \cup {y \in D : y.op = "rollback" /\ f[y.name] = y.post}
    BY <1>1, <1>4 DEF LandedIn
  <2> HIDE DEF E, D
  <2> QED BY <1>1, <2>1 DEF UndoneIn, E
<1>6. R = {y \in D : y.op = "rollback" /\ f[y.name] # y.post}
  BY <1>1, <1>4 DEF LandedIn
<1>7. F = {e \in U : (e \in D => f[e.name] = e.post) /\ e.seq \notin UndoneIn(j, f)}
  <2>1. Reverted(j) \subseteq UndoneIn(j, f)
    BY <1>5
  <2> QED BY <1>1, <2>1 DEF LandedIn
<1>8. InForce(j, f) = {e \in U : e \in D => f[e.name] = e.post}
  BY DEF InForce
<1> HIDE DEF E, U, D, F, R
<1>9. ASSUME \A d \in D : d.op \in ForwardOps
      PROVE  WindowOf(j, f) = Mutations(InForce(j, f))
  <2>1. R = {} /\ UndoneIn(j, f) = Reverted(j)
    BY <1>3, <1>5, <1>6, <1>9
  <2>2. F = InForce(j, f)
    BY <1>1, <1>7, <1>8, <2>1
  <2> QED BY <1>2, <2>1, <2>2
<1>10. ASSUME NEW d, D = {d}, d.op = "rollback"
       PROVE  /\ R = IF f[d.name] = d.post THEN {} ELSE {d}
              /\ F = IF f[d.name] = d.post THEN {e \in U : e.seq # d.target} ELSE U
  <2>1. UndoneIn(j, f) = IF f[d.name] = d.post THEN Reverted(j) \cup {d.target}
                         ELSE Reverted(j)
    BY <1>5, <1>10
  <2>2. d \notin U
    BY <1>1, <1>3, <1>10
  <2>3. R = IF f[d.name] = d.post THEN {} ELSE {d}
    BY <1>6, <1>10
  <2>4. F = IF f[d.name] = d.post THEN {e \in U : e.seq # d.target} ELSE U
    BY <1>1, <1>7, <1>10, <2>1, <2>2
  <2> QED BY <2>3, <2>4
<1>11. R = {} => WindowOf(j, f) = Mutations(F)
  BY <1>2
<1>12. \A d : R = {d} => WindowOf(j, f) = Mutations(F) \cup {Aimed(d)}
  BY <1>2
<1>13. ASSUME NEW d, D = {d}, d.op = "rollback"
       PROVE  /\ f[d.name] # d.post => WindowOf(j, f) = Mutations(U) \cup {Aimed(d)}
              /\ f[d.name] = d.post => WindowOf(j, f) = Mutations({e \in U : e.seq # d.target})
  BY <1>10, <1>11, <1>12, <1>13
<1> QED BY <1>9, <1>13 DEF U, D

\* What may leave the window without being undone: fact by fact, the oldest.
LEMMA Forgets ==
  ASSUME NEW U \in SUBSET JournalEntry, NEW V \in SUBSET U,
         \A e \in V, f \in U : e.seq <= f.seq => f \in V,
         UndoWindow = Mutations(U), UndoWindow' = Mutations(V), facts' = facts
  PROVE  History!Next
<1>1. Mutations(V) \in SUBSET UndoWindow
  BY DEF Mutations
<1>2. ASSUME NEW e \in Mutations(V), NEW f \in UndoWindow, f.seq > e.seq
      PROVE  f \in Mutations(V)
  <2>1. PICK x \in V : e = Mutation(x)
    BY DEF Mutations
  <2>2. PICK y \in U : f = Mutation(y)
    BY DEF Mutations
  <2>3. x.seq \in Nat /\ y.seq \in Nat /\ y.seq > x.seq
    BY <1>2, <2>1, <2>2 DEF JournalEntry, Mutation, AsMutation
  <2>4. y \in V
    BY <2>3
  <2> QED BY <2>2, <2>4 DEF Mutations
<1>3. History!Forget(Mutations(V))
  BY <1>2 DEF History!Forget
<1> QED BY <1>1, <1>3 DEF History!Next

LEMMA HistoryStep ==
  ASSUME Untouched, OneInv, OneInv', OpsOnly, Aim, [Next]_vars
  PROVE  History!Next \/ UNCHANGED <<facts, UndoWindow>>
<1> DEFINE U == Unreverted(journal)
           V == Unreverted(journal')
<1>0. /\ U \subseteq JournalEntry /\ U \subseteq Entries(journal)
      /\ \A e \in U : e.op \in ForwardOps
      /\ \A e, t \in Entries(journal) : e.seq = t.seq => e = t
      /\ facts \in [Name -> Value]
      /\ V \subseteq JournalEntry
  <2>1. journal' \in Seq(JournalEntry) /\ Sorted(journal')
    BY DEF OneInv, TypeInv, TypeOK
  <2>2. V \subseteq JournalEntry
    BY <2>1, EntriesType DEF Unreverted
  <2> QED BY <2>2, JournalFacts DEF OneInv, TypeInv, TypeOK
<1>1. /\ (\A d \in Danglers(journal) : d.op \in ForwardOps)
           => UndoWindow = Mutations(InForce(journal, facts))
      /\ \A d : Danglers(journal) = {d} /\ d.op = "rollback" =>
              /\ facts[d.name] # d.post => UndoWindow = Mutations(U) \cup {Aimed(d)}
              /\ facts[d.name] = d.post => UndoWindow = Mutations({e \in U : e.seq # d.target})
  <2>1. journal \in Seq(JournalEntry) /\ Sorted(journal) /\ Coherent(journal)
    BY DEF OneInv, TypeInv, TypeOK
  <2>2. UndoWindow = WindowOf(journal, facts)
    BY WindowIsUndo
  <2> HIDE DEF U, V
  <2>3. /\ (\A d \in Danglers(journal) : d.op \in ForwardOps)
             => WindowOf(journal, facts) = Mutations(InForce(journal, facts))
        /\ \A d : Danglers(journal) = {d} /\ d.op = "rollback" =>
              /\ facts[d.name] # d.post
                   => WindowOf(journal, facts) = Mutations(Unreverted(journal)) \cup {Aimed(d)}
              /\ facts[d.name] = d.post
                   => WindowOf(journal, facts)
                        = Mutations({e \in Unreverted(journal) : e.seq # d.target})
    BY <2>1, Windows, Zenon
  <2> QED BY <2>2, <2>3, Zenon DEF U
<1>2. /\ (\A d \in Danglers(journal') : d.op \in ForwardOps)
           => UndoWindow' = Mutations(InForce(journal', facts'))
      /\ \A d : Danglers(journal') = {d} /\ d.op = "rollback" =>
              /\ facts'[d.name] # d.post => UndoWindow' = Mutations(V) \cup {Aimed(d)}
              /\ facts'[d.name] = d.post
                   => UndoWindow' = Mutations({e \in V : e.seq # d.target})
  <2>1. journal' \in Seq(JournalEntry) /\ Sorted(journal') /\ Coherent(journal')
    BY DEF OneInv, TypeInv, TypeOK
  <2> QED BY <2>1, Windows, WindowIsUndo
<1>3. ASSUME NEW d \in Danglers(journal), d.flag = "open"
      PROVE  /\ Danglers(journal) = {d} /\ d \in Entries(journal)
             /\ d.pre # d.post /\ d.name \in Name /\ d \in JournalEntry
             /\ d.op \in ForwardOps => /\ d \in U /\ d.seq \in 1 .. MaxSeq
                                       /\ \A e \in U \ {d} : e.seq < d.seq
             /\ d.op = "rollback" => d.restore = d.post
             /\ d.op \in ForwardOps \cup {"rollback"}
  <2>1. /\ Danglers(journal) = {d} /\ d \in Entries(journal) /\ d.seq = LastSeq(journal)
        /\ d.name \in Name /\ d \in JournalEntry /\ d.seq \notin Reverted(journal)
        /\ d.op \in ForwardOps \cup {"rollback"}
    BY <1>3, SoleOne
  <2>2. /\ d.pre # d.post
        /\ d.op = "rollback" => d.restore = d.post
        /\ d.op \in ForwardOps => d.seq \in 1 .. MaxSeq
    BY <1>3, <2>1, JournalFacts DEF Coherent
  <2>3. d.op \in ForwardOps => d \in U
    BY <2>1, JournalFacts
  <2>4. ASSUME NEW e \in U, e # d PROVE e.seq < d.seq
    <3>1. e.seq <= LastSeq(journal) /\ d.seq = LastSeq(journal)
      BY <1>0, <2>1, JournalFacts
    <3>2. e.seq # d.seq /\ e.seq \in Nat /\ d.seq \in Nat
      BY <1>0, <2>1, <2>4, JournalFacts
    <3> QED BY <3>1, <3>2
  <2> QED BY <2>1, <2>2, <2>3, <2>4
<1>4. ASSUME NEW d, Lands(d), d.op \in ForwardOps PROVE History!Next
  <2>0. d \in Danglers(journal) /\ d.flag = "open"
    BY <1>4 DEF Lands
  <2>1. /\ facts[d.name] = d.pre /\ facts' = [facts EXCEPT ![d.name] = d.post]
        /\ journal' = journal /\ facts'[d.name] = d.post
    BY <1>0, <1>3, <1>4, <2>0 DEF Lands
  <2>2. UndoWindow = Mutations(U \ {d}) /\ UndoWindow' = Mutations(U)
    <3>1. Danglers(journal) = {d} /\ d.pre # d.post /\ d \in U
      BY <1>3, <1>4, <2>0
    <3>2. InForce(journal, facts) = U \ {d} /\ InForce(journal', facts') = U
      BY <2>1, <3>1 DEF InForce
    <3>3. /\ \A x \in Danglers(journal) : x.op \in ForwardOps
          /\ \A x \in Danglers(journal') : x.op \in ForwardOps
      BY <1>4, <2>1, <3>1
    <3> HIDE DEF U, V
    <3> QED BY <1>1, <1>2, <3>2, <3>3
  <2>3. d \in U /\ d.seq \in 1 .. MaxSeq /\ d.post \in Value
    BY <1>3, <1>4, <2>0 DEF JournalEntry
  <2>4. \A e \in UndoWindow : e.seq < d.seq
    BY <1>3, <1>4, <2>0, <2>2 DEF Mutations, Mutation, AsMutation
  <2> HIDE DEF U
  <2>5. UndoWindow' = UndoWindow \cup {Mutation(d)}
    BY <2>2, <2>3 DEF Mutations
  <2>6. Mutation(d) = [seq |-> d.seq, name |-> d.name, pre |-> facts[d.name], post |-> d.post]
    BY <2>1 DEF Mutation, AsMutation
  <2>7. d.post # facts[d.name] /\ d.name \in Name
    BY <1>3, <2>0, <2>1
  <2>8. History!Mutate(d.name, d.post)
    BY <2>1, <2>3, <2>4, <2>5, <2>6, <2>7 DEF History!Mutate
  <2> QED BY <2>3, <2>7, <2>8 DEF History!Next
<1>5. ASSUME NEW d, Lands(d), d.op = "rollback" PROVE History!Next
  <2>0. d \in Danglers(journal) /\ d.flag = "open"
    BY <1>5 DEF Lands
  <2>1. /\ facts[d.name] = d.pre /\ facts' = [facts EXCEPT ![d.name] = d.post]
        /\ journal' = journal /\ facts'[d.name] = d.post
    BY <1>0, <1>3, <1>5, <2>0 DEF Lands
  <2>2. /\ UndoWindow = Mutations(U) \cup {Aimed(d)}
        /\ UndoWindow' = Mutations({e \in U : e.seq # d.target})
    <3>1. Danglers(journal) = {d} /\ facts[d.name] # d.post
      BY <1>3, <2>0, <2>1
    <3>2. Danglers(journal') = {d} /\ V = U
      BY <2>1, <3>1
    <3> HIDE DEF U, V
    <3>3. UndoWindow = Mutations(U) \cup {Aimed(d)}
      BY <1>1, <1>5, <3>1
    <3>4. UndoWindow' = Mutations({e \in U : e.seq # d.target})
      BY <1>2, <1>5, <2>1, <3>2
    <3> QED BY <3>3, <3>4
  <2>3. /\ Aimed(d).seq = d.target /\ Aimed(d).name = d.name
        /\ Aimed(d).pre = d.post /\ Aimed(d).post = d.pre
    BY <1>3, <1>5, <2>0 DEF Aimed, AsMutation
  <2>4. Aims(d)
    BY <1>5, <2>0 DEF Aim
  <2>5. ASSUME NEW e \in U
        PROVE  /\ Mutation(e).seq = e.seq /\ Mutation(e).name = e.name
               /\ e.seq = d.target => Mutation(e) = Aimed(d)
    <3>1. e.seq = d.target => e.name = d.name /\ e.pre = d.post /\ e.post = d.pre
      BY <1>0, <2>4 DEF Aims
    <3> QED BY <1>3, <1>5, <2>0, <3>1 DEF Mutation, Aimed, AsMutation
  <2>6. \A e \in U : Mutation(e) = Aimed(d) <=> e.seq = d.target
    BY <2>3, <2>5
  <2>7. d.target \in Nat
    BY <1>3, <2>0 DEF JournalEntry
  <2>8. \A m \in UndoWindow : m.name = d.name => m.seq <= d.target
    <3>1. \A e \in U : e.name = d.name => e.seq <= d.target
      BY <2>4 DEF Aims
    <3> QED BY <2>2, <2>3, <2>5, <2>7, <3>1 DEF Mutations
  <2> HIDE DEF U
  <2>9. UndoWindow' = UndoWindow \ {Aimed(d)}
    BY <2>2, <2>6 DEF Mutations
  <2>10. History!Undo(Aimed(d))
    BY <2>1, <2>3, <2>8, <2>9 DEF History!Undo, History!IsLatest
  <2> QED BY <2>2, <2>10 DEF History!Next
<1>6. ASSUME NEW d, Commits(d), d.op = "rollback" PROVE UNCHANGED <<facts, UndoWindow>>
  <2>1. /\ facts' = facts /\ facts[d.name] = d.post /\ d \in Danglers(journal)
        /\ Danglers(journal') = {} /\ V = {e \in U : e.seq # d.target}
    BY <1>6, AfterCommit DEF Commits
  <2>2. Danglers(journal) = {d}
    BY <1>6, <2>1, SoleOne
  <2>3. InForce(journal', facts') = V
    BY <2>1 DEF InForce
  <2>4. UndoWindow = Mutations({e \in U : e.seq # d.target}) /\ UndoWindow' = Mutations(V)
    <3>1. \A x \in Danglers(journal') : x.op \in ForwardOps
      BY <2>1
    <3> HIDE DEF U, V
    <3> QED BY <1>1, <1>2, <1>6, <2>1, <2>2, <2>3, <3>1
  <2> QED BY <2>1, <2>4
\* A mutation of the single-phase version may leave the window of others behind.
<1>7. ASSUME NEW d, Commits(d), d.op \in ForwardOps PROVE History!Next
  <2> DEFINE A == InForce(journal, facts)
             B == InForce(journal', facts')
             K == {e \in A : e \in Entries(journal') \/ (e = d /\ Done(d) \in Entries(journal'))}
  <2>1. /\ facts' = facts /\ facts[d.name] = d.post /\ d \in Danglers(journal) /\ d \in U
        /\ V = ((U \ {d}) \cup {Done(d)}) \cap Entries(journal')
        /\ Danglers(journal') = (Danglers(journal) \ {d}) \cap Entries(journal')
        /\ Entries(journal') \subseteq (Entries(journal) \ {d}) \cup {Done(d)}
        /\ \A e \in Entries(journal'), f \in (Entries(journal) \ {d}) \cup {Done(d)} :
              e.seq <= f.seq => f \in Entries(journal')
    BY <1>7, AfterCommit DEF Commits
  <2>2. /\ Done(d).seq = d.seq /\ Mutation(Done(d)) = Mutation(d) /\ d.flag # "done"
        /\ Done(d).flag = "done"
    BY <1>0, <2>1, SoleOne, DoneType DEF Mutation, AsMutation
  <2>3. \A x \in Danglers(journal) : x.op \in ForwardOps /\ x.flag # "done"
    BY <1>7, <2>1, SoleOne
  <2>4. Done(d) \notin Danglers(journal) /\ Done(d) # d
    BY <2>2, <2>3
  <2>5. UndoWindow = Mutations(A) /\ UndoWindow' = Mutations(B)
    <3>1. \A x \in Danglers(journal') : x.op \in ForwardOps
      BY <2>1, <2>3
    <3> HIDE DEF U, V, A, B
    <3> QED BY <1>1, <1>2, <2>3, <3>1 DEF A, B
  <2>6. A = {e \in U : e \in Danglers(journal) => facts[e.name] = e.post} /\ d \in A
    BY <2>1 DEF InForce
  <2>7. B = {e \in V : e \in Danglers(journal') => facts[e.name] = e.post}
    BY <2>1 DEF InForce
  <2> HIDE DEF U, V, A, B
  <2>8. B = ((A \ {d}) \cup {Done(d)}) \cap Entries(journal')
    BY <2>1, <2>4, <2>6, <2>7
  <2>9. Mutations(B) = Mutations(K)
    <3>1. d \notin Entries(journal')
      BY <2>1, <2>4
    <3>2. ASSUME NEW e \in B PROVE \E k \in K : Mutation(e) = Mutation(k)
      BY <2>2, <2>6, <2>8
    <3>3. ASSUME NEW k \in K PROVE \E e \in B : Mutation(e) = Mutation(k)
      BY <2>2, <2>6, <2>8, <3>1
    <3> HIDE DEF K
    <3> QED BY <3>2, <3>3 DEF Mutations
  <2>10. ASSUME NEW e \in K, NEW f \in A, e.seq <= f.seq PROVE f \in K
    <3>1. PICK x \in Entries(journal') : x.seq = e.seq
      BY <2>2
    <3>2. CASE f = d
      BY <2>1, <2>2, <2>10, <3>1, <3>2
    <3>3. CASE f # d
      BY <1>0, <2>1, <2>6, <2>10, <3>1, <3>3
    <3> QED BY <3>2, <3>3
  <2>11. A \in SUBSET JournalEntry /\ K \in SUBSET A
    BY <1>0, <2>6
  <2> HIDE DEF K
  <2> QED BY <2>1, <2>5, <2>9, <2>10, <2>11, Forgets
<1>12. ASSUME NEW d, NEW r \in JournalEntry, Marks(d, r) PROVE History!Next
  <2> DEFINE A == InForce(journal, facts)
             B == InForce(journal', facts')
  <2>1. /\ facts' = facts /\ facts[d.name] = d.pre /\ d.op \in ForwardOps
        /\ Danglers(journal') = {e \in Danglers(journal) \cap Entries(journal') :
                                    e.seq # d.seq}
        /\ V = {e \in U \cap Entries(journal') : e.seq # d.seq}
        /\ \A e \in Entries(journal'), f \in Entries(journal) :
             e.seq <= f.seq => f \in Entries(journal')
        /\ \A x \in Danglers(journal) : x # d => x.flag # "open"
        /\ d \in U \/ \A e \in Entries(journal) : e.seq # d.seq
    BY <1>12, AfterMark DEF Marks
  <2>2. \A x \in Danglers(journal) : x.op \in ForwardOps
    BY <2>1, SoleOne
  <2>3. UndoWindow = Mutations(A) /\ UndoWindow' = Mutations(B)
    <3>1. \A x \in Danglers(journal') : x.op \in ForwardOps
      BY <2>1, <2>2
    <3> HIDE DEF U, V, A, B
    <3> QED BY <1>1, <1>2, <2>2, <3>1 DEF A, B
  <2>4. A = {e \in U : e \in Danglers(journal) => facts[e.name] = e.post}
    BY DEF InForce
  <2>5. B = {e \in V : e \in Danglers(journal') => facts[e.name] = e.post}
    BY <2>1 DEF InForce
  \* The mutation that never landed was not in the window.
  <2>6. \A e \in A : e.seq # d.seq
    <3>1. CASE d \in Danglers(journal)
      <4>1. d.pre # d.post /\ d \in Entries(journal)
        BY <2>1, <3>1, SoleOne, JournalFacts DEF Coherent
      <4>2. d \notin A
        BY <2>1, <2>4, <3>1, <4>1
      <4> QED BY <1>0, <2>4, <4>1, <4>2
    <3>2. CASE Dropped(d)
      <4>1. d.seq \in Nat /\ \A e \in Entries(journal) : d.seq < e.seq /\ e.seq \in Nat
        BY <3>2, JournalFacts DEF Dropped, JournalEntry
      <4> QED BY <1>0, <2>4, <4>1
    <3> QED BY <1>12, <3>1, <3>2 DEF Marks
  <2> HIDE DEF A, B
  <2>7. B = A \cap Entries(journal')
    BY <2>1, <2>4, <2>5, <2>6
  <2>8. B \subseteq A /\ \A e \in B, f \in A : e.seq <= f.seq => f \in B
    BY <1>0, <2>1, <2>4, <2>7
  <2>9. A \in SUBSET JournalEntry
    BY <1>0, <2>4
  <2> HIDE DEF U, V
  <2> QED BY <2>1, <2>3, <2>8, <2>9, Forgets
<1>8. ASSUME NEW r \in JournalEntry, Journals(r) PROVE History!Next
  <2> DEFINE W == U \cap Entries(journal')
  <2>1. /\ Danglers(journal) = {} /\ facts[r.name] = r.pre /\ facts' = facts /\ r.pre # r.post
        /\ Danglers(journal') = {r} /\ r \notin U
        /\ \A e \in Entries(journal'), f \in Entries(journal) :
             e.seq <= f.seq => f \in Entries(journal')
        /\ r.op \in ForwardOps => V = W \cup {r}
        /\ r.op = "rollback" => V = W
        /\ r.op \in ForwardOps \cup {"rollback"}
    BY <1>0, <1>8, AfterIntent DEF Journals, Chosen, JournalEntry
  <2>2. W \subseteq U /\ \A e \in W, f \in U : e.seq <= f.seq => f \in W
    BY <1>0, <2>1
  <2>3. UndoWindow = Mutations(U)
    <3>1. InForce(journal, facts) = U /\ \A x \in Danglers(journal) : x.op \in ForwardOps
      BY <2>1 DEF InForce
    <3> HIDE DEF U, V, W
    <3> QED BY <1>1, <3>1
  <2>4. CASE r.op \in ForwardOps
    <3>1. V \ {r} = W
      BY <2>1, <2>4
    <3>2. UndoWindow' = Mutations(W)
      <4>1. InForce(journal', facts') = V \ {r}
        BY <2>1 DEF InForce
      <4>2. \A x \in Danglers(journal') : x.op \in ForwardOps
        BY <2>1, <2>4
      <4> HIDE DEF U, V, W
      <4> QED BY <1>2, <3>1, <4>1, <4>2
    <3> HIDE DEF U, V, W
    <3> QED BY <1>0, <2>1, <2>2, <2>3, <3>2, Forgets
  <2>5. CASE r.op = "rollback"
    <3>1. UndoWindow' = Mutations(W) \cup {Aimed(r)}
      <4>1. facts'[r.name] # r.post /\ V = W
        BY <2>1, <2>5
      <4> HIDE DEF U, V, W
      <4> QED BY <1>2, <2>1, <2>5, <4>1
    <3>2. PICK t \in U :
            /\ t.seq = r.target /\ t.name = r.name /\ t.pre = r.post /\ t.post = r.pre
            /\ r.restore = r.post
            /\ \A f \in U : f.name = t.name => f.seq <= t.seq
      BY <1>8, <2>5 DEF Journals, Chosen, Undoes
    <3>3. Aimed(r) = Mutation(t)
      BY <3>2 DEF Aimed, Mutation, AsMutation
    <3> DEFINE K == Mutations(W) \cup {Aimed(r)}
    <3>4. \A e \in U : /\ Mutation(e).seq = e.seq /\ Mutation(e).name = e.name /\ e.seq \in Nat
      BY <1>0 DEF Mutation, AsMutation, JournalEntry
    <3> HIDE DEF U, V, W
    <3>5. K \in SUBSET UndoWindow
      BY <2>2, <2>3, <3>2, <3>3 DEF Mutations
    <3>6. ASSUME NEW e \in K, NEW f \in UndoWindow, f.name = e.name, f.seq > e.seq
          PROVE  f \in K
      <4>1. PICK y \in U : f = Mutation(y)
        BY <2>3 DEF Mutations
      <4>2. CASE e = Aimed(r)
        <5>1. y.name = t.name /\ y.seq > t.seq
          BY <3>2, <3>3, <3>4, <3>6, <4>1, <4>2
        <5>2. y.seq <= t.seq
          BY <3>2, <5>1
        <5> QED BY <3>2, <3>4, <5>1, <5>2
      <4>3. CASE e \in Mutations(W)
        <5>1. PICK x \in W : e = Mutation(x)
          BY <4>3 DEF Mutations
        <5>2. x \in U /\ x.seq <= y.seq
          BY <2>2, <3>4, <3>6, <4>1, <5>1
        <5>3. y \in W
          BY <2>2, <5>1, <5>2
        <5> QED BY <4>1, <5>3 DEF Mutations
      <4> QED BY <4>2, <4>3
    <3> HIDE DEF K
    <3>7. History!Forget(K)
      BY <2>1, <3>1, <3>6 DEF History!Forget, K
    <3> QED BY <3>5, <3>7 DEF History!Next
  <2> QED BY <2>1, <2>4, <2>5
<1>9. ASSUME NEW n \in Name, NEW v \in Value, Imports(n, v), Danglers(journal) = {}
      PROVE  History!Next
  <2>1. facts[n] = Absent /\ facts' = [facts EXCEPT ![n] = v] /\ journal' = journal
    BY <1>9 DEF Imports
  <2>2. UndoWindow' = UndoWindow
    <3>1. InForce(journal, facts) = U /\ InForce(journal', facts') = U
      BY <1>9, <2>1 DEF InForce
    <3>2. /\ \A x \in Danglers(journal) : x.op \in ForwardOps
          /\ \A x \in Danglers(journal') : x.op \in ForwardOps
      BY <1>9, <2>1
    <3> HIDE DEF U, V
    <3> QED BY <1>1, <1>2, <3>1, <3>2
  <2>3. History!Import(n, v)
    BY <2>1, <2>2 DEF History!Import
  <2> QED BY <2>3 DEF History!Next
<1>10. ASSUME UNCHANGED <<facts, journal>> PROVE UNCHANGED <<facts, UndoWindow>>
  <2>1. UndoWindow' = UndoWindow
    BY <1>10, WindowIsUndo
  <2> QED BY <1>10, <2>1
<1>11. \A d \in JournalEntry : d.op \in ForwardOps \/ d.op = "rollback"
  BY DEF JournalEntry
<1> QED BY <1>4, <1>5, <1>6, <1>7, <1>8, <1>9, <1>10, <1>11, <1>12, UntouchedShapes

\* Every behaviour of the store, crashes, retries and retention included, is one of a
\* store whose mutations and undos are atomic: a mutation happens when its fact file
\* is replaced, a rollback when it restores the one before.
THEOREM Implements == Untouched => (Spec \/ LegacySpec => ImplementsHistory)
<1> SUFFICES ASSUME Untouched PROVE Spec \/ LegacySpec => ImplementsHistory
  OBVIOUS
<1>1. Init => Aim /\ History!Init
  <2> SUFFICES ASSUME Init PROVE Aim /\ History!Init
    OBVIOUS
  <2>1. Entries(journal) = {}
    BY DEF Init, Entries
  <2>2. Danglers(journal) = {} /\ UndoWindow = {}
    BY <2>1 DEF Danglers, UndoWindow
  <2> QED BY <2>2 DEF Aim, Init, History!Init
<1>2. LegacyInit => Aim /\ (journal = <<>> => History!Init)
  <2> SUFFICES ASSUME LegacyInit PROVE Aim /\ (journal = <<>> => History!Init)
    OBVIOUS
  <2>1. Aim
    BY LegacyRecords DEF Aim, ForwardOps
  <2>2. ASSUME journal = <<>> PROVE History!Init
    <3>1. Entries(journal) = {} /\ DOMAIN journal = {}
      BY <2>2 DEF Entries
    <3>2. UndoWindow = {}
      BY <3>1 DEF UndoWindow
    <3>3. facts \in [Name -> Value] /\ \A n \in Name : facts[n] = Absent
      BY <3>1 DEF LegacyInit, AtRest
    <3>4. facts = [n \in Name |-> Absent]
      BY <3>3
    <3> QED BY <3>2, <3>4 DEF History!Init
  <2> QED BY <2>1, <2>2
<1>3. OneInv /\ OpsOnly /\ Aim /\ [Next]_vars => Aim'
  BY AimKept
<1>4. OneInv /\ OneInv' /\ OpsOnly /\ Aim /\ [Next]_vars
        => [History!Next]_<<facts, UndoWindow>>
  BY HistoryStep
<1> QED BY <1>1, <1>2, <1>3, <1>4, Oneness, OpsKept, PTL DEF Spec, LegacySpec, ImplementsHistory

-----------------------------------------------------------------------------
(* A migration that is over has imported every entry, and none twice *)

\* Nothing is rolled back and nobody edits a fact by hand.
ForwardOnly == ~EditsUnderLock /\ MaxEdits = 0 /\ Ops \cap RollbackOps = {}

OneSource ==
  \A m, n \in Present : facts[m].src = facts[n].src /\ facts[m].src # NoEntry => m = n

NoUndoOpen == \A e \in Entries(journal) : e.op = "rollback" => e.flag # "open"

\* A mutation never says of a fact that it stems from another entry than before.
KeepsSource(r) ==
  r.post # Absent =>
    \/ r.post.src = NoEntry
    \/ r.pre # Absent /\ r.post.src = r.pre.src

AllThere ==
  \A e \in Entry : NoFreeName(Slug[e]) \/ \E n \in Present : facts[n].src = e

HolderMigrates(p) ==
  /\ pc[p] \in {"intent", "apply"} => work.intent.op \in ForwardOps /\ KeepsSource(work.intent)
  /\ pc[p] = "unsentinel" \/ (pc[p] \in {"render", "publish"} /\ InMigration(p)) => AllThere

MigrateInv ==
  /\ OneSource
  /\ NoUndoOpen
  /\ \A p \in Proc : pc[p] \in LockedAt => HolderMigrates(p)

LEMMA ReleaseKeepsMigrate ==
  ASSUME OneInv, NEW p \in Proc, pc[p] \in LockedAt, Release(p), OneSource', NoUndoOpen'
  PROVE  MigrateInv'
BY MoveOut DEF OneInv, TypeInv, MigrateInv

LEMMA HolderKeepsMigrate ==
  ASSUME OneInv, NEW p \in Proc, pc[p] \in LockedAt, NEW to \in LockedAt,
         pc' = [pc EXCEPT ![p] = to], lock' = lock, op' = op,
         OneSource', NoUndoOpen', pc'[p] = to => HolderMigrates(p)'
  PROVE  MigrateInv'
<1>1. TypeOK
  BY DEF OneInv, TypeInv
<1> QED BY <1>1, MoveLocked DEF MigrateInv

LEMMA FreeKeepsMigrate ==
  ASSUME OneInv, MigrateInv, NEW p \in Proc, pc[p] \in FreeAt, NEW to \in FreeAt,
         NEW o \in AllOps \cup {"none"},
         pc' = [pc EXCEPT ![p] = to], op' = [op EXCEPT ![p] = o],
         UNCHANGED <<disk, lock, work, edits>>
  PROVE  MigrateInv'
<1>1. TypeOK
  BY DEF OneInv, TypeInv
<1>2. OneSource' /\ NoUndoOpen' /\ work' = work /\ (AllThere => AllThere')
  BY DEF MigrateInv, disk, OneSource, NoUndoOpen, AllThere, NoFreeName, Present
<1>3. ASSUME NEW q \in Proc, pc'[q] \in LockedAt PROVE HolderMigrates(q)'
  <2>1. pc'[q] = pc[q] /\ q # p
    BY <1>1, <1>3, MoveFree DEF FreeAt, LockedAt, TypeOK
  <2>2. HolderMigrates(q)
    BY <1>3, <2>1 DEF MigrateInv
  <2>3. op'[q] = op[q]
    BY <1>1, <2>1 DEF TypeOK
  <2> QED BY <1>2, <2>1, <2>2, <2>3 DEF HolderMigrates, InMigration
<1> QED BY <1>2, <1>3 DEF MigrateInv

LEMMA MarkedKeepsNoUndo ==
  ASSUME OneInv, NoUndoOpen, NEW d, d \in Danglers(journal) \/ Dropped(d), MarkCommitted(d.seq)
  PROVE  NoUndoOpen'
<1>1. CASE d \in Danglers(journal)
  <2> DEFINE a == Flipped(journal, d.seq)
  <2>1. journal' = a \/ journal' \in Truncated(a)
    BY <1>1, Committing
  <2>2. d \in Entries(journal) /\ d \in JournalEntry /\ d.flag # "done"
    BY <1>1, SoleOne
  <2>3. /\ a \in Seq(JournalEntry) /\ Sorted(a)
        /\ Entries(a) = (Entries(journal) \ {d}) \cup {Done(d)}
    BY <2>2, JournalFacts, Flipping
  <2> HIDE DEF a
  <2>4. Entries(journal') \subseteq (Entries(journal) \ {d}) \cup {Done(d)}
    BY <2>1, <2>3, TruncatedSuffix DEF Suffix
  <2>5. Done(d).flag = "done"
    BY <2>2, DoneType
  <2> QED BY <2>4, <2>5 DEF NoUndoOpen
<1>2. CASE Dropped(d)
  BY <1>2, CommittingDropped DEF NoUndoOpen
<1> QED BY <1>1, <1>2

LEMMA AppendedKeepsNoUndo ==
  ASSUME OneInv, NoUndoOpen, NEW r \in JournalEntry, r.seq = LastSeq(journal) + 1,
         r.op = "rollback" => r.flag # "open",
         journal' \in Truncated(Append(journal, r))
  PROVE  NoUndoOpen'
<1>1. journal \in Seq(JournalEntry) /\ Sorted(journal)
  BY DEF OneInv, TypeInv, TypeOK
<1>2. Append(journal, r) \in Seq(JournalEntry) /\ Sorted(Append(journal, r))
  BY <1>1, AppendSorted
<1>3. Entries(journal') \subseteq Entries(journal) \cup {r}
  <2>1. Suffix(journal', Append(journal, r))
    BY <1>2, TruncatedSuffix
  <2> QED BY <1>1, <2>1, AppendEntries DEF Suffix
<1> QED BY <1>3 DEF NoUndoOpen

LEMMA RecoverKeepsMigrate ==
  ASSUME ForwardOnly, OneInv, OpsOnly, MigrateInv, NEW p \in Proc, RecoverStep(p)
  PROVE  MigrateInv'
<1> USE DEF GoTo
<1>0. {"recover", "marker", "redo", "recommit", "auto", "choose", "render"} \subseteq LockedAt
  BY DEF LockedAt
<1>1. OneSource /\ NoUndoOpen /\ TypeOK /\ Sorted(journal)
  BY DEF MigrateInv, OneInv, TypeInv
<1>2. pc[p] \in LockedAt => HolderOne(p)
  BY DEF OneInv
<1>3. facts' = facts => OneSource'
  BY <1>1 DEF OneSource, Present
<1>4. journal' = journal => NoUndoOpen'
  BY <1>1 DEF NoUndoOpen
<1>5. ASSUME NEW e \in work.todo, pc[p] \in Recovering
      PROVE  e \in Danglers(journal) \/ Dropped(e)
  BY <1>0, <1>2, <1>5 DEF HolderOne, Recovering
<1>6. ASSUME NEW e \in work.todo, RollForward(p, e) \/ RedoCommit(p, e) PROVE MigrateInv'
  <2>1. /\ pc[p] \in Recovering /\ MarkCommitted(e.seq) /\ facts' = facts
        /\ pc' = [pc EXCEPT ![p] = "recover"] /\ lock' = lock /\ op' = op
    BY <1>1, <1>6 DEF RollForward, RedoCommit, Recovering, TypeOK
  <2>2. NoUndoOpen'
    BY <1>1, <1>5, <2>1, MarkedKeepsNoUndo
  <2>3. pc'[p] = "recover" => HolderMigrates(p)'
    BY DEF HolderMigrates
  <2> QED BY <1>0, <1>3, <2>1, <2>2, <2>3, HolderKeepsMigrate DEF Recovering
<1>7. ASSUME NEW e \in work.todo, WriteMarker(p, e) PROVE MigrateInv'
  <2> DEFINE r == Record("rollback", e.name, facts[e.name], facts[e.name], e.seq, "done",
                         NoRestore)
  <2>1. e \in JournalEntry
    BY <1>5, <1>7, SoleOne DEF WriteMarker, Recovering, Dropped
  <2>2. e.name \in Name /\ e.seq \in Nat /\ facts[e.name] \in Value
    BY <1>1, <2>1 DEF JournalEntry, TypeOK
  <2>3. r \in JournalEntry /\ r.seq = LastSeq(journal) + 1
    BY <1>1, <2>2, RecordType DEF Flag
  <2>4. r.flag = "done"
    BY DEF Record
  <2>5. journal' \in Truncated(Append(journal, r)) /\ facts' = facts
    BY <1>7 DEF WriteMarker
  <2> HIDE DEF r
  <2>6. NoUndoOpen'
    BY <1>1, <2>3, <2>4, <2>5, AppendedKeepsNoUndo
  <2>7. pc'[p] = "recover" => HolderMigrates(p)'
    BY DEF HolderMigrates
  <2> QED BY <1>0, <1>3, <1>7, <2>5, <2>6, <2>7, HolderKeepsMigrate DEF WriteMarker
\* No rollback is open, so none is redone.
<1>8. ASSUME NEW e \in work.todo, RedoFact(p, e) PROVE FALSE
  <2>1. pc[p] = "redo" /\ pc[p] \in Recovering /\ Oldest(e)
    BY <1>8 DEF RedoFact, Recovering
  <2>2. e.op = "rollback" /\ "rollback" \notin ForwardOps
    BY <1>0, <1>2, <2>1 DEF HolderOne, ForwardOps
  <2>3. e \in Entries(journal) /\ e.flag = "open"
    BY <1>5, <2>1, <2>2, SoleOne DEF Dropped
  <2> QED BY <1>1, <2>2, <2>3 DEF NoUndoOpen
<1>9. ASSUME NEW e \in work.todo, RollBack(p, e) \/ Redo(p, e) \/ GiveUp(p, e) PROVE MigrateInv'
  <2>1. PICK to \in {"recover", "marker", "redo"} :
          /\ pc[p] = "recover" /\ pc' = [pc EXCEPT ![p] = to]
          /\ lock' = lock /\ op' = op /\ facts' = facts /\ journal' = journal
    BY <1>1, <1>9 DEF RollBack, Redo, GiveUp, disk, TypeOK
  <2>2. pc'[p] = to => HolderMigrates(p)'
    BY DEF HolderMigrates
  <2> QED BY <1>0, <1>3, <1>4, <2>1, <2>2, HolderKeepsMigrate
<1>10. CASE Proceed(p)
  <2>1. PICK to \in {"auto", "choose"} : pc[p] = "recover" /\ pc' = [pc EXCEPT ![p] = to]
    BY <1>10 DEF Proceed, Recovered
  <2>2. pc'[p] = to => HolderMigrates(p)'
    BY DEF HolderMigrates
  <2> QED BY <1>0, <1>3, <1>4, <1>10, <2>1, <2>2, HolderKeepsMigrate DEF Proceed, disk
<1>11. CASE Republish(p)
  <2>1. /\ pc[p] = "recover" /\ pc' = [pc EXCEPT ![p] = "render"] /\ op' = op
        /\ op[p] \in {"read", "recover"}
    BY <1>11 DEF Republish, Recovered
  <2>2. pc'[p] = "render" => HolderMigrates(p)'
    BY <2>1 DEF HolderMigrates, InMigration
  <2> QED BY <1>0, <1>3, <1>4, <1>11, <2>1, <2>2, HolderKeepsMigrate DEF Republish, disk
<1>12. CASE FailClosed(p) \/ NothingToRecover(p)
  BY <1>0, <1>3, <1>4, <1>12, ReleaseKeepsMigrate
     DEF FailClosed, NothingToRecover, Recovered, disk
<1> QED BY <1>6, <1>7, <1>8, <1>9, <1>10, <1>11, <1>12 DEF RecoverStep

LEMMA ChoicesKeepSource ==
  ASSUME ForwardOnly, OneInv, OpsOnly, NEW p \in Proc,
         ChooseWrite(p) \/ ChoosePromote(p) \/ ChooseDelete(p) \/ ChooseRollback(p)
  PROVE  work'.intent.op \in ForwardOps /\ KeepsSource(work'.intent)
<1>1. TypeOK /\ work \in Work /\ facts \in [Name -> Value]
  BY DEF OneInv, TypeInv, TypeOK
<1>2. ASSUME NEW r, Choose(p, r) PROVE work'.intent = r
  BY <1>1, <1>2 DEF Choose, Work
<1>3. CASE ChooseWrite(p)
  <2>1. PICK m \in Name, t \in Text, s \in Status :
          Choose(p, Record("write", m, Absent, [text |-> t, status |-> s, src |-> NoEntry],
                           NoTarget, "open", NoRestore))
    BY <1>3 DEF ChooseWrite
  <2> QED BY <1>2, <2>1 DEF Record, ForwardOps, KeepsSource
<1>4. CASE ChoosePromote(p)
  <2>1. PICK n \in Present :
          Choose(p, Record("promote", n, facts[n], [facts[n] EXCEPT !.status = "confirmed"],
                           NoTarget, "open", NoRestore))
    BY <1>4 DEF ChoosePromote
  <2>2. facts[n] \in Content /\ facts[n] # Absent
    BY <1>1 DEF Present, Value
  <2>3. [facts[n] EXCEPT !.status = "confirmed"].src = facts[n].src
    BY <2>2 DEF Content
  <2> DEFINE new == [facts[n] EXCEPT !.status = "confirmed"]
             r == Record("promote", n, facts[n], new, NoTarget, "open", NoRestore)
  <2>4. r.op = "promote" /\ r.pre = facts[n] /\ r.post = new
    BY DEF Record
  <2>5. work'.intent = r
    BY <1>2, <2>1
  <2> HIDE DEF new, r
  <2>6. new.src = facts[n].src
    BY <2>3 DEF new
  <2> QED BY <2>2, <2>4, <2>5, <2>6 DEF ForwardOps, KeepsSource
<1>5. CASE ChooseDelete(p)
  <2>1. PICK n \in Present :
          Choose(p, Record("delete", n, facts[n], Absent, NoTarget, "open", NoRestore))
    BY <1>5 DEF ChooseDelete
  <2> QED BY <1>2, <2>1 DEF Record, ForwardOps, KeepsSource
<1>6. CASE ChooseRollback(p)
  <2>1. op[p] \in RollbackOps
    BY <1>6 DEF ChooseRollback, RollbackOps
  <2>2. op[p] \in Ops
    BY <2>1 DEF OpsOnly, RollbackOps
  <2> QED BY <2>1, <2>2 DEF ForwardOnly
<1> QED BY <1>3, <1>4, <1>5, <1>6

LEMMA MutateKeepsMigrate ==
  ASSUME ForwardOnly, OneInv, OpsOnly, MigrateInv, NEW p \in Proc, MutateStep(p)
  PROVE  MigrateInv'
<1> USE DEF GoTo
<1>0. {"choose", "intent", "apply", "render", "publish", "clean", "commit",
       "unsentinel"} \subseteq LockedAt
  BY DEF LockedAt
<1>1. OneSource /\ NoUndoOpen /\ TypeOK /\ Sorted(journal) /\ work \in Work
        /\ facts \in [Name -> Value]
  BY DEF MigrateInv, OneInv, TypeInv, TypeOK
<1>2. pc[p] \in LockedAt => HolderOne(p) /\ HolderMigrates(p) /\ HolderTyped(p)
                            /\ HolderFacts(p)
  BY DEF OneInv, TypeInv, MigrateInv, HolderOne, ForwardOnly
<1>3. facts' = facts => OneSource' /\ (AllThere => AllThere')
  BY <1>1 DEF OneSource, Present, AllThere, NoFreeName
<1>4. journal' = journal => NoUndoOpen'
  BY <1>1 DEF NoUndoOpen
<1>5. CASE ChooseWrite(p) \/ ChoosePromote(p) \/ ChooseDelete(p) \/ ChooseRollback(p)
  <2>1. /\ pc[p] = "choose" /\ pc' = [pc EXCEPT ![p] = "intent"] /\ lock' = lock /\ op' = op
        /\ facts' = facts /\ journal' = journal
    BY <1>5 DEF ChooseWrite, ChoosePromote, ChooseDelete, ChooseRollback, Choose
  <2>2. pc'[p] = "intent" => HolderMigrates(p)'
    BY <1>5, ChoicesKeepSource DEF HolderMigrates, KeepsSource
  <2> QED BY <1>0, <1>3, <1>4, <2>1, <2>2, HolderKeepsMigrate
<1>6. CASE Decline(p)
  BY <1>0, <1>3, <1>4, <1>6, ReleaseKeepsMigrate DEF Decline, disk
<1>7. CASE JournalIntent(p)
  <2>1. /\ pc[p] = "intent" /\ pc' = [pc EXCEPT ![p] = "apply"] /\ lock' = lock /\ op' = op
        /\ facts' = facts /\ work' = work
        /\ journal' \in Truncated(Append(journal, work.intent))
    BY <1>7 DEF JournalIntent
  <2>2. /\ work.intent \in JournalEntry /\ work.intent.seq = LastSeq(journal) + 1
        /\ work.intent.op \in ForwardOps /\ KeepsSource(work.intent)
    BY <1>0, <1>2, <2>1 DEF HolderTyped, HolderMigrates
  <2>3. work.intent.op # "rollback"
    BY <2>2 DEF ForwardOps
  <2>4. NoUndoOpen'
    BY <1>1, <2>1, <2>2, <2>3, AppendedKeepsNoUndo
  <2>5. pc'[p] = "apply" => HolderMigrates(p)'
    BY <2>1, <2>2 DEF HolderMigrates, KeepsSource
  <2> QED BY <1>0, <1>3, <2>1, <2>4, <2>5, HolderKeepsMigrate
<1>8. CASE Apply(p)
  <2> DEFINE r == work.intent
  <2>1. /\ pc[p] = "apply" /\ pc' = [pc EXCEPT ![p] = "render"] /\ lock' = lock /\ op' = op
        /\ work' = work /\ journal' = journal
        /\ facts' = [facts EXCEPT ![r.name] = r.post]
    BY <1>8 DEF Apply, SetFact
  <2>2. r \in JournalEntry /\ KeepsSource(r) /\ facts[r.name] = r.pre /\ r # NoIntent
    BY <1>0, <1>2, <2>1 DEF HolderTyped, HolderMigrates, HolderFacts, HolderOne
  <2>3. r.name \in Name
    BY <2>2 DEF JournalEntry
  <2> HIDE DEF r
  <2>4. ASSUME NEW n \in Name, facts'[n] # Absent, facts'[n].src # NoEntry
        PROVE  facts[n] # Absent /\ facts[n].src = facts'[n].src
    BY <1>1, <2>1, <2>2, <2>3, <2>4 DEF KeepsSource
  <2>5. OneSource'
    BY <1>1, <2>4 DEF OneSource, Present
  <2>6. pc'[p] = "render" => HolderMigrates(p)'
    BY <2>1, <2>2 DEF HolderMigrates, InMigration, r
  <2> QED BY <1>0, <1>4, <2>1, <2>5, <2>6, HolderKeepsMigrate
<1>9. CASE Render(p)
  <2>1. /\ pc[p] = "render" /\ pc' = [pc EXCEPT ![p] = "publish"] /\ lock' = lock /\ op' = op
        /\ facts' = facts /\ journal' = journal /\ work'.intent = work.intent
    BY <1>1, <1>9 DEF Render, disk, Work
  <2>2. pc'[p] = "publish" => HolderMigrates(p)'
    BY <1>0, <1>2, <1>3, <2>1 DEF HolderMigrates, InMigration
  <2> QED BY <1>0, <1>3, <1>4, <2>1, <2>2, HolderKeepsMigrate
<1>10. CASE Publish(p)
  <2>1. PICK to \in {"unsentinel", "clean"} :
          /\ pc[p] = "publish" /\ pc' = [pc EXCEPT ![p] = to] /\ lock' = lock /\ op' = op
          /\ facts' = facts /\ journal' = journal /\ work' = work
          /\ to = "unsentinel" => InMigration(p)
    BY <1>10 DEF Publish
  <2>2. pc'[p] = to => HolderMigrates(p)'
    BY <1>0, <1>2, <1>3, <2>1 DEF HolderMigrates, InMigration
  <2> QED BY <1>0, <1>3, <1>4, <2>1, <2>2, HolderKeepsMigrate
<1>11. CASE Clean(p)
  <2>1. pc[p] = "clean" /\ facts' = facts /\ journal' = journal
    BY <1>11 DEF Clean
  <2>2. CASE work.intent = NoIntent
    BY <1>0, <1>3, <1>4, <1>11, <2>1, <2>2, ReleaseKeepsMigrate DEF Clean
  <2>3. CASE work.intent # NoIntent
    <3>1. pc' = [pc EXCEPT ![p] = "commit"] /\ lock' = lock /\ op' = op
      BY <1>11, <2>3 DEF Clean
    <3>2. pc'[p] = "commit" => HolderMigrates(p)'
      BY DEF HolderMigrates
    <3> QED BY <1>0, <1>3, <1>4, <2>1, <3>1, <3>2, HolderKeepsMigrate
  <2> QED BY <2>2, <2>3
<1>12. CASE RegenerateFails(p)
  BY <1>0, <1>3, <1>4, <1>12, ReleaseKeepsMigrate DEF RegenerateFails
<1>13. CASE Commit(p)
  <2>1. pc[p] = "commit" /\ MarkCommitted(work.intent.seq) /\ facts' = facts /\ Release(p)
    BY <1>13 DEF Commit
  <2>2. work.intent \in Danglers(journal)
    BY <1>0, <1>2, <2>1 DEF HolderOne, Mutating
  <2>3. NoUndoOpen'
    BY <1>1, <2>1, <2>2, MarkedKeepsNoUndo
  <2> QED BY <1>0, <1>3, <2>1, <2>3, ReleaseKeepsMigrate
<1> QED BY <1>5, <1>6, <1>7, <1>8, <1>9, <1>10, <1>11, <1>12, <1>13 DEF MutateStep

LEMMA MigrateKeepsMigrate ==
  ASSUME OneInv, MigrateInv, NEW p \in Proc, MigrateStep(p)
  PROVE  MigrateInv'
<1> USE DEF GoTo
<1>0. {"auto", "sentinel", "convert", "render", "choose", "unsentinel"} \subseteq LockedAt
  BY DEF LockedAt
<1>1. OneSource /\ NoUndoOpen /\ TypeOK /\ facts \in [Name -> Value]
  BY DEF MigrateInv, OneInv, TypeInv, TypeOK
<1>2. facts' = facts => OneSource'
  BY <1>1 DEF OneSource, Present
<1>3. journal' = journal => NoUndoOpen'
  BY <1>1 DEF NoUndoOpen
<1>4. CASE AutoMigrate(p) \/ Sentinel(p)
  <2>1. PICK to \in {"sentinel", "choose", "convert"} :
          /\ pc[p] \in {"auto", "sentinel"} /\ pc' = [pc EXCEPT ![p] = to]
          /\ lock' = lock /\ op' = op /\ facts' = facts /\ journal' = journal
    BY <1>4 DEF AutoMigrate, Sentinel, disk
  <2>2. pc'[p] = to => HolderMigrates(p)'
    BY DEF HolderMigrates
  <2> QED BY <1>0, <1>2, <1>3, <2>1, <2>2, HolderKeepsMigrate
<1>5. ASSUME NEW e \in Entry, Convert(p, e) PROVE MigrateInv'
  <2>1. /\ pc[p] = "convert" /\ pc' = pc /\ lock' = lock /\ op' = op /\ journal' = journal
        /\ \A n \in Present : facts[n].src # e
    BY <1>5 DEF Convert, Unconverted
  <2>2. pc' = [pc EXCEPT ![p] = "convert"]
    BY <1>1, <2>1 DEF TypeOK
  <2>3. PICK m \in Name : facts' = [facts EXCEPT ![m] = Converted(e)] /\ facts[m] = Absent
    BY <1>5 DEF Convert, IsFreeName, SetFact
  <2>4. Converted(e).src = e
    BY DEF Converted
  <2>5. OneSource'
    BY <1>1, <2>1, <2>3, <2>4 DEF OneSource, Present
  <2>6. pc'[p] = "convert" => HolderMigrates(p)'
    BY DEF HolderMigrates
  <2> QED BY <1>0, <1>3, <2>1, <2>2, <2>5, <2>6, HolderKeepsMigrate
<1>6. CASE ConvertDone(p)
  <2>1. /\ pc[p] = "convert" /\ pc' = [pc EXCEPT ![p] = "render"] /\ lock' = lock /\ op' = op
        /\ facts' = facts /\ journal' = journal
        /\ \A e \in Unconverted : NoFreeName(Slug[e])
    BY <1>6 DEF ConvertDone, disk
  <2>2. AllThere
    BY <2>1 DEF AllThere, Unconverted
  <2>3. AllThere'
    BY <2>1, <2>2 DEF AllThere, NoFreeName, Present
  <2>4. pc'[p] = "render" => HolderMigrates(p)'
    BY <2>3 DEF HolderMigrates
  <2> QED BY <1>0, <1>2, <1>3, <2>1, <2>4, HolderKeepsMigrate
<1>7. CASE Unsentinel(p)
  <2>1. pc[p] = "unsentinel" /\ facts' = facts /\ journal' = journal
    BY <1>7 DEF Unsentinel
  <2>2. CASE op[p] = "write"
    <3>1. pc' = [pc EXCEPT ![p] = "choose"] /\ lock' = lock /\ op' = op
      BY <1>7, <2>2 DEF Unsentinel
    <3>2. pc'[p] = "choose" => HolderMigrates(p)'
      BY DEF HolderMigrates
    <3> QED BY <1>0, <1>2, <1>3, <2>1, <3>1, <3>2, HolderKeepsMigrate
  <2>3. CASE op[p] # "write"
    BY <1>0, <1>2, <1>3, <1>7, <2>1, <2>3, ReleaseKeepsMigrate DEF Unsentinel
  <2> QED BY <2>2, <2>3
<1> QED BY <1>4, <1>5, <1>6, <1>7 DEF MigrateStep

LEMMA NextKeepsMigrate ==
  ASSUME ForwardOnly, OneInv, OpsOnly, MigrateInv, [Next]_vars
  PROVE  MigrateInv'
<1> USE DEF GoTo
<1>1. OneSource /\ NoUndoOpen /\ TypeOK
  BY DEF MigrateInv, OneInv, TypeInv
<1>2. UNCHANGED disk => OneSource' /\ NoUndoOpen'
  BY <1>1 DEF disk, OneSource, Present, NoUndoOpen
<1>3. ASSUME NEW p \in Proc, ReadStep(p) PROVE MigrateInv'
  <2>1. /\ {"idle", "wait", "probe", "exists", "stale", "load"} \subseteq FreeAt
        /\ "recheck" \in LockedAt /\ "recover" \in LockedAt
    BY DEF FreeAt, LockedAt
  <2>2. op[p] \in AllOps \cup {"none"} /\ op = [op EXCEPT ![p] = op[p]]
    BY <1>1 DEF TypeOK
  <2>3. ASSUME pc[p] \in FreeAt, ReturnUnlocked(p) PROVE MigrateInv'
    BY <2>1, <2>3, FreeKeepsMigrate DEF ReturnUnlocked, Return
  <2>4. ASSUME NEW from \in FreeAt, NEW to \in FreeAt, LookAt(p, from, to) PROVE MigrateInv'
    <3>1. op' = [op EXCEPT ![p] = op[p]]
      BY <2>2, <2>4 DEF LookAt
    <3> QED BY <2>2, <2>4, <3>1, FreeKeepsMigrate DEF LookAt
  <2>5. CASE ReadSentinel(p)
    BY <2>1, <2>3, <2>4, <2>5 DEF ReadSentinel
  <2>6. CASE ReadEmpty(p)
    BY <2>1, <2>3, <2>4, <2>6 DEF ReadEmpty
  <2>7. CASE ReadStale(p)
    BY <2>1, <2>4, <2>7 DEF ReadStale
  <2>8. CASE ReadLoad(p)
    BY <2>1, <2>3, <2>8 DEF ReadLoad
  <2>9. CASE Recheck(p)
    <3>1. pc[p] = "recheck" /\ UNCHANGED disk
      BY <2>9 DEF Recheck
    <3>2. CASE migrating \/ Fresh
      BY <1>2, <2>1, <2>9, <3>1, <3>2, ReleaseKeepsMigrate DEF Recheck
    <3>3. CASE ~(migrating \/ Fresh)
      <4>1. pc' = [pc EXCEPT ![p] = "recover"] /\ lock' = lock /\ op' = op
        BY <2>9, <3>3 DEF Recheck
      <4>2. pc'[p] = "recover" => HolderMigrates(p)'
        BY DEF HolderMigrates
      <4> QED BY <1>2, <2>1, <3>1, <4>1, <4>2, HolderKeepsMigrate
    <3> QED BY <3>2, <3>3
  <2> QED BY <1>3, <2>5, <2>6, <2>7, <2>8, <2>9 DEF ReadStep
<1>4. ASSUME NEW p \in Proc, Acquire(p) PROVE MigrateInv'
  <2>1. \A q \in Proc : pc[q] \notin LockedAt
    BY <1>1, <1>4, ConstAssumption DEF Acquire, TypeOK, ConstAssumption
  <2>2. /\ pc' = [pc EXCEPT ![p] = Dispatch(op[p])] /\ op' = op /\ UNCHANGED disk
        /\ Dispatch(op[p]) \in {"recheck", "render", "sentinel", "recover"}
        /\ Dispatch(op[p]) = "render" => op[p] = "regenerate"
    BY <1>4 DEF Acquire, Dispatch
  <2>3. ASSUME NEW q \in Proc, pc'[q] \in LockedAt PROVE HolderMigrates(q)'
    <3>1. q = p /\ pc'[p] = Dispatch(op[p])
      BY <1>1, <2>1, <2>2, <2>3 DEF TypeOK
    <3> QED BY <2>2, <3>1 DEF HolderMigrates, InMigration
  <2> QED BY <1>2, <2>2, <2>3 DEF MigrateInv
<1>5. ASSUME NEW p \in Proc, Crash(p) PROVE MigrateInv'
  <2>1. CASE lock = p
    <3>1. Release(p) /\ pc[p] \in LockedAt
      BY <1>1, <1>5, <2>1 DEF Crash, Release, TypeOK
    <3> QED BY <1>2, <1>5, <3>1, ReleaseKeepsMigrate DEF Crash
  <2>2. CASE lock # p
    <3>1. pc[p] \in FreeAt
      BY <1>1, <2>2 DEF TypeOK
    <3>2. "idle" \in FreeAt
      BY DEF FreeAt
    <3> QED BY <1>5, <2>2, <3>1, <3>2, FreeKeepsMigrate DEF Crash, Return
  <2> QED BY <2>1, <2>2
<1>6. ASSUME NEW p \in Proc, NEW o \in Ops, Begin(p, o) PROVE MigrateInv'
  <2>1. {"idle", "probe", "wait"} \subseteq FreeAt /\ o \in AllOps
    BY ConstAssumption DEF FreeAt, ConstAssumption
  <2> QED BY <1>6, <2>1, FreeKeepsMigrate DEF Begin
<1>7. ASSUME NEW n \in Name, NEW v \in Content, Edit(n, v) PROVE FALSE
  BY <1>1, <1>7 DEF Edit, ForwardOnly, TypeOK
<1>8. CASE UNCHANGED vars
  BY <1>8 DEF vars, MigrateInv, OneSource, NoUndoOpen, Present, HolderMigrates, InMigration,
              AllThere, NoFreeName
<1> QED BY <1>3, <1>4, <1>5, <1>6, <1>7, <1>8, RecoverKeepsMigrate, MutateKeepsMigrate,
           MigrateKeepsMigrate DEF Next, Step

\* However many attempts died on the way, and whatever is written, promoted or deleted
\* in between: a migration that takes its sentinel away has every entry in the facts,
\* once, and in the index.  The single-phase version may have left anything, as long
\* as no entry is in two of the facts it left.
THEOREM Migrated ==
  ForwardOnly => (Spec \/ (LegacySpec /\ OneSource) => []MigrationComplete)
<1> SUFFICES ASSUME ForwardOnly PROVE Spec \/ (LegacySpec /\ OneSource) => []MigrationComplete
  OBVIOUS
<1>1. Init \/ (LegacyInit /\ OneSource) => MigrateInv
  <2> SUFFICES ASSUME Init \/ (LegacyInit /\ OneSource) PROVE MigrateInv
    OBVIOUS
  <2>1. OneSource
    BY DEF Init, OneSource, Present
  <2>2. NoUndoOpen
    BY LegacyRecords DEF Init, NoUndoOpen, Entries
  <2>3. \A p \in Proc : pc[p] \notin LockedAt
    BY DEF Init, LegacyInit, AtRest, LockedAt
  <2> QED BY <2>1, <2>2, <2>3 DEF MigrateInv
<1>2. OneInv /\ OpsOnly /\ MigrateInv /\ [Next]_vars => MigrateInv'
  BY NextKeepsMigrate
<1>3. FreshInv /\ MigrateInv => MigrationComplete
  <2> SUFFICES ASSUME FreshInv, MigrateInv, NEW p \in Proc, pc[p] = "unsentinel"
               PROVE  index = facts /\ AllThere /\ OneSource
    BY DEF MigrationComplete, AllThere, OneSource
  <2>1. pc[p] \in LockedAt
    BY DEF LockedAt
  <2> QED BY <2>1 DEF FreshInv, HolderFresh, MigrateInv, HolderMigrates
<1>4. Spec \/ LegacySpec => []FreshInv
  BY Freshness DEF ForwardOnly
<1> QED BY <1>1, <1>2, <1>3, <1>4, Oneness, OpsKept, PTL DEF Spec, LegacySpec
=============================================================================
