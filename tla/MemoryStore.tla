---------------------------- MODULE MemoryStore ----------------------------
(***************************************************************************)
(* The rich memory backend (scripts/memory_index.py): per-fact files, a    *)
(* rendered index, a two-phase write-ahead journal with rollback, the      *)
(* dirty and migrating sentinels, and the cross-process flock.             *)
(*                                                                         *)
(* Every variable of the first group is a file under .goodfellow/; the     *)
(* second group is the memory of the processes that run the CLI.  A step   *)
(* is one atomic file operation (os.replace, unlink) of the code, and a    *)
(* process may crash between any two of them.                              *)
(*                                                                         *)
(* A fact's content stands for its hash: sha256 is taken to be injective.  *)
(* The arguments of a call are chosen by the step that first uses them.    *)
(***************************************************************************)
EXTENDS Integers, Sequences, FiniteSets

CONSTANTS
  Proc,         \* the processes that may run the CLI at the same time
  Name,         \* fact names
  Text,         \* what a fact says; its status and its source are apart
  Entry,        \* the entries of knowledge.md ({} when there is no such file)
  EntryStatus,  \* [Entry -> Status]: pending iff the entry carries [pending]
  Slug,         \* [Entry -> Name]: the name an entry would get by itself
  EntryText,    \* [Entry -> Text]
  Suffixes,     \* [Name -> Seq(Name)]: n, n-2, n-3, ... as far as Name goes
  NoEntry,      \* the source of a fact that was not migrated
  Absent,       \* there is no such fact
  NoIndex,      \* MEMORY.md does not exist
  NoProc,
  NoRestore,    \* a journal record without a restore value
  NoIntent,     \* the process has not chosen its mutation yet
  Ops,          \* the CLI commands this instance exercises
  Retention,    \* GOODFELLOW_JOURNAL_RETENTION
  MinKept,      \* how many entries always fit GOODFELLOW_JOURNAL_MAX_BYTES
  MaxSeq,       \* bound: no call journals once a sequence number got here
  MaxEdits,     \* bound: how many edits are made by hand
  EditsUnderLock, \* a hand edit may fall while a process holds the lock
  SentinelMayFail \* .dirty may fail to be written, an error the code swallows

Status  == {"pending", "confirmed"}
Content == [text : Text, status : Status, src : Entry \cup {NoEntry}]
Value   == Content \cup {Absent}

ForwardOps == {"write", "promote", "delete"}
RollbackOps == {"rollback", "rollback_seq"}
AllOps == ForwardOps \cup RollbackOps
          \cup {"recover", "regenerate", "migrate", "read"}

\* flag is the committed field: open is false, done is true, none is a record
\* from before the two-phase journal.
Flag == {"open", "done", "none"}
NoTarget  == 0
JournalEntry ==
  [seq : Nat, op : ForwardOps \cup {"rollback"}, name : Name, pre : Value,
   post : Value, target : Nat, flag : Flag, restore : Value \cup {NoRestore}]

ASSUME ConstAssumption ==
  /\ Entry # {} => EntryStatus \in [Entry -> Status]
  /\ Entry # {} => Slug \in [Entry -> Name]
  /\ Entry # {} => EntryText \in [Entry -> Text]
  /\ Suffixes \in [Name -> Seq(Name)]
  /\ Absent \notin Content
  /\ NoRestore \notin Value
  /\ NoIntent \notin JournalEntry
  /\ NoIndex \notin [Name -> Value]
  /\ NoProc \notin Proc
  /\ Ops \subseteq AllOps
  /\ Retention \in Nat \ {0}
  /\ MinKept \in 1 .. Retention
  /\ MaxSeq \in Nat
  /\ MaxEdits \in Nat
  /\ EditsUnderLock \in BOOLEAN
  /\ SentinelMayFail \in BOOLEAN

VARIABLES
  facts,      \* memory/<name>.md
  index,      \* MEMORY.md: the facts it was rendered from
  newer,      \* facts whose mtime is later than MEMORY.md's
  dirty,      \* memory/.dirty exists
  migrating,  \* memory/.migrating exists
  journal,    \* memory/.journal.jsonl
  lock,       \* who holds memory/.lock
  pc,         \* where each process is
  op,         \* the command each process runs
  work,       \* locals of the process that holds the lock
  edits       \* hand edits made so far

vars == <<facts, index, newer, dirty, migrating, journal, lock, pc, op, work,
          edits>>
disk == <<facts, index, newer, dirty, migrating, journal>>

-----------------------------------------------------------------------------
(* The journal *)

Entries(j) == {j[i] : i \in DOMAIN j}

LastSeq(j) ==
  IF j = <<>> THEN 0
  ELSE CHOOSE s \in {e.seq : e \in Entries(j)} : \A e \in Entries(j) : e.seq <= s

\* Entries stand in the order of their numbers.
Sorted(j) == \A i, k \in DOMAIN j : i < k => j[i].seq < j[k].seq

\* What _truncate_to_budget may leave: a nonempty suffix of at most Retention
\* entries.  How many more the byte budget drops depends on their sizes.
Truncated(j) ==
  {SubSeq(j, i, Len(j)) :
     i \in {k \in DOMAIN j : k > Len(j) - Retention /\ (k = 1 \/ k <= Len(j) - MinKept + 1)}}

Flipped(j, s) ==
  [i \in DOMAIN j |-> IF j[i].seq = s THEN [j[i] EXCEPT !.flag = "done"] ELSE j[i]]

\* Committed sequence numbers that a rollback record has undone.
Reverted(j) ==
  {e.target : e \in {x \in Entries(j) : x.op = "rollback" /\ x.flag # "open"}}

\* The latest forward entry of each name, when it predates the two-phase form.
LegacyCandidates(j) ==
  {e \in Entries(j) : /\ e.op \in ForwardOps
                      /\ e.flag = "none"
                      /\ \A f \in Entries(j) :
                           f.op \in ForwardOps /\ f.name = e.name => f.seq <= e.seq}

IsDangling(j, e) == e.flag = "open" \/ e \in LegacyCandidates(j)

\* The entries _recover_locked acts on, taken from the journal as it is when
\* recovery starts.
Danglers(j) == {e \in Entries(j) : IsDangling(j, e) /\ e.seq \notin Reverted(j)}

Unreverted(j) == {e \in Entries(j) : e.op \in ForwardOps /\ e.seq \notin Reverted(j)}

\* Bug: the compare-and-swap is thought to make the newer-change check needless.
Targetable_CasOnly(e) == e \in Unreverted(journal) /\ facts[e.name] = e.post

\* The rollback preconditions that depend on the files: no newer unreverted
\* change of the same fact, and the fact still as the mutation left it.
Targetable(e) ==
  /\ e \in Unreverted(journal)
  /\ \A f \in Unreverted(journal) : f.name = e.name => f.seq <= e.seq
  /\ facts[e.name] = e.post

-----------------------------------------------------------------------------
(* Files *)

Present == {n \in Name : facts[n] # Absent}

\* _is_stale, once .dirty and the existence of MEMORY.md have been looked at.
Fresh == index # NoIndex /\ ~dirty /\ newer = {}

SetFact(n, v) ==
  /\ facts' = [facts EXCEPT ![n] = v]
  /\ newer' = IF v = Absent THEN newer \ {n} ELSE newer \cup {n}

\* _mark_dirty_locked.
MarkDirty == dirty' \in {TRUE} \cup (IF SentinelMayFail THEN {dirty} ELSE {})

\* The first of n, n-2, n-3, ... that is free.
IsFreeName(n, m) ==
  \E i \in DOMAIN Suffixes[n] :
    /\ m = Suffixes[n][i]
    /\ facts[m] = Absent
    /\ \A k \in 1 .. i - 1 : facts[Suffixes[n][k]] # Absent

NoFreeName(n) == \A i \in DOMAIN Suffixes[n] : facts[Suffixes[n][i]] # Absent

\* Bug: an entry counts as migrated when its slug is taken.
Unconverted_BySlug == {e \in Entry : facts[Slug[e]] = Absent}

Unconverted == {e \in Entry : \A n \in Present : facts[n].src # e}

Converted(e) == [text |-> EntryText[e], status |-> EntryStatus[e], src |-> e]

-----------------------------------------------------------------------------
(* The lock and the calls *)

\* The mutation chosen, the dangling intents still to be looked at, whether
\* recovery changed anything, what it could not resolve, the targets of the
\* rollbacks it completed, and the facts read for the index.
Work == [intent : JournalEntry \cup {NoIntent}, todo : SUBSET JournalEntry,
         changed : BOOLEAN, unresolved : SUBSET Nat, redone : SUBSET Nat,
         view : [Name -> Value] \cup {NoIndex}]

NoWork == [intent |-> NoIntent, todo |-> {}, changed |-> FALSE,
           unresolved |-> {}, redone |-> {}, view |-> NoIndex]

LockedAt == {"recover", "marker", "redo", "recommit", "auto", "sentinel",
             "convert", "unsentinel", "choose", "intent", "apply", "render",
             "publish", "clean", "commit", "recheck"}
FreeAt   == {"idle", "wait", "probe", "exists", "stale", "load"}

Init ==
  /\ facts = [n \in Name |-> Absent]
  /\ index = NoIndex
  /\ newer = {}
  /\ dirty = FALSE
  /\ migrating = FALSE
  /\ journal = <<>>
  /\ lock = NoProc
  /\ pc = [p \in Proc |-> "idle"]
  /\ op = [p \in Proc |-> "none"]
  /\ work = NoWork
  /\ edits = 0

GoTo(p, from, to) == pc[p] = from /\ pc' = [pc EXCEPT ![p] = to]

\* The end of a call.
Return(p) ==
  /\ pc' = [pc EXCEPT ![p] = "idle"]
  /\ op' = [op EXCEPT ![p] = "none"]

\* Leaving memory_lock, by return or by exception.
Release(p) ==
  /\ Return(p)
  /\ lock' = NoProc
  /\ work' = NoWork

Begin(p, o) ==
  /\ GoTo(p, "idle", IF o = "read" THEN "probe" ELSE "wait")
  /\ op' = [op EXCEPT ![p] = o]
  /\ UNCHANGED <<disk, lock, work, edits>>

Dispatch(o) == CASE o = "read"       -> "recheck"
                 [] o = "regenerate" -> "render"
                 [] o = "migrate"    -> "sentinel"
                 [] OTHER            -> "recover"

\* Bug: the lock is not waited for.
Acquire_NoWait(p) ==
  /\ lock' = p
  /\ GoTo(p, "wait", Dispatch(op[p]))
  /\ work' = IF Dispatch(op[p]) # "recover" THEN NoWork
             ELSE [NoWork EXCEPT !.todo = Danglers(journal)]
  /\ UNCHANGED <<disk, op, edits>>

Acquire(p) ==
  /\ lock = NoProc
  /\ lock' = p
  /\ GoTo(p, "wait", Dispatch(op[p]))
  /\ work' = IF Dispatch(op[p]) # "recover" THEN NoWork
             ELSE [NoWork EXCEPT !.todo = Danglers(journal)]
  /\ UNCHANGED <<disk, op, edits>>

\* The process dies and the kernel drops its flock, or an exception ends the
\* call: either way it has done what it has done and does no more.
Crash(p) ==
  /\ pc[p] # "idle"
  /\ Return(p)
  /\ lock' = IF lock = p THEN NoProc ELSE lock
  /\ work' = IF lock = p THEN NoWork ELSE work
  /\ UNCHANGED <<disk, edits>>

\* Somebody edits or adds a fact file by hand.  Nobody removes one: that leaves
\* nothing newer than the index, and so goes unnoticed.
Edit(n, v) ==
  /\ edits < MaxEdits
  /\ edits' = edits + 1
  /\ EditsUnderLock \/ lock = NoProc
  /\ facts[n] # v
  /\ SetFact(n, v)
  /\ UNCHANGED <<index, dirty, migrating, journal, lock, pc, op, work>>

-----------------------------------------------------------------------------
(* _recover_locked: one dangling intent at a time, oldest first *)

Oldest(e) == e \in work.todo /\ \A f \in work.todo : e.seq <= f.seq

Resolve(e) == [work EXCEPT !.todo = @ \ {e}, !.changed = TRUE,
                 !.redone = IF e.op = "rollback" THEN @ \cup {e.target} ELSE @]

\* _mark_committed_locked.  Only the flag a legacy entry gains makes the file
\* longer, so only then can the byte budget drop anything.
MarkCommitted(s) ==
  \/ /\ \A e \in Entries(journal) : e.seq = s => e.flag # "none"
     /\ journal' = Flipped(journal, s)
  \/ /\ \E e \in Entries(journal) : e.seq = s /\ e.flag = "none"
     /\ journal' \in Truncated(Flipped(journal, s))

\* Bug: takes every dangling intent for a mutation that landed.
RollForward_Blind(p, e) ==
  /\ pc[p] = "recover"
  /\ Oldest(e)
  /\ MarkCommitted(e.seq)
  /\ work' = Resolve(e)
  /\ UNCHANGED <<facts, index, newer, dirty, migrating, lock, pc, op, edits>>

RollForward(p, e) ==
  /\ pc[p] = "recover"
  /\ Oldest(e)
  /\ facts[e.name] = e.post
  /\ MarkCommitted(e.seq)
  /\ work' = Resolve(e)
  /\ UNCHANGED <<facts, index, newer, dirty, migrating, lock, pc, op, edits>>

\* The mutation never landed: mark the index dirty, then journal a marker.
RollBack(p, e) ==
  /\ GoTo(p, "recover", "marker")
  /\ Oldest(e)
  /\ e.op \in ForwardOps
  /\ facts[e.name] # e.post
  /\ facts[e.name] = e.pre
  /\ MarkDirty
  /\ UNCHANGED <<facts, index, newer, migrating, journal, lock, op, work, edits>>

\* Bug: numbers an entry by how many the journal holds.
Record_ByCount(o, n, pre, post, target, flag, restore) ==
  [seq |-> Len(journal) + 1, op |-> o, name |-> n, pre |-> pre, post |-> post,
   target |-> target, flag |-> flag, restore |-> restore]

Record(o, n, pre, post, target, flag, restore) ==
  [seq |-> LastSeq(journal) + 1, op |-> o, name |-> n, pre |-> pre, post |-> post,
   target |-> target, flag |-> flag, restore |-> restore]

WriteMarker(p, e) ==
  /\ GoTo(p, "marker", "recover")
  /\ Oldest(e)
  /\ journal' \in Truncated(Append(journal,
       Record("rollback", e.name, facts[e.name], facts[e.name], e.seq, "done", NoRestore)))
  /\ work' = Resolve(e)
  /\ UNCHANGED <<facts, index, newer, dirty, migrating, lock, op, edits>>

\* What a rollback is to put back: its record says so, or, if an earlier version
\* wrote it, the record of the mutation that it undoes, where that is still there.
Restored(e) ==
  IF e.restore # NoRestore THEN {e.restore}
  ELSE {f.pre : f \in {x \in Entries(journal) : x.seq = e.target}}

\* Bug: reapplies a rollback without looking at the fact.
Redo_NoCheck(p, e) ==
  /\ GoTo(p, "recover", "redo")
  /\ Oldest(e)
  /\ e.op = "rollback"
  /\ facts[e.name] # e.post
  /\ MarkDirty
  /\ UNCHANGED <<facts, index, newer, migrating, journal, lock, op, work, edits>>

\* A rollback whose fact operation was lost is made up for, if what it restores
\* is the image that its record promises.
Redo(p, e) ==
  /\ GoTo(p, "recover", "redo")
  /\ Oldest(e)
  /\ e.op = "rollback"
  /\ facts[e.name] # e.post
  /\ facts[e.name] = e.pre
  /\ e.post \in Restored(e)
  /\ MarkDirty
  /\ UNCHANGED <<facts, index, newer, migrating, journal, lock, op, work, edits>>

RedoFact(p, e) ==
  /\ GoTo(p, "redo", "recommit")
  /\ Oldest(e)
  /\ SetFact(e.name, e.post)
  /\ UNCHANGED <<index, dirty, migrating, journal, lock, op, work, edits>>

RedoCommit(p, e) ==
  /\ GoTo(p, "recommit", "recover")
  /\ Oldest(e)
  /\ MarkCommitted(e.seq)
  /\ work' = Resolve(e)
  /\ UNCHANGED <<facts, index, newer, dirty, migrating, lock, op, edits>>

\* Neither image: the fact was changed outside the journal.  Or what the
\* rollback is to restore is not known, or not what its record promises.
GiveUp(p, e) ==
  /\ pc[p] = "recover"
  /\ Oldest(e)
  /\ facts[e.name] # e.post
  /\ \/ facts[e.name] # e.pre
     \/ (e.op = "rollback" /\ e.post \notin Restored(e))
  /\ work' = [work EXCEPT !.todo = @ \ {e}, !.unresolved = @ \cup {e.seq}]
  /\ UNCHANGED <<disk, lock, pc, op, edits>>

Recovered(p) == pc[p] = "recover" /\ work.todo = {}

\* Bug: warns about an unresolved intent and goes on.
Proceed_Anyway(p) ==
  /\ Recovered(p)
  /\ op[p] \in ForwardOps \cup RollbackOps
  /\ pc' = [pc EXCEPT ![p] = IF op[p] = "write" THEN "auto" ELSE "choose"]
  /\ UNCHANGED <<disk, lock, op, work, edits>>

\* _recover_or_raise_locked lets a mutation or a rollback go on.
Proceed(p) ==
  /\ Recovered(p)
  /\ op[p] \in ForwardOps \cup RollbackOps
  /\ work.unresolved = {}
  /\ pc' = [pc EXCEPT ![p] = IF op[p] = "write" THEN "auto" ELSE "choose"]
  /\ UNCHANGED <<disk, lock, op, work, edits>>

FailClosed(p) ==
  /\ Recovered(p)
  /\ op[p] \in ForwardOps \cup RollbackOps
  /\ work.unresolved # {}
  /\ Release(p)
  /\ UNCHANGED <<disk, edits>>

\* recover() republishes when something changed, a stale read always does.
Republish(p) ==
  /\ Recovered(p)
  /\ op[p] = "read" \/ (op[p] = "recover" /\ (work.changed \/ dirty))
  /\ pc' = [pc EXCEPT ![p] = "render"]
  /\ UNCHANGED <<disk, lock, op, work, edits>>

NothingToRecover(p) ==
  /\ Recovered(p)
  /\ op[p] = "recover" /\ ~work.changed /\ ~dirty
  /\ Release(p)
  /\ UNCHANGED <<disk, edits>>

-----------------------------------------------------------------------------
(* Mutations: choose and mark dirty, journal the intent, apply, publish,   *)
(* clear dirty, commit                                                     *)

HasRoom == LastSeq(journal) < MaxSeq

\* Bug: .dirty is left to the failure handler of regenerate.
Choose_NotDirty(p, e) ==
  /\ HasRoom
  /\ GoTo(p, "choose", "intent")
  /\ work' = [work EXCEPT !.intent = e]
  /\ UNCHANGED <<disk, lock, op, edits>>

Choose(p, e) ==
  /\ HasRoom
  /\ GoTo(p, "choose", "intent")
  /\ work' = [work EXCEPT !.intent = e]
  /\ MarkDirty
  /\ UNCHANGED <<facts, index, newer, migrating, journal, lock, op, edits>>

ChooseWrite(p) ==
  /\ op[p] = "write"
  /\ \E n, m \in Name, t \in Text, s \in Status :
       /\ IsFreeName(n, m)
       /\ Choose(p, Record("write", m, Absent, [text |-> t, status |-> s, src |-> NoEntry],
                           NoTarget, "open", NoRestore))

\* Bug: the pre-image is taken after the substitution.
ChoosePromote_LatePre(p) ==
  /\ op[p] = "promote"
  /\ \E n \in Present :
       /\ facts[n].status = "pending"
       /\ LET new == [facts[n] EXCEPT !.status = "confirmed"]
          IN Choose(p, Record("promote", n, new, new, NoTarget, "open", NoRestore))

ChoosePromote(p) ==
  /\ op[p] = "promote"
  /\ \E n \in Present :
       /\ facts[n].status = "pending"
       /\ Choose(p, Record("promote", n, facts[n], [facts[n] EXCEPT !.status = "confirmed"],
                           NoTarget, "open", NoRestore))

ChooseDelete(p) ==
  /\ op[p] = "delete"
  /\ \E n \in Present :
       Choose(p, Record("delete", n, facts[n], Absent, NoTarget, "open", NoRestore))

\* rollback() and rollback(seq).  A plain rollback takes the newest unreverted
\* mutation, unless recovery has just completed a rollback in its place.
ChooseRollback(p) ==
  \E e \in Entries(journal) :
    /\ \/ /\ op[p] = "rollback"
          /\ work.redone = {}
          /\ \A f \in Unreverted(journal) : f.seq <= e.seq
       \/ op[p] = "rollback_seq"
    /\ Targetable(e)
    /\ Choose(p, Record("rollback", e.name, facts[e.name], e.pre, e.seq, "open", e.pre))

\* The call returns or raises before it marks anything: the arguments may name
\* no fact, a fact in the wrong status or an entry that cannot be rolled back;
\* recovery completed the rollback asked for; or a bound has been reached.
Decline(p) ==
  /\ pc[p] = "choose"
  /\ \/ op[p] \in {"promote", "delete", "rollback_seq"}
     \/ op[p] = "rollback" /\ work.redone # {}
     \/ op[p] = "rollback" /\ ~ \E e \in Unreverted(journal) :
           Targetable(e) /\ \A f \in Unreverted(journal) : f.seq <= e.seq
     \/ op[p] = "write" /\ \E n \in Name : NoFreeName(n)
     \/ ~HasRoom
  /\ Release(p)
  /\ UNCHANGED <<disk, edits>>

\* Bug: a failure to write the journal is swallowed.
JournalIntent_Skipped(p) ==
  /\ GoTo(p, "intent", "apply")
  /\ UNCHANGED <<disk, lock, op, work, edits>>

JournalIntent(p) ==
  /\ GoTo(p, "intent", "apply")
  /\ journal' \in Truncated(Append(journal, work.intent))
  /\ UNCHANGED <<facts, index, newer, dirty, migrating, lock, op, work, edits>>

\* Bug: the index is left to the next read.
Apply_NoRegenerate(p) ==
  /\ GoTo(p, "apply", "commit")
  /\ SetFact(work.intent.name, work.intent.post)
  /\ UNCHANGED <<index, dirty, migrating, journal, lock, op, work, edits>>

Apply(p) ==
  /\ GoTo(p, "apply", "render")
  /\ SetFact(work.intent.name, work.intent.post)
  /\ UNCHANGED <<index, dirty, migrating, journal, lock, op, work, edits>>

Render(p) ==
  /\ GoTo(p, "render", "publish")
  /\ work' = [work EXCEPT !.view = facts]
  /\ UNCHANGED <<disk, lock, op, edits>>

\* _migrate_core publishes too, but clears no .dirty.
InMigration(p) == op[p] \in {"write", "migrate"} /\ work.intent = NoIntent

Publish(p) ==
  /\ GoTo(p, "publish", IF InMigration(p) THEN "unsentinel" ELSE "clean")
  /\ index' = work.view
  /\ newer' = {}
  /\ UNCHANGED <<facts, dirty, migrating, journal, lock, op, work, edits>>

\* A failure to remove .dirty is swallowed: the next read publishes again.
Clean(p) ==
  /\ pc[p] = "clean"
  /\ dirty' \in {FALSE, dirty}
  /\ IF work.intent = NoIntent
       THEN Release(p)
       ELSE pc' = [pc EXCEPT ![p] = "commit"] /\ UNCHANGED <<lock, op, work>>
  /\ UNCHANGED <<facts, index, newer, migrating, journal, edits>>

\* An exception in _regenerate_locked, before or after the index is replaced:
\* .dirty is left behind and the call raises.
RegenerateFails(p) ==
  /\ pc[p] \in {"render", "publish", "clean"}
  /\ ~InMigration(p)
  /\ MarkDirty
  /\ Release(p)
  /\ UNCHANGED <<facts, index, newer, migrating, journal, edits>>

Commit(p) ==
  /\ pc[p] = "commit"
  /\ MarkCommitted(work.intent.seq)
  /\ Release(p)
  /\ UNCHANGED <<facts, index, newer, dirty, migrating, edits>>

-----------------------------------------------------------------------------
(* Migration of knowledge.md: by the CLI, or by a write that finds a       *)
(* knowledge file and no facts, or an unfinished migration                 *)

\* Bug: the migration takes the lock its caller already holds.
AutoMigrate_Relock(p) ==
  /\ pc[p] = "auto"
  /\ pc' = [pc EXCEPT ![p] =
       IF Entry # {} /\ (Present = {} \/ migrating) THEN "wait" ELSE "choose"]
  /\ UNCHANGED <<disk, lock, op, work, edits>>

AutoMigrate(p) ==
  /\ pc[p] = "auto"
  /\ pc' = [pc EXCEPT ![p] =
       IF Entry # {} /\ (Present = {} \/ migrating) THEN "sentinel" ELSE "choose"]
  /\ UNCHANGED <<disk, lock, op, work, edits>>

\* Bug: no sentinel before the first fact.
Sentinel_Missing(p) ==
  GoTo(p, "sentinel", "convert") /\ UNCHANGED <<disk, lock, op, work, edits>>

Sentinel(p) ==
  /\ GoTo(p, "sentinel", "convert")
  /\ migrating' = TRUE
  /\ UNCHANGED <<facts, index, newer, dirty, journal, lock, op, work, edits>>

Convert(p, e) ==
  /\ pc[p] = "convert"
  /\ e \in Unconverted
  /\ \E m \in Name : IsFreeName(Slug[e], m) /\ SetFact(m, Converted(e))
  /\ UNCHANGED <<index, dirty, migrating, journal, lock, pc, op, work, edits>>

\* Every entry has its fact, or (a bound) the names have run out.
ConvertDone(p) ==
  /\ \A e \in Unconverted : NoFreeName(Slug[e])
  /\ GoTo(p, "convert", "render")
  /\ UNCHANGED <<disk, lock, op, work, edits>>

Unsentinel(p) ==
  /\ pc[p] = "unsentinel"
  /\ migrating' = FALSE
  /\ IF op[p] = "write"
       THEN /\ pc' = [pc EXCEPT ![p] = "choose"]
            /\ work' = [work EXCEPT !.view = NoIndex]
            /\ UNCHANGED <<lock, op>>
       ELSE Release(p)
  /\ UNCHANGED <<facts, index, newer, dirty, journal, edits>>

-----------------------------------------------------------------------------
(* read_index_recovering_stale: three looks without the lock, then with it *)

ReturnUnlocked(p) == Return(p) /\ UNCHANGED <<disk, lock, work, edits>>

LookAt(p, from, to) == GoTo(p, from, to) /\ UNCHANGED <<disk, lock, op, work, edits>>

\* .migrating present: serve knowledge.md.  Otherwise see whether any fact is
\* there before looking at MEMORY.md.
ReadSentinel(p) ==
  \/ pc[p] = "probe" /\ migrating /\ ReturnUnlocked(p)
  \/ ~migrating /\ LookAt(p, "probe", IF Present = {} THEN "exists" ELSE "stale")

\* Neither facts nor an index nor .dirty: serve knowledge.md.
ReadEmpty(p) ==
  \/ pc[p] = "exists" /\ index = NoIndex /\ ~dirty /\ ReturnUnlocked(p)
  \/ ~(index = NoIndex /\ ~dirty) /\ LookAt(p, "exists", "stale")

ReadStale(p) == LookAt(p, "stale", IF Fresh THEN "load" ELSE "wait")

ReadLoad(p) == pc[p] = "load" /\ ReturnUnlocked(p)

Recheck(p) ==
  /\ pc[p] = "recheck"
  /\ IF migrating \/ Fresh
       THEN Release(p)
       ELSE /\ pc' = [pc EXCEPT ![p] = "recover"]
            /\ work' = [NoWork EXCEPT !.todo = Danglers(journal)]
            /\ UNCHANGED <<lock, op>>
  /\ UNCHANGED <<disk, edits>>

-----------------------------------------------------------------------------
RecoverStep(p) ==
  \/ \E e \in work.todo : \/ RollForward(p, e) \/ RollBack(p, e) \/ WriteMarker(p, e)
                          \/ Redo(p, e) \/ RedoFact(p, e) \/ RedoCommit(p, e)
                          \/ GiveUp(p, e)
  \/ Proceed(p) \/ FailClosed(p) \/ Republish(p) \/ NothingToRecover(p)

MutateStep(p) ==
  \/ ChooseWrite(p) \/ ChoosePromote(p) \/ ChooseDelete(p) \/ ChooseRollback(p)
  \/ Decline(p) \/ JournalIntent(p) \/ Apply(p)
  \/ Render(p) \/ Publish(p) \/ Clean(p) \/ RegenerateFails(p) \/ Commit(p)

MigrateStep(p) ==
  \/ AutoMigrate(p) \/ Sentinel(p) \/ ConvertDone(p) \/ Unsentinel(p)
  \/ \E e \in Entry : Convert(p, e)

ReadStep(p) ==
  ReadSentinel(p) \/ ReadEmpty(p) \/ ReadStale(p) \/ ReadLoad(p) \/ Recheck(p)

\* What a call that has begun does of its own accord, the lock aside.
Step(p) == RecoverStep(p) \/ MutateStep(p) \/ MigrateStep(p) \/ ReadStep(p)

Next ==
  \/ \E p \in Proc : Step(p) \/ Acquire(p) \/ Crash(p) \/ \E o \in Ops : Begin(p, o)
  \/ \E n \in Name, v \in Content : Edit(n, v)

Spec == Init /\ [][Next]_vars

-----------------------------------------------------------------------------
(* Properties *)

\* Types of the files and of the locals of the calls in progress; the lock is
\* held by exactly the process that is between its acquisition and release.
TypeOK ==
  /\ facts \in [Name -> Value]
  /\ index \in [Name -> Value] \cup {NoIndex}
  /\ newer \subseteq Name
  /\ dirty \in BOOLEAN
  /\ migrating \in BOOLEAN
  /\ journal \in Seq(JournalEntry)
  /\ lock \in Proc \cup {NoProc}
  /\ pc \in [Proc -> LockedAt \cup FreeAt]
  /\ op \in [Proc -> AllOps \cup {"none"}]
  /\ work \in Work
  /\ edits \in Nat
  /\ \A p \in Proc : pc[p] \in LockedAt <=> lock = p

\* A read that takes MEMORY.md without the lock gets the facts as they are:
\* whatever crashed or is half done, an index that differs from the facts is
\* flagged by .dirty, by .migrating or by a fact file newer than it.
FastPathFresh == Fresh /\ ~migrating => index = facts

\* The fallback to knowledge.md never hides facts: without an index and
\* without .dirty, the only facts are those somebody put there by hand.
FallbackHidesNothing ==
  index = NoIndex /\ ~dirty /\ ~migrating => Present = {}

\* A call that is about to commit and return has its mutation in the facts and
\* in the index.
AcknowledgedIsPublished ==
  \A p \in Proc : pc[p] = "commit" =>
    /\ index = facts
    /\ facts[work.intent.name] = work.intent.post

\* Mutations fail closed on a dangling intent, so at most one record of the
\* journal is unresolved, and it is the newest, the one retention never drops.
OneIntentInFlight ==
  \A e \in Danglers(journal) : e.flag = "open" => e.seq = LastSeq(journal)

\* Without hand edits recovery can always resolve what a crash left: the fact
\* of a dangling intent is at one of its two images, and what a rollback that has
\* not landed is to restore is known.  So no call ever fails closed.
NeverWedged ==
  \A e \in Danglers(journal) :
    \/ facts[e.name] = e.post
    \/ facts[e.name] = e.pre /\ (e.op = "rollback" => e.post \in Restored(e))

\* The newest mutation of a fact that is neither undone nor dangling left the
\* fact as it is, so undoing it never meets a conflict.
JournalExplainsFacts ==
  Danglers(journal) = {} =>
    \A e \in Unreverted(journal) :
      (\A f \in Unreverted(journal) : f.name = e.name => f.seq <= e.seq)
        => facts[e.name] = e.post

\* The program changes a fact only under a journaled open intent that holds
\* exactly what it overwrites and what it leaves, or to import an entry of
\* knowledge.md under a free name.
WriteAheadStep ==
  \A n \in Name : facts'[n] # facts[n] =>
    \/ \E e \in Entries(journal) :
         e.flag = "open" /\ e.name = n /\ e.pre = facts[n] /\ e.post = facts'[n]
    \/ migrating /\ facts[n] = Absent
    \/ edits' # edits

WriteAhead == [][WriteAheadStep]_vars

\* Retention never makes the store hand out a sequence number again.
SeqNeverReused == [][LastSeq(journal') >= LastSeq(journal) /\ Sorted(journal')]_vars

\* A migration that clears its sentinel has put every entry in the facts and in
\* the index (unless the bounded name space is used up), and none of them twice,
\* however many crashed attempts came before it.
MigrationComplete ==
  \A p \in Proc : pc[p] = "unsentinel" =>
    /\ index = facts
    /\ \A e \in Entry : NoFreeName(Slug[e]) \/ \E n \in Present : facts[n].src = e
    /\ \A m, n \in Present : facts[m].src = facts[n].src /\ facts[m].src # NoEntry => m = n

-----------------------------------------------------------------------------
(* Fairness: a process that runs is scheduled, and flock is handed to every *)
(* waiter in the end                                                        *)

Fairness == \A p \in Proc : WF_vars(Step(p)) /\ SF_vars(Acquire(p))

FairSpec == Spec /\ Fairness

\* Every call returns, raises or dies: no wait on the non-reentrant flock, and
\* no pass of recovery, lasts for ever.
CallsEnd == \A p \in Proc : pc[p] # "idle" ~> pc[p] = "idle"
=============================================================================
