-------------------------------- MODULE Audit --------------------------------
(***************************************************************************)
(* The audit log (src/security/audit.ts): a ring of entries in memory and  *)
(* a JSONL file that buffered entries are appended to, by the flush that   *)
(* record starts at a threshold and by explicit calls of flush.  Entries   *)
(* are identified by the start of the process and their seq; the hash      *)
(* chain links each entry to the one recorded before it.                   *)
(***************************************************************************)
EXTENDS Integers, SequencesExt

CONSTANTS
  MaxEntries,     \* maxEntries: capacity of the ring
  FlushThreshold, \* flushThreshold
  Calls,          \* explicit calls of flush
  Recording,           \* the flush record starts
  MaxRecords,     \* bound: entries recorded by one process
  MaxBoots        \* bound: starts of the process

\* With a ring of one entry the rotation would empty it and seq begin anew.
ASSUME AuditAssumption ==
  /\ MaxEntries \in Nat \ {0, 1}
  /\ FlushThreshold \in Nat \ {0}
  /\ Recording \notin Calls
  /\ MaxRecords \in Nat /\ MaxBoots \in Nat \ {0}

VARIABLES
  boot,     \* the current start of the process
  entries,  \* the ring
  recorded, \* how many entries this process has recorded
  pending,  \* pendingWrites
  pc,       \* where each flush is: "idle", "waiting" for the flush record
            \* started, "dir", "append", "snapshot" or "done"
  lines,    \* what each flush is appending
  disk,     \* audit.jsonl
  lost,     \* history: entries whose append failed
  called    \* history: flush was called explicitly in this process

memVars == <<entries, recorded, pending, called>>
auditVars == <<boot, memVars, pc, lines, disk, lost>>

Flushes == Calls \cup {Recording}
AuditEntry == (1 .. MaxBoots) \X (0 .. MaxRecords - 1)

AuditTypeOK ==
  /\ boot \in 1 .. MaxBoots
  /\ entries \in Seq(AuditEntry) /\ Len(entries) <= MaxEntries
  /\ recorded \in 0 .. MaxRecords
  /\ pending \in Seq(AuditEntry)
  /\ pc \in [Flushes -> {"idle", "waiting", "dir", "append", "snapshot", "done"}]
  /\ lines \in [Flushes -> Seq(AuditEntry)]
  /\ disk \in Seq(AuditEntry)
  /\ lost \subseteq AuditEntry
  /\ called \in BOOLEAN

AuditInit ==
  /\ boot = 1
  /\ entries = <<>>
  /\ recorded = 0
  /\ pending = <<>>
  /\ pc = [f \in Flushes |-> "idle"]
  /\ lines = [f \in Flushes |-> <<>>]
  /\ disk = <<>>
  /\ lost = {}
  /\ called = FALSE

-----------------------------------------------------------------------------
\* seq continues after the newest entry of the ring.
NextSeq == IF entries = <<>> THEN 0 ELSE Last(entries)[2] + 1

\* The ring before an entry is added.
Rotated == IF Len(entries) >= MaxEntries THEN Tail(entries) ELSE entries

\* flushToDisk begins: nothing to write, or the directory is awaited.
Begin(buffer) == IF buffer = <<>> THEN "snapshot" ELSE "dir"

\* record starts a flush at the threshold unless its last one is under way.
AutoFlushDue(buffer) == Len(buffer) >= FlushThreshold /\ pc[Recording] = "idle"

\* record.
Record ==
  LET e == <<boot, NextSeq>>
      buffer == Append(pending, e)
  IN /\ recorded < MaxRecords
     /\ recorded' = recorded + 1
     /\ entries' = Append(Rotated, e)
     /\ pending' = buffer
     /\ pc' = IF AutoFlushDue(buffer) THEN [pc EXCEPT ![Recording] = Begin(buffer)] ELSE pc
     /\ UNCHANGED <<boot, called, lines, disk, lost>>

\* flush is called (by /admin kill): it waits for the flush record started, if there is one.
FlushCalled(f) ==
  /\ pc[f] = "idle"
  /\ called' = TRUE
  /\ pc' = [pc EXCEPT ![f] = IF pc[Recording] # "idle" THEN "waiting" ELSE Begin(pending)]
  /\ UNCHANGED <<boot, entries, recorded, pending, lines, disk, lost>>

\* Mutant: the buffer is left as it is until the append has succeeded.
TakeKeeps(f) == lines' = [lines EXCEPT ![f] = pending] /\ UNCHANGED pending

\* The buffer becomes the lines to append and is cleared.
Take(f) == lines' = [lines EXCEPT ![f] = pending] /\ pending' = <<>>

\* ensurePersistDir has returned: appendFile is called.
AppendStarts(f) ==
  /\ pc[f] = "dir"
  /\ Take(f)
  /\ pc' = [pc EXCEPT ![f] = "append"]
  /\ UNCHANGED <<boot, entries, recorded, called, disk, lost>>

\* A flush is over: record may start its next one and the calls that waited
\* for this one begin, or a call has returned.
Over(f) ==
  pc' = [g \in Flushes |->
           IF g = f THEN IF f = Recording THEN "idle" ELSE "done"
           ELSE IF f = Recording /\ pc[g] = "waiting" THEN Begin(pending) ELSE pc[g]]

\* ensurePersistDir fails: the buffer is kept for the next flush.
DirFails(f) ==
  /\ pc[f] = "dir"
  /\ Over(f)
  /\ UNCHANGED <<boot, memVars, lines, disk, lost>>

\* Mutant: only the newest lines reach the file.
AppendEndsLast(f) ==
  /\ pc[f] = "append"
  /\ disk' = disk \o (IF lines[f] = <<>> THEN <<>> ELSE <<Last(lines[f])>>)
  /\ lines' = [lines EXCEPT ![f] = <<>>]
  /\ pc' = [pc EXCEPT ![f] = "snapshot"]
  /\ UNCHANGED <<boot, memVars, lost>>

\* appendFile has written the lines; two appends may end in either order.
AppendEnds(f) ==
  /\ pc[f] = "append"
  /\ disk' = disk \o lines[f]
  /\ lines' = [lines EXCEPT ![f] = <<>>]
  /\ pc' = [pc EXCEPT ![f] = "snapshot"]
  /\ UNCHANGED <<boot, memVars, lost>>

\* Mutant: the lines are put back, behind those recorded meanwhile.
AppendFailsRequeues(f) ==
  /\ pc[f] = "append"
  /\ pending' = pending \o lines[f]
  /\ lines' = [lines EXCEPT ![f] = <<>>]
  /\ Over(f)
  /\ UNCHANGED <<boot, entries, recorded, called, disk, lost>>

\* appendFile fails: the lines are gone, the error is logged or rethrown.
AppendFails(f) ==
  /\ pc[f] = "append"
  /\ lost' = lost \cup ToSet(lines[f])
  /\ lines' = [lines EXCEPT ![f] = <<>>]
  /\ Over(f)
  /\ UNCHANGED <<boot, memVars, disk>>

\* writeSnapshot has written the snapshot, which nothing reads back, or failed.
SnapshotEnds(f) ==
  /\ pc[f] = "snapshot"
  /\ Over(f)
  /\ UNCHANGED <<boot, memVars, lines, disk, lost>>

\* What flushes are appending.
InFlight == UNION {ToSet(lines[f]) : f \in Flushes}

\* The process ends and is started again; nothing flushes the buffer.  An
\* append that reached the file before is one that has ended.
Reboot ==
  /\ boot < MaxBoots
  /\ boot' = boot + 1
  /\ entries' = <<>>
  /\ recorded' = 0
  /\ pending' = <<>>
  /\ called' = FALSE
  /\ pc' = [f \in Flushes |-> "idle"]
  /\ lines' = [f \in Flushes |-> <<>>]
  /\ lost' = lost \cup ToSet(pending) \cup InFlight
  /\ UNCHANGED disk

-----------------------------------------------------------------------------
Flush(f) ==
  AppendStarts(f) \/ DirFails(f) \/ AppendEnds(f) \/ AppendFails(f) \/ SnapshotEnds(f)

AuditNext ==
  \/ Record \/ Reboot
  \/ \E f \in Calls : FlushCalled(f)
  \/ \E f \in Flushes : Flush(f)

AuditSpec == AuditInit /\ [][AuditNext]_auditVars

-----------------------------------------------------------------------------
(* Properties. *)

Distinct(s) == \A i, j \in DOMAIN s : s[i] = s[j] => i = j

\* No entry is written twice, or both written and still to be written, with
\* any number of flushes under way and across restarts.
WrittenOnce ==
  /\ Distinct(disk)
  /\ ToSet(disk) \cap (ToSet(pending) \cup InFlight) = {}
  /\ ToSet(pending) \cap InFlight = {}
  /\ \A f, g \in Flushes : f # g => ToSet(lines[f]) \cap ToSet(lines[g]) = {}

\* Nothing this process recorded is forgotten: it is buffered, being
\* appended, in the file, or its append failed.
NothingForgotten ==
  \A k \in 0 .. recorded - 1 :
    <<boot, k>> \in ToSet(pending) \cup InFlight \cup ToSet(disk) \cup lost

\* As long as nobody calls flush, what a process appends is in the order it
\* was recorded in, so the chain on disk can be followed line by line.
InOrder ==
  ~called => \A i, j \in DOMAIN disk :
    i < j /\ disk[i][1] = boot /\ disk[j][1] = boot => disk[i][2] < disk[j][2]
=============================================================================
