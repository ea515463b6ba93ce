------------------------------ MODULE Scheduler ------------------------------
(***************************************************************************)
(* The scheduler: createSchedulerEngine (src/scheduler/engine.ts), the     *)
(* schedule files (src/scheduler/store.ts) and the schedule_task and       *)
(* cancel_schedule tools (src/agents/tools/scheduler.ts).                  *)
(*                                                                         *)
(* A run keeps the definition its tick has read and writes it back, with   *)
(* the time of the run and the next, when it ends.  Whether a file is      *)
(* enabled and can be parsed is left open.                                 *)
(***************************************************************************)
EXTENDS Cron, FiniteSets

CONSTANTS
  Ids,         \* schedule ids
  Slots,       \* bound: runs in progress at a time
  Spans,       \* the instants of a behaviour, in order: one of these sequences
  Expression,  \* the cron expression of each version
  MaxVersion,  \* bound: definitions created under one id
  MaxTriggers  \* bound: calls of triggerNow

ASSUME SchedulerAssumption ==
  /\ Spans \subseteq Seq(Instant_)
  /\ \A span \in Spans : span # <<>> /\ \A k, m \in DOMAIN span : k < m => span[k] < span[m]
  /\ MaxVersion \in Nat /\ MaxTriggers \in Nat /\ DOMAIN Expression = 1 .. MaxVersion

VARIABLES
  clock,     \* the current instant and those that will come
  files,     \* the schedule files
  lastTick,  \* the instant of the last tick of this process, 0 before the first
  tickAt,    \* the minute the tick under way takes it for, 0 if none
  toRead,    \* ids loadAll has listed and not read yet
  view,      \* the definitions loadAll has read
  executing, \* the set that is to prevent overlap
  runs,      \* the runs in progress
  created,   \* definitions created so far under each id
  wanted,    \* history: the definition the user last scheduled, 0 if cancelled
  triggers,  \* calls of triggerNow so far
  triggered, \* history: ids ever run by triggerNow
  completed  \* history: <<id, version, minute, end>> of the recorded tick runs

tickVars == <<lastTick, tickAt, toRead, view>>
userVars == <<created, wanted>>
history  == <<triggers, triggered, completed>>
schedulerVars == <<clock, files, tickVars, executing, runs, userVars, history>>

Now == Head(clock)
Minute == 0 .. Len(Wall)

\* A schedule file: version 0 is no file, last and next are lastRunAt and
\* nextRunAt, 0 for null; from, the instant next was worked out at, is history.
Definition == [version : 0 .. MaxVersion, last : Minute, next : Minute, from : Minute]
Absent == [version |-> 0, last |-> 0, next |-> 0, from |-> 0]
Parsed == [version \in 1 .. MaxVersion |-> ParseCron(Expression[version])]
CronOf(definition) == Parsed[definition.version]

Run == [slot : Slots, id : Ids, def : Definition, at : Minute, by : {"tick", "trigger"}]

SchedulerTypeOK ==
  /\ clock \in UNION {Suffixes(span) : span \in Spans} /\ clock # <<>>
  /\ files \in [Ids -> Definition]
  /\ lastTick \in Minute /\ tickAt \in Minute
  /\ toRead \subseteq Ids
  /\ view \in [Ids -> Definition]
  /\ executing \subseteq Ids
  /\ runs \subseteq Run
  /\ created \in [Ids -> 0 .. MaxVersion]
  /\ wanted \in [Ids -> 0 .. MaxVersion]
  /\ triggers \in 0 .. MaxTriggers
  /\ triggered \subseteq Ids
  /\ completed \subseteq Ids \X (1 .. MaxVersion) \X Minute \X Minute

SchedulerInit ==
  /\ clock \in Spans
  /\ files = [i \in Ids |-> Absent]
  /\ lastTick = 0
  /\ tickAt = 0
  /\ toRead = {}
  /\ view = [i \in Ids |-> Absent]
  /\ executing = {}
  /\ runs = {}
  /\ created = [i \in Ids |-> 0]
  /\ wanted = [i \in Ids |-> 0]
  /\ triggers = 0
  /\ triggered = {}
  /\ completed = {}

-----------------------------------------------------------------------------
Exists(i)  == files[i].version # 0
RunsOf(i)  == {r \in runs : r.id = i}
FreeSlots  == Slots \ {r.slot : r \in runs}

\* schedule_task: a bad expression is refused, and so is a name that is taken.
Create(i, version) ==
  LET fresh == [Absent EXCEPT !.version = version, !.from = Now]
  IN /\ created[i] < version
     /\ ValidateCron(Expression[version])
     /\ ~Exists(i)
     /\ created' = [created EXCEPT ![i] = version]
     /\ wanted' = [wanted EXCEPT ![i] = version]
     /\ files' = [files EXCEPT ![i] = [fresh EXCEPT !.next = NextCronMatch(CronOf(fresh), Now)]]
     /\ UNCHANGED <<clock, tickVars, executing, runs, history>>

\* cancel_schedule.
Cancel(i) ==
  /\ Exists(i)
  /\ files' = [files EXCEPT ![i] = Absent]
  /\ wanted' = [wanted EXCEPT ![i] = 0]
  /\ UNCHANGED <<clock, tickVars, executing, runs, created, history>>

ClockAdvances ==
  /\ Len(clock) > 1
  /\ clock' = Tail(clock)
  /\ UNCHANGED <<files, tickVars, executing, runs, userVars, history>>

-----------------------------------------------------------------------------
\* tick: the interval fires, once a minute, and loadAll lists the files.
TickStart ==
  /\ tickAt = 0
  /\ lastTick < Now
  /\ lastTick' = Now
  /\ tickAt' = Floor(Now)
  /\ toRead' = {i \in Ids : Exists(i)}
  /\ view' = [i \in Ids |-> Absent]
  /\ UNCHANGED <<clock, files, executing, runs, userVars, history>>

\* loadAll reads one file after the other.
TickRead(i) ==
  /\ i \in toRead
  /\ toRead' = toRead \ {i}
  /\ view' = [view EXCEPT ![i] = files[i]]
  /\ UNCHANGED <<clock, files, lastTick, tickAt, executing, runs, userVars, history>>

\* Mutant: schedules that are executing are not skipped.
EligibleOverlap(i) ==
  /\ view[i].version # 0 /\ Floor(view[i].last) # tickAt
  /\ CronMatches(CronOf(view[i]), tickAt)

\* A definition the tick may start: present, not executing, it matches, and
\* has not run yet in this minute.
Eligible(i) ==
  /\ view[i].version # 0
  /\ i \notin executing
  /\ CronMatches(CronOf(view[i]), tickAt)
  /\ Floor(view[i].last) # tickAt

\* After loadAll: the runs that are due are started in one go.
TickFire ==
  /\ tickAt # 0
  /\ toRead = {}
  /\ \E due \in SUBSET {i \in Ids : Eligible(i)} :
       \E slot \in [due -> FreeSlots] :
         /\ \A i, j \in due : slot[i] = slot[j] => i = j
         /\ runs' = runs \cup {[slot |-> slot[i], id |-> i, def |-> view[i],
                               at |-> tickAt, by |-> "tick"] : i \in due}
         /\ executing' = executing \cup due
  /\ tickAt' = 0
  /\ view' = [i \in Ids |-> Absent]
  /\ UNCHANGED <<clock, files, lastTick, toRead, userVars, history>>

\* triggerNow: nothing checks that the schedule is already executing.
TriggerNow(i) ==
  /\ triggers < MaxTriggers
  /\ Exists(i)
  /\ \E k \in FreeSlots :
       runs' = runs \cup {[slot |-> k, id |-> i, def |-> files[i],
                           at |-> Now, by |-> "trigger"]}
  /\ executing' = executing \cup {i}
  /\ triggers' = triggers + 1
  /\ triggered' = triggered \cup {i}
  /\ UNCHANGED <<clock, files, tickVars, userVars, completed>>

-----------------------------------------------------------------------------
\* Mutant: the time of the run is lost.
UpdatedNot(r) == r.def

\* The definition a run writes back.
Updated(r) ==
  [r.def EXCEPT !.last = r.at, !.next = NextCronMatch(CronOf(r.def), r.at), !.from = r.at]

\* The finally block: the run is over and its id leaves the set.
RunOver(r) ==
  /\ runs' = runs \ {r}
  /\ executing' = executing \ {r.id}

\* executeSchedule ends: the definition it was given is saved with lastRunAt.
RunEnds(r) ==
  /\ RunOver(r)
  /\ files' = [files EXCEPT ![r.id] = Updated(r)]
  /\ completed' = completed \cup
       (IF r.by = "tick" THEN {<<r.id, r.def.version, r.at, Now>>} ELSE {})
  /\ UNCHANGED <<clock, tickVars, userVars, triggers, triggered>>

\* The save fails, or for triggerNow the session cannot be loaded.
RunEndsUnsaved(r) ==
  /\ RunOver(r)
  /\ UNCHANGED <<clock, files, tickVars, userVars, history>>

\* The process ends and is started again.  Loading the session of a tick run
\* rejects a promise nobody handles, which ends it too.
Restart ==
  /\ lastTick # 0
  /\ lastTick' = 0
  /\ tickAt' = 0
  /\ toRead' = {}
  /\ view' = [i \in Ids |-> Absent]
  /\ executing' = {}
  /\ runs' = {}
  /\ UNCHANGED <<clock, files, userVars, history>>

-----------------------------------------------------------------------------
SchedulerNext ==
  \/ \E i \in Ids, version \in 1 .. MaxVersion : Create(i, version)
  \/ \E i \in Ids : Cancel(i) \/ TickRead(i) \/ TriggerNow(i)
  \/ ClockAdvances \/ TickStart \/ TickFire \/ Restart
  \/ \E r \in runs : RunEnds(r) \/ RunEndsUnsaved(r)

SchedulerSpec == SchedulerInit /\ [][SchedulerNext]_schedulerVars

-----------------------------------------------------------------------------
(* Properties. *)

\* Ticks alone never run a schedule twice at the same time, however long its
\* runs take and whatever is created, cancelled or restarted meanwhile.
\* (executing.has and executing.add without an await in between)
OverlapOnlyByTrigger ==
  /\ SchedulerTypeOK
  /\ \A i \in Ids \ triggered : Cardinality(RunsOf(i)) <= 1

\* The instants that nextCronMatch and the tick take for an earlier one.
Again == {m \in Instant_ : Floor(m) # m}

\* A definition that was run and recorded for a minute of the local clock is
\* not run again for that minute: not after a restart, and not in an hour that
\* comes again either, unless it matches more than once in that hour, or its
\* run ended no earlier than the tick began, which may have read the file
\* before that; all of this unless triggerNow was used.
OncePerMinute ==
  [][\A r \in runs' \ runs, end \in Instant_ :
       /\ r.id \notin triggered'
       /\ <<r.id, r.def.version, r.at, end>> \in completed
       => /\ r.at \in {Floor(m) : m \in Again}
          /\ end >= lastTick \/ \E m \in Again : Floor(m) # r.at /\ CronMatches(CronOf(r.def), m)]_schedulerVars

\* nextRunAt is the first instant after the one it was worked out at that the
\* expression matches, and null only when none does.  Either instant lying in
\* the second pass of an hour that comes again is the exception.
FirstMatch(definition) ==
  LET later == {m \in Instant_ : m > definition.from /\ CronMatches(CronOf(definition), m)}
  IN IF later = {} THEN 0 ELSE Min(later)
NextIsFirst ==
  \A i \in Ids : Exists(i) /\ {files[i].from, FirstMatch(files[i])} \cap Again = {} =>
    files[i].next = FirstMatch(files[i])

\* cancel_schedule reports "cancelled and removed".  What is on disk is what
\* the user last scheduled, or nothing.
CancelledStays ==
  \A i \in Ids : files[i].version \in {0, wanted[i]}
=============================================================================
